------------------------------ MODULE EvalProofs -------------------------------
(* The evaluation, for every dataset, price, latency and set of calls: refunds, *)
(* the order of cases, the tools of a result, and what a verdict means; and the *)
(* dataset of the repository, whose cases can all be passed.                    *)
EXTENDS EvalRunner, SequenceTheorems, FiniteSetTheorems, WellFoundedInduction, TLAPS

------------------------------------------------------------------------------
(* Lists.                                                                     *)

\* A set of numbers has a least one: what the proofs by induction below use.
LEMMA LeastNat ==
  ASSUME NEW T, T \subseteq Nat, T # {}
  PROVE  \E m \in T : \A k \in T : m <= k
<1>1. PICK m \in T : \A k \in T : <<k, m>> \notin OpToRel(<, Nat)
  BY WFMin, NatLessThanWellFounded, Zenon
<1>2. \A k \in T : ~(k < m)
  BY <1>1 DEF OpToRel
<1> QED
  BY <1>2

\* f is what FlattenSeq builds up, n lists long.
Unfolds(f, seqs, n) ==
  f = [i \in 1..n |-> IF i = 1 THEN seqs[i] ELSE f[i - 1] \o seqs[i]]

\* The recursion of FlattenSeq has a solution, up to any length.
LEMMA UnfoldsExists ==
  ASSUME NEW seqs, NEW n \in Nat
  PROVE  \E f : Unfolds(f, seqs, n)
<1> DEFINE T == {m \in Nat : ~ \E f : Unfolds(f, seqs, m)}
<1> SUFFICES ASSUME T # {} PROVE FALSE
  OBVIOUS
<1>1. PICK m \in T : \A k \in T : m <= k
  BY LeastNat
<1>2. m # 0
  <2>1. Unfolds(<<>>, seqs, 0)
    BY DEF Unfolds
  <2> QED
    BY <2>1
<1>3. PICK f : Unfolds(f, seqs, m - 1)
  BY <1>1, <1>2
<1>4. Unfolds([i \in 1..m |-> IF i = 1 THEN seqs[i] ELSE f[i - 1] \o seqs[i]], seqs, m)
  <2> DEFINE g == [i \in 1..m |-> IF i = 1 THEN seqs[i] ELSE f[i - 1] \o seqs[i]]
  <2>1. \A i \in 1..(m - 1) : f[i] = IF i = 1 THEN seqs[i] ELSE f[i - 1] \o seqs[i]
    BY <1>3, <1>1, <1>2 DEF Unfolds
  <2>2. \A i \in 1..(m - 1) : g[i] = f[i]
    BY <2>1, <1>1, <1>2
  <2>3. \A i \in 1..m : i # 1 => g[i - 1] = f[i - 1]
    <3> HIDE DEF g
    <3> QED
      BY <2>2, <1>1, <1>2
  <2> QED
    BY <2>3 DEF Unfolds
<1> QED
  BY <1>4

LEMMA UnfoldsAt ==
  ASSUME NEW f, NEW seqs, NEW n \in Nat, Unfolds(f, seqs, n), NEW i \in 1..n
  PROVE  f[i] = IF i = 1 THEN seqs[i] ELSE f[i - 1] \o seqs[i]
BY DEF Unfolds

SamePrefix(s, t, n) == \A i \in 1..n : s[i] = t[i]

\* Two lists that begin alike are flattened alike as far.
LEMMA UnfoldsAgree ==
  ASSUME NEW f, NEW g, NEW s, NEW t, NEW n \in Nat, NEW m \in Nat, NEW j \in Nat,
         j <= n, j <= m, Unfolds(f, s, n), Unfolds(g, t, m),
         SamePrefix(s, t, j)
  PROVE  SamePrefix(f, g, j)
<1> USE DEF SamePrefix
<1> DEFINE T == {i \in 1..j : f[i] # g[i]}
<1> SUFFICES ASSUME T # {} PROVE FALSE
  OBVIOUS
<1>0. T \subseteq Nat
  OBVIOUS
<1>1. PICK k \in T : \A i \in T : k <= i
  <2> HIDE DEF T
  <2> QED
    BY <1>0, LeastNat
<1>2. k \in 1..j /\ k \in 1..m /\ k \in 1..n
  BY <1>1
<1>3. k # 1 => f[k - 1] = g[k - 1]
  BY <1>1
<1>4. f[k] = IF k = 1 THEN s[k] ELSE f[k - 1] \o s[k]
  BY <1>2, UnfoldsAt
<1>5. g[k] = IF k = 1 THEN t[k] ELSE g[k - 1] \o t[k]
  BY <1>2, UnfoldsAt
<1> QED
  BY <1>1, <1>2, <1>3, <1>4, <1>5

\* FlattenSeq is the last value of that recursion.
LEMMA FlattenIs ==
  ASSUME NEW S, NEW seqs \in Seq(S), seqs # <<>>
  PROVE  \E f : Unfolds(f, seqs, Len(seqs)) /\ FlattenSeq(seqs) = f[Len(seqs)]
<1>0. Len(seqs) \in Nat \ {0}
  OBVIOUS
<1> DEFINE flatten == CHOOSE f : f = [i \in 1..Len(seqs) |-> IF i = 1 THEN seqs[i] ELSE f[i - 1] \o seqs[i]]
<1>1. \E f : Unfolds(f, seqs, Len(seqs))
  BY <1>0, UnfoldsExists
<1>2. Unfolds(flatten, seqs, Len(seqs))
  BY <1>1 DEF Unfolds
<1>3. FlattenSeq(seqs) = flatten[Len(seqs)]
  BY <1>0 DEF FlattenSeq
<1> QED
  BY <1>2, <1>3

LEMMA UnfoldsType ==
  ASSUME NEW S, NEW seqs \in Seq(Seq(S)), NEW f, Unfolds(f, seqs, Len(seqs))
  PROVE  \A i \in 1..Len(seqs) : f[i] \in Seq(S)
<1> DEFINE T == {i \in 1..Len(seqs) : f[i] \notin Seq(S)}
<1> SUFFICES ASSUME T # {} PROVE FALSE
  OBVIOUS
<1>0. T \subseteq Nat
  OBVIOUS
<1>1. PICK k \in T : \A i \in T : k <= i
  <2> HIDE DEF T
  <2> QED
    BY <1>0, LeastNat
<1>2. k \in 1..Len(seqs) /\ seqs[k] \in Seq(S)
  BY <1>1
<1>3. f[k] = IF k = 1 THEN seqs[k] ELSE f[k - 1] \o seqs[k]
  BY <1>2 DEF Unfolds
<1>4. k # 1 => f[k - 1] \in Seq(S)
  BY <1>1
<1>5. \A a, b \in Seq(S) : a \o b \in Seq(S)
  OBVIOUS
<1> QED
  BY <1>1, <1>2, <1>3, <1>4, <1>5

\* The flattening of a list of lists is a list of their elements.
LEMMA FlattenType ==
  ASSUME NEW S, NEW seqs \in Seq(Seq(S))
  PROVE  FlattenSeq(seqs) \in Seq(S)
<1>1. CASE seqs = <<>>
  BY <1>1 DEF FlattenSeq
<1>2. CASE seqs # <<>>
  BY <1>2, FlattenIs, UnfoldsType
<1> QED
  BY <1>1, <1>2

\* A new list at the end adds its elements at the end.
LEMMA FlattenAppend ==
  ASSUME NEW S, NEW seqs \in Seq(Seq(S)), NEW x \in Seq(S)
  PROVE  FlattenSeq(Append(seqs, x)) = FlattenSeq(seqs) \o x
<1> DEFINE more == Append(seqs, x)
           n == Len(seqs)
<1>1. /\ more \in Seq(Seq(S)) /\ more # <<>> /\ Len(more) = n + 1 /\ n \in Nat
      /\ \A i \in 1..n : more[i] = seqs[i]
      /\ more[n + 1] = x
  BY AppendProperties
<1>2. PICK g : Unfolds(g, more, n + 1) /\ FlattenSeq(more) = g[n + 1]
  <2> HIDE DEF more
  <2> QED
    BY <1>1, FlattenIs
<1>3. g[n + 1] = IF n = 0 THEN x ELSE g[n] \o x
  <2> HIDE DEF more, n
  <2>1. g[n + 1] = IF n + 1 = 1 THEN more[n + 1] ELSE g[(n + 1) - 1] \o more[n + 1]
    BY <1>1, <1>2, UnfoldsAt
  <2>2. (n + 1) - 1 = n /\ (n + 1 = 1 <=> n = 0)
    BY <1>1
  <2> QED
    BY <1>1, <2>1, <2>2
<1>4. CASE seqs = <<>>
  BY <1>2, <1>3, <1>4, ConcatEmptySeq DEF FlattenSeq
<1>5. CASE seqs # <<>>
  <2>1. PICK f : Unfolds(f, seqs, n) /\ FlattenSeq(seqs) = f[n]
    BY <1>5, FlattenIs
  <2>2. g[n] = f[n]
    <3> n \in 1..n
      BY <1>5
    <3> HIDE DEF more, n
    <3>1. SamePrefix(seqs, more, n)
      BY <1>1 DEF SamePrefix
    <3>0. n \in Nat /\ n + 1 \in Nat /\ n <= n /\ n <= n + 1
      BY <1>1
    <3>2. SamePrefix(f, g, n)
      BY <2>1, <1>2, <3>0, <3>1, UnfoldsAgree
    <3> QED
      BY <3>2 DEF SamePrefix
  <2> QED
    BY <1>2, <1>3, <1>5, <2>1, <2>2
<1> QED
  BY <1>4, <1>5

\* A new element at the end of the last list is at the end of them all.
LEMMA FlattenLast ==
  ASSUME NEW S, NEW seqs \in Seq(Seq(S)), NEW x \in S, seqs # <<>>
  PROVE  LET more == [seqs EXCEPT ![Len(seqs)] = Append(@, x)]
         IN more \in Seq(Seq(S)) /\ FlattenSeq(more) = Append(FlattenSeq(seqs), x)
<1> DEFINE n == Len(seqs)
           more == [seqs EXCEPT ![n] = Append(@, x)]
<1>0. n \in Nat \ {0} /\ n \in 1..n /\ seqs[n] \in Seq(S)
  OBVIOUS
<1>1. /\ more \in Seq(Seq(S)) /\ more # <<>> /\ Len(more) = n
      /\ \A i \in 1..(n - 1) : more[i] = seqs[i]
      /\ more[n] = Append(seqs[n], x)
  BY <1>0, AppendProperties, ExceptSeq
<1>2. PICK g : Unfolds(g, more, n) /\ FlattenSeq(more) = g[n]
  <2> HIDE DEF more
  <2> QED
    BY <1>1, FlattenIs
<1>3. PICK f : Unfolds(f, seqs, n) /\ FlattenSeq(seqs) = f[n]
  BY FlattenIs
<1>4. /\ g[n] = IF n = 1 THEN more[n] ELSE g[n - 1] \o more[n]
      /\ f[n] = IF n = 1 THEN seqs[n] ELSE f[n - 1] \o seqs[n]
  <2> HIDE DEF more, n
  <2> QED
    BY <1>0, <1>2, <1>3, UnfoldsAt
<1>5. n # 1 => g[n - 1] = f[n - 1] /\ f[n - 1] \in Seq(S)
  <2>1. \A i \in 1..n : f[i] \in Seq(S)
    BY <1>3, UnfoldsType
  <2>2. \A i \in 1..(n - 1) : f[i] = g[i]
    <3> HIDE DEF more, n
    <3>1. n \in Nat /\ n - 1 \in Nat /\ n - 1 <= n /\ n <= n
      BY <1>0
    <3>2. SamePrefix(seqs, more, n - 1)
      BY <1>1 DEF SamePrefix
    <3>3. SamePrefix(f, g, n - 1)
      BY <1>0, <1>2, <1>3, <3>1, <3>2, UnfoldsAgree
    <3> QED
      BY <3>3 DEF SamePrefix
  <2> HIDE DEF more, n
  <2> QED
    BY <1>0, <2>1, <2>2
<1>6. \A s \in Seq(S), t \in Seq(S) : s \o Append(t, x) = Append(s \o t, x)
  OBVIOUS
<1> QED
  BY <1>0, <1>1, <1>2, <1>3, <1>4, <1>5, <1>6

------------------------------------------------------------------------------
(* The scorers and the suite.                                                 *)
\* What the scorers are given.
IsCase(c) ==
  /\ c \in EvalCase
  /\ IsFiniteSet(c.expected_tools) /\ IsFiniteSet(c.unexpected_tools)
  /\ IsFiniteSet(c.must) /\ IsFiniteSet(c.must_not)

IsRun(run) ==
  /\ run.answered \in BOOLEAN /\ run.cost \in Nat /\ run.latency \in Nat
  /\ run.answered => run.status = "completed"

LEMMA PartOf ==
  ASSUME NEW S, NEW T, IsFiniteSet(S), T \subseteq S
  PROVE  IsFiniteSet(T) /\ Cardinality(T) \in Nat /\ Cardinality(T) <= Cardinality(S)
         /\ Cardinality(S) \in Nat
BY FS_Subset, FS_CardinalityType

LEMMA ToolScore ==
  ASSUME NEW c, IsCase(c), NEW called
  PROVE  ToolSelection(c, called) \in Score
<1>1. Cardinality(c.expected_tools \ called) \in Nat
  BY PartOf DEF IsCase
<1>2. Cardinality(c.unexpected_tools \cap called) \in Nat
  BY PartOf DEF IsCase
<1> QED
  BY <1>1, <1>2 DEF ToolSelection, AtLeastZero, Score

\* A part is at most a thousand thousandths, and the whole is as many.
LEMMA ShareOf ==
  ASSUME NEW a \in Nat, NEW b \in Nat \ {0}, a <= b
  PROVE  (1000 * a + b \div 2) \div b \in 0..1000 /\ (1000 * b + b \div 2) \div b = 1000
<1> DEFINE h == b \div 2
<1>1. h \in Nat /\ h < b
  OBVIOUS
<1> HIDE DEF h
<1>2. (1000 * a + h) \div b \in 0..1000 /\ (1000 * b + h) \div b = 1000
  BY <1>1
<1> QED
  BY <1>2 DEF h

LEMMA AnswerScore ==
  ASSUME NEW c, IsCase(c), NEW run, IsRun(run)
  PROVE  /\ AnswerQuality(c, run) \in Score
         /\ c.expected_status = "completed" /\ run.status # "completed"
              => AnswerQuality(c, run) = 0
<1>1. /\ Cardinality(c.must \cap run.words) \in Nat /\ Cardinality(c.must) \in Nat
      /\ Cardinality(c.must \cap run.words) <= Cardinality(c.must)
  BY PartOf DEF IsCase
<1>2. c.must # {} => Cardinality(c.must) # 0
  BY FS_EmptySet DEF IsCase
<1>3. Cardinality(c.must_not \cap run.words) \in Nat
  BY PartOf DEF IsCase
<1> DEFINE recall == IF c.must = {} THEN 1000
                     ELSE Share(Cardinality(c.must \cap run.words), Cardinality(c.must))
<1>4. recall \in 0..1000
  <2>1. CASE c.must = {}
    BY <2>1
  <2>2. CASE c.must # {}
    <3> DEFINE a == Cardinality(c.must \cap run.words)
               b == Cardinality(c.must)
    <3>1. a \in Nat /\ b \in Nat \ {0} /\ a <= b
      BY <1>1, <1>2, <2>2
    <3>2. Share(a, b) \in 0..1000
      <4> HIDE DEF a, b
      <4> QED
        BY <3>1, ShareOf DEF Share
    <3> QED
      BY <2>2, <3>2
  <2> QED
    BY <2>1, <2>2
<1>5. AtLeastZero(recall - 300 * Cardinality(c.must_not \cap run.words)) \in Score
  <2> HIDE DEF recall
  <2> QED
    BY <1>3, <1>4 DEF AtLeastZero, Score
<1>6. AnswerQuality(c, run) = IF ~run.answered
                               THEN IF c.expected_status = "completed" THEN 0 ELSE 1000
                               ELSE AtLeastZero(recall - 300 * Cardinality(c.must_not \cap run.words))
  BY DEF AnswerQuality
<1>7. 0 \in Score /\ 1000 \in Score
  BY DEF Score
<1> HIDE DEF recall
<1> QED
  BY <1>5, <1>6, <1>7 DEF IsRun

LEMMA LatencyInRange ==
  ASSUME NEW c, IsCase(c), NEW run, IsRun(run)
  PROVE  LatencyScore(c, run) \in Score
<1>1. c.max_latency \in Nat \ {0} /\ run.latency \in Nat
  BY DEF IsCase, IsRun, EvalCase
<1>2. CASE run.latency <= c.max_latency
  BY <1>2 DEF LatencyScore, Score
<1>3. CASE run.latency >= 2 * c.max_latency
  BY <1>1, <1>3 DEF LatencyScore, Score
<1>4. CASE c.max_latency < run.latency /\ run.latency < 2 * c.max_latency
  <2> DEFINE l == run.latency
             m == c.max_latency
  <2>1. Share(2 * m - l, m) \in 0..1000
    <3> DEFINE a == 2 * m - l
    <3>1. m \in Nat \ {0} /\ a \in Nat /\ a <= m
      BY <1>1, <1>4
    <3> HIDE DEF a, m
    <3>2. Share(a, m) \in 0..1000
      BY <3>1, ShareOf DEF Share
    <3> QED
      BY <3>2 DEF a
  <2>2. ~(run.latency <= c.max_latency) /\ ~(run.latency >= 2 * c.max_latency)
    BY <1>1, <1>4
  <2>3. LatencyScore(c, run) = Share(2 * m - l, m)
    BY <2>2 DEF LatencyScore
  <2> HIDE DEF l, m
  <2> QED
    BY <2>1, <2>3 DEF Score
<1> QED
  BY <1>1, <1>2, <1>3, <1>4

\* What the scorers say of one run of a case.
LEMMA ScoresAre ==
  ASSUME NEW c, IsCase(c), NEW run, IsRun(run), NEW called
  PROVE  LET s == Scores(c, run, called)
         IN /\ DOMAIN s = Scorers
            /\ \A n \in Scorers : s[n] \in Score
            /\ s.cost_efficiency \in {0, 500, 1000}
            /\ run.status = c.expected_status
                 => s.task_completion = 1000 /\ s.escalation_accuracy = 1000
            /\ run.status # c.expected_status
                 => /\ s.task_completion = 0
                    /\ \/ s.escalation_accuracy <= 300
                       \/ s.answer_quality = 0
<1> DEFINE s == Scores(c, run, called)
<1>1. s.tool_selection \in Score
  BY ToolScore DEF Scores
<1>2. s.answer_quality \in Score
  BY AnswerScore DEF Scores
<1>3. s.latency \in Score
  BY LatencyInRange DEF Scores
<1>4. s.cost_efficiency \in {0, 500, 1000}
  BY DEF Scores, CostEfficiency
<1>5. s.task_completion = IF run.status = c.expected_status THEN 1000 ELSE 0
  BY DEF Scores, TaskCompletion
<1>6. s.escalation_accuracy = EscalationAccuracy(c, run)
  BY DEF Scores
<1>7. s.escalation_accuracy \in {0, 300, 1000}
  BY <1>6 DEF EscalationAccuracy
<1>8. c.expected_status \in {"completed", "escalated"}
  BY DEF IsCase, EvalCase
<1>9. run.status = c.expected_status => s.escalation_accuracy = 1000
  BY <1>6 DEF EscalationAccuracy
<1>10. run.status # c.expected_status
         => s.escalation_accuracy <= 300 \/ s.answer_quality = 0
  <2>1. CASE c.expected_status = "escalated"
    BY <1>6, <2>1 DEF EscalationAccuracy
  <2>2. CASE c.expected_status = "completed" /\ run.status = "escalated"
    BY <1>6, <2>2 DEF EscalationAccuracy
  <2>3. CASE c.expected_status = "completed" /\ run.status # "completed"
    BY <2>3, AnswerScore DEF Scores
  <2> QED
    BY <1>8, <2>1, <2>2, <2>3
<1>11. Scorers = {"task_completion", "tool_selection", "answer_quality", "cost_efficiency",
                  "latency", "escalation_accuracy"}
  BY DEF Scorers, Weight
<1>12. DOMAIN s = Scorers
  BY <1>11 DEF Scores
<1> HIDE DEF s
<1>13. \A n \in Scorers : s[n] \in Score
  BY <1>1, <1>2, <1>3, <1>4, <1>5, <1>7, <1>11 DEF Score
<1> QED
  BY <1>4, <1>5, <1>9, <1>10, <1>12, <1>13 DEF s

\* The arithmetic of the weights.
LEMMA AverageOf ==
  ASSUME NEW a \in Int, NEW b \in Int, NEW c \in Int, NEW d \in Int, NEW e \in Int, NEW f \in Int,
         0 <= a, 0 <= b, 0 <= c, 0 <= d, 0 <= e, 0 <= f,
         a <= 1000, b <= 1000, c <= 1000, d <= 1000, e <= 1000, f <= 1000
  PROVE  LET w == 20 * a + 15 * b + 15 * c + 10 * d + 5 * e + 15 * f
         IN /\ w \in Int /\ 0 <= w /\ w <= 80000
            /\ a = 0 /\ (f <= 300 \/ c = 0) => w < 56000
            /\ a = 1000 /\ f = 1000 => (w >= 56000 <=> 15 * b + 15 * c + 10 * d + 5 * e >= 21000)
            /\ a >= 700 /\ b >= 700 /\ c >= 700 /\ d >= 700 /\ e >= 700 /\ f >= 700
                 => w >= 56000
OBVIOUS

\* What the average says of scores that are a run's.
LEMMA AverageIs ==
  ASSUME NEW s, \A n \in Scorers : s[n] \in Score
  PROVE  /\ (Weighted(s) + TotalWeight \div 2) \div TotalWeight \in Score
         /\ s.task_completion = 0 /\ (s.escalation_accuracy <= 300 \/ s.answer_quality = 0)
              => ~(Weighted(s) >= PassThreshold * TotalWeight)
         /\ s.task_completion = 1000 /\ s.escalation_accuracy = 1000
              => (Weighted(s) >= PassThreshold * TotalWeight
                  <=> 15 * s.tool_selection + 15 * s.answer_quality
                        + 10 * s.cost_efficiency + 5 * s.latency >= 21000)
         /\ (\A n \in Scorers : s[n] >= ScorerThreshold)
              => Weighted(s) >= PassThreshold * TotalWeight
<1>1. Scorers = {"task_completion", "tool_selection", "answer_quality", "cost_efficiency",
                 "latency", "escalation_accuracy"}
  BY DEF Scorers, Weight
<1>2. TotalWeight = 80
  BY DEF TotalWeight, AddUp, Weight
<1> DEFINE a == s.task_completion
           b == s.tool_selection
           c == s.answer_quality
           d == s.cost_efficiency
           e == s.latency
           f == s.escalation_accuracy
           w == 20 * a + 15 * b + 15 * c + 10 * d + 5 * e + 15 * f
<1>3. Weighted(s) = w
  BY <1>1 DEF Weighted, AddUp, Weight
<1>0. a \in 0..1000 /\ b \in 0..1000 /\ c \in 0..1000 /\ d \in 0..1000 /\ e \in 0..1000
      /\ f \in 0..1000
  BY <1>1 DEF Score
<1>4. /\ a \in Int /\ b \in Int /\ c \in Int /\ d \in Int /\ e \in Int /\ f \in Int
      /\ 0 <= a /\ 0 <= b /\ 0 <= c /\ 0 <= d /\ 0 <= e /\ 0 <= f
      /\ a <= 1000 /\ b <= 1000 /\ c <= 1000 /\ d <= 1000 /\ e <= 1000 /\ f <= 1000
  <2> HIDE DEF a, b, c, d, e, f
  <2> QED
    BY <1>0
<1>5. /\ w \in Int /\ 0 <= w /\ w <= 80000
      /\ a = 0 /\ (f <= 300 \/ c = 0) => w < 56000
      /\ a = 1000 /\ f = 1000 => (w >= 56000 <=> 15 * b + 15 * c + 10 * d + 5 * e >= 21000)
      /\ a >= 700 /\ b >= 700 /\ c >= 700 /\ d >= 700 /\ e >= 700 /\ f >= 700 => w >= 56000
  <2> HIDE DEF a, b, c, d, e, f
  <2> QED
    BY <1>4, AverageOf
<1>6. (Weighted(s) + TotalWeight \div 2) \div TotalWeight \in Score
  <2> HIDE DEF w
  <2>1. (w + 40) \div 80 \in 0..1000
    BY <1>5
  <2> QED
    BY <1>2, <1>3, <2>1 DEF Score
<1>7. PassThreshold * TotalWeight = 56000
  BY <1>2 DEF PassThreshold
<1>8. (\A n \in Scorers : s[n] >= ScorerThreshold)
        => a >= 700 /\ b >= 700 /\ c >= 700 /\ d >= 700 /\ e >= 700 /\ f >= 700
  BY <1>1 DEF ScorerThreshold
<1>9. ~(w >= 56000) <=> w < 56000
  <2> HIDE DEF w
  <2> QED
    BY <1>5
<1> HIDE DEF w
<1> QED
  BY <1>3, <1>5, <1>6, <1>7, <1>8, <1>9

\* What the suite says of a run of a case.
Judged(r, c, run, called, error) ==
  /\ r.case_id = c.case_id /\ r.status = run.status
  /\ r.overall \in Score
  /\ \A n \in DOMAIN r.scores : n \in Scorers /\ r.scores[n] \in Score
  /\ error \in {"none", ""} => r.tools = called /\ r.error = "none"
  /\ error \notin {"none", ""} => r.tools = <<>>
  /\ r.passed => error \in {"none", ""} /\ run.status = c.expected_status
  /\ ~r.passed => \/ r.error # "none"
                  \/ \E n \in Scorers : r.scores[n] < ScorerThreshold
  /\ r.error = "none" => /\ r.passed <=> Enough(r.scores)
                         /\ r.passed <=> FourScores(r.scores)

LEMMA EvaluateIs ==
  ASSUME NEW c, IsCase(c), NEW run, IsRun(run), NEW called, NEW error
  PROVE  Judged(Evaluate(c, run, called, error), c, run, called, error)
<1> DEFINE s == Scores(c, run, {called[i] : i \in DOMAIN called})
           r == Evaluate(c, run, called, error)
<1> SUFFICES Judged(r, c, run, called, error)
  OBVIOUS
<1>1. CASE error \notin {"none", ""}
  <2>1. r = [case_id |-> c.case_id, status |-> run.status, tools |-> <<>>,
             scores |-> <<>>, overall |-> 0, passed |-> FALSE, error |-> error]
    BY <1>1 DEF Evaluate
  <2>2. /\ DOMAIN r.scores = {}
        /\ r.case_id = c.case_id /\ r.status = run.status /\ ~r.passed /\ r.error = error
        /\ r.tools = <<>>
    BY <2>1
  <2> HIDE DEF r
  <2>3. r.overall \in Score
    BY <2>1 DEF Score
  <2> QED
    <3>1. \A n \in DOMAIN r.scores : n \in Scorers /\ r.scores[n] \in Score
      BY <2>2
    <3>2. error # "none" /\ error # "" /\ r.error # "none"
      BY <1>1, <2>2
    <3>3. error \notin {"none", ""}
      BY <1>1
    <3> QED
      BY <2>2, <2>3, <3>1, <3>2, <3>3, Zenon DEF Judged
<1>2. CASE error \in {"none", ""}
  <2>1. /\ r.case_id = c.case_id /\ r.status = run.status /\ r.tools = called
        /\ r.scores = s /\ r.error = "none"
        /\ r.overall = (Weighted(s) + TotalWeight \div 2) \div TotalWeight
        /\ r.passed = (Weighted(s) >= PassThreshold * TotalWeight /\ ~HardFailed(s))
    <3> HIDE DEF s
    <3> QED
      BY <1>2 DEF Evaluate, s
  <2> DEFINE t == r.scores
             enough == Enough(t)
  <2>2. /\ DOMAIN t = Scorers
        /\ \A n \in Scorers : t[n] \in Score
        /\ run.status = c.expected_status
             => t.task_completion = 1000 /\ t.escalation_accuracy = 1000
        /\ run.status # c.expected_status
             => /\ t.task_completion = 0
                /\ \/ t.escalation_accuracy <= 300
                   \/ t.answer_quality = 0
    BY <2>1, ScoresAre
  <2>3. r.passed <=> enough /\ ~HardFailed(t)
    BY <2>1 DEF Enough
  <2>4. r.overall = (Weighted(t) + TotalWeight \div 2) \div TotalWeight
    BY <2>1
  <2> HIDE DEF s, r
  <2>5. HardFailed(t) <=> t.task_completion = 0 \/ t.escalation_accuracy = 0
    BY DEF HardFailed, HardFail
  <2>6. run.status # c.expected_status => ~enough
    BY <2>2, AverageIs DEF Enough
  <2>7. run.status = c.expected_status => ~HardFailed(t)
    BY <2>2, <2>5
  <2>8. r.passed <=> enough
    <3> HIDE DEF t, enough
    <3> QED
      BY <2>3, <2>6, <2>7
  <2>9. enough <=> FourScores(t)
    <3>1. CASE run.status = c.expected_status
      BY <2>2, <3>1, AverageIs DEF Enough, FourScores
    <3>2. CASE run.status # c.expected_status
      BY <2>2, <2>6, <3>2 DEF FourScores
    <3> QED
      BY <3>1, <3>2
  <2>10. ~enough => \E n \in Scorers : t[n] < ScorerThreshold
    <3> SUFFICES ASSUME \A n \in Scorers : ~(t[n] < ScorerThreshold) PROVE enough
      OBVIOUS
    <3>1. ASSUME NEW n \in Scorers PROVE t[n] >= ScorerThreshold
      <4>1. t[n] \in 0..1000 /\ ~(t[n] < 700)
        BY <2>2 DEF Score, ScorerThreshold
      <4> HIDE DEF t
      <4> QED
        BY <4>1 DEF ScorerThreshold
    <3> QED
      BY <2>2, <3>1, AverageIs DEF Enough
  <2>11. r.overall \in Score
    BY <2>2, <2>4, AverageIs DEF Enough
  <2>12. r.passed => run.status = c.expected_status
    BY <2>6, <2>8, Zenon
  <2>13. ~r.passed => \E n \in Scorers : r.scores[n] < ScorerThreshold
    BY <2>8, <2>10, Zenon
  <2>14. r.passed <=> FourScores(r.scores)
    BY <2>8, <2>9
  <2>15. \A n \in DOMAIN r.scores : n \in Scorers /\ r.scores[n] \in Score
    BY <2>2
  <2> QED
    BY <1>2, <2>1, <2>8, <2>11, <2>12, <2>13, <2>14, <2>15, Zenon DEF Judged
<1> QED
  BY <1>1, <1>2

------------------------------------------------------------------------------
(* Refunds.                                                                   *)
\* What was approved is on record as refunded.
RefundInv ==
  \A a \in approvals : /\ a.call.order \in processed
                       /\ a.call.amount <= TotalAmount[a.call.order]

OneEach == \A a, b \in approvals : a.call.order = b.call.order => a = b

LEMMA RefundNext == RefundInv /\ OneEach /\ [Next]_vars => (RefundInv /\ OneEach)'
<1> SUFFICES ASSUME RefundInv, OneEach, [Next]_vars PROVE (RefundInv /\ OneEach)'
  OBVIOUS
<1>1. ASSUME NEW c \in Calls, Execute(c) PROVE (RefundInv /\ OneEach)'
  <2>1. CASE UNCHANGED toolVars
    BY <2>1 DEF toolVars, RefundInv, OneEach
  <2>2. CASE /\ RefundApproved(c.order, c.amount, processed)
             /\ processed' = processed \cup {c.order}
             /\ approvals' = approvals \cup {[by |-> Current.case_id, call |-> c]}
    BY <2>2 DEF RefundApproved, RefundInv, OneEach
  <2> QED
    BY <1>1, <2>1, <2>2 DEF Execute
<1>2. CASE UNCHANGED toolVars
  BY <1>2 DEF toolVars, RefundInv, OneEach
<1> QED
  BY <1>1, <1>2 DEF Next, vars, StartSuite, Exit, StartCase, Respond, Finish, Return, Crash,
     Record, Report

\* Whatever cases run in whatever order, an order is refunded once in the life of
\* the process and for no more than was paid (_refund_request).
THEOREM RefundsOnce == Spec => []RefundedOnce
<1>1. Init => RefundInv /\ OneEach
  BY DEF Init, RefundInv, OneEach
<1>2. RefundInv /\ OneEach => RefundedOnce
  BY DEF RefundInv, OneEach, RefundedOnce
<1> QED
  BY <1>1, <1>2, RefundNext, PTL DEF Spec

------------------------------------------------------------------------------
(* The lists of cases, results and reports.                                   *)

\* SetToSeq lists a set, each element once.
LEMMA SetToSeqIs ==
  ASSUME NEW S, IsFiniteSet(S)
  PROVE  SetToSeq(S) \in Injection(1..Cardinality(S), S)
<1> DEFINE n == Cardinality(S)
<1>1. \E f \in [1..n -> S] : IsInjective(f)
  <2>1. ExistsBijection(1..n, S)
    BY FS_CardinalityType
  <2> QED
    BY <2>1 DEF ExistsBijection, Bijection, Injection, IsInjective
<1>2. SetToSeq(S) \in [1..n -> S] /\ IsInjective(SetToSeq(S))
  BY <1>1 DEF SetToSeq
<1> QED
  BY <1>2 DEF Injection

LEMMA SetToSeqType ==
  ASSUME NEW S, IsFiniteSet(S)
  PROVE  SetToSeq(S) \in Seq(S)
<1>1. Cardinality(S) \in Nat
  BY FS_CardinalityType
<1>2. SetToSeq(S) \in [1..Cardinality(S) -> S]
  BY SetToSeqIs DEF Injection
<1> QED
  BY <1>1, <1>2

LEMMA ElementsOf ==
  ASSUME NEW S, NEW s \in Seq(S)
  PROVE  IsFiniteSet(ToSet(s)) /\ s \in Seq(ToSet(s)) /\ ToSet(s) \subseteq S
<1>1. Len(s) \in Nat /\ DOMAIN s = 1..Len(s)
  OBVIOUS
<1>2. IsFiniteSet(DOMAIN s)
  BY <1>1, FS_Interval
<1>3. IsFiniteSet(ToSet(s))
  <2>1. s \in Surjection(DOMAIN s, ToSet(s))
    BY <1>1 DEF Surjection, ToSet
  <2> QED
    BY <1>2, <2>1, FS_Surjection
<1>4. s \in [1..Len(s) -> ToSet(s)]
  BY <1>1 DEF ToSet
<1>5. s \in Seq(ToSet(s))
  BY <1>1, <1>4
<1>6. ToSet(s) \subseteq S
  BY DEF ToSet
<1> QED
  BY <1>3, <1>5, <1>6

LEMMA ConcatElements ==
  ASSUME NEW S, NEW a \in Seq(S), NEW b \in Seq(S)
  PROVE  ToSet(a) \subseteq ToSet(a \o b) /\ ToSet(b) \subseteq ToSet(a \o b)
<1>1. ASSUME NEW i \in DOMAIN a PROVE i \in DOMAIN (a \o b) /\ (a \o b)[i] = a[i]
  BY ConcatProperties
<1>2. ASSUME NEW i \in DOMAIN b
      PROVE  Len(a) + i \in DOMAIN (a \o b) /\ (a \o b)[Len(a) + i] = b[i]
  BY ConcatProperties
<1> HIDE DEF ToSet
<1>3. ToSet(a) \subseteq ToSet(a \o b)
  BY <1>1 DEF ToSet
<1>4. ToSet(b) \subseteq ToSet(a \o b)
  BY <1>2 DEF ToSet
<1> QED
  BY <1>3, <1>4

\* The cases of a suite, chosen or not, are the catalog's.
LEMMA CatalogCases ==
  ASSUME NEW cat \in Catalogs, NEW s \in Suites, NEW only
  PROVE  /\ ToSet(AllCases(cat)) \subseteq EvalCase
         /\ cat[s] \in Seq(ToSet(AllCases(cat)))
         /\ Chosen(cat[s], only) \in Seq(ToSet(AllCases(cat)))
<1>1. cat["support"] \in Seq(EvalCase) /\ cat["engineering"] \in Seq(EvalCase)
  BY CatalogAssumption DEF Suites
<1>2. AllCases(cat) \in Seq(EvalCase)
  BY <1>1 DEF AllCases
<1>3. /\ ToSet(cat["support"]) \subseteq ToSet(AllCases(cat))
      /\ ToSet(cat["engineering"]) \subseteq ToSet(AllCases(cat))
  BY <1>1, ConcatElements DEF AllCases
<1>5. cat[s] \in Seq(EvalCase) /\ ToSet(cat[s]) \subseteq ToSet(AllCases(cat))
  BY <1>1, <1>3 DEF Suites
<1>6. cat[s] \in Seq(ToSet(AllCases(cat))) /\ IsFiniteSet(ToSet(cat[s]))
  BY <1>5, ElementsOf, SeqMonotonic
<1>7. Chosen(cat[s], only) \in Seq(ToSet(AllCases(cat)))
  <2> DEFINE S == {c \in ToSet(cat[s]) : c.case_id = only}
  <2>1. IsFiniteSet(S) /\ S \subseteq ToSet(AllCases(cat))
    BY <1>5, <1>6, PartOf
  <2>2. SetToSeq(S) \in Seq(ToSet(AllCases(cat)))
    <3> HIDE DEF S
    <3> QED
      BY <2>1, SetToSeqType, SeqMonotonic
  <2> QED
    BY <1>6, <2>2 DEF Chosen
<1>8. ToSet(AllCases(cat)) \subseteq EvalCase
  BY <1>2, ElementsOf
<1> QED
  BY <1>6, <1>7, <1>8

\* The suites and cases ahead are the catalog's, and there is a case wherever
\* one is run.
QueueInv ==
  /\ stage \in Stages /\ catalog \in Catalogs
  /\ todo \in Seq(Suites) /\ left \in Seq(ToSet(AllCases(catalog)))
  /\ results \in Seq(ResultSet) /\ reports \in Seq(ToSet(reports))
  /\ stage \in {"case", "run", "report"} => todo # <<>>
  /\ stage \in {"case", "run"} => left # <<>>
  /\ stage = "report" => left = <<>>

\* Appending to a list of its own elements.
LEMMA AppendElements ==
  ASSUME NEW s, s \in Seq(ToSet(s)), NEW x
  PROVE  /\ Append(s, x) \in Seq(ToSet(Append(s, x)))
         /\ ToSet(Append(s, x)) = ToSet(s) \cup {x}
         /\ DOMAIN Append(s, x) = 1..(Len(s) + 1) /\ Len(Append(s, x)) = Len(s) + 1
         /\ \A i \in 1..Len(s) : Append(s, x)[i] = s[i]
         /\ Append(s, x)[Len(s) + 1] = x
<1> DEFINE S == ToSet(s) \cup {x}
           more == Append(s, x)
<1>1. s \in Seq(S)
  <2> HIDE DEF ToSet
  <2> QED
    BY SeqMonotonic
<1>2. /\ more \in Seq(S) /\ Len(more) = Len(s) + 1 /\ DOMAIN more = 1..(Len(s) + 1)
      /\ \A i \in 1..Len(s) : more[i] = s[i]
      /\ more[Len(s) + 1] = x
  <2> HIDE DEF S
  <2>1. x \in S
    BY DEF S
  <2> QED
    BY <1>1, <2>1, AppendProperties
<1>3. DOMAIN s = 1..Len(s) /\ Len(s) \in Nat
  BY <1>1
<1> HIDE DEF more
<1>4. ToSet(more) = S
  BY <1>2, <1>3 DEF ToSet
<1> QED
  BY <1>2, <1>4 DEF more

\* What recording a result does to the lists, whatever the result.
LEMMA RecordKeeps ==
  ASSUME QueueInv, stage = "run", NEW result, Record(result)
  PROVE  QueueInv'
<1>1. results' \in Seq(ResultSet')
  <2>1. results' = Append(results, result)
    BY DEF Record
  <2>2. results \in Seq(ToSet(results))
    BY DEF QueueInv, ResultSet, ToSet
  <2>3. results' \in Seq(ToSet(results'))
    BY <2>1, <2>2, AppendElements
  <2> QED
    BY <2>3 DEF ResultSet, ToSet
<1>2. left # <<>> /\ left' = Tail(left) /\ left' \in Seq(ToSet(AllCases(catalog)))
  BY HeadTailProperties DEF QueueInv, Record
<1>3. /\ stage' = IF left' = <<>> THEN "report" ELSE "case"
      /\ UNCHANGED <<catalog, todo, reports>>
  BY DEF Record
<1> QED
  BY <1>1, <1>2, <1>3 DEF QueueInv, Stages

LEMMA QueueNext == QueueInv /\ [Next]_vars => QueueInv'
<1> SUFFICES ASSUME QueueInv, [Next]_vars PROVE QueueInv'
  OBVIOUS
<1>1. CASE StartSuite
  <2> DEFINE chosen == Chosen(catalog[Suite], filter)
  <2>1. Suite \in Suites /\ Tail(todo) \in Seq(Suites)
    BY <1>1, HeadTailProperties DEF QueueInv, StartSuite, Suite
  <2>2. chosen \in Seq(ToSet(AllCases(catalog)))
    BY <2>1, CatalogCases DEF QueueInv
  <2>3. CASE chosen = <<>>
    BY <1>1, <2>1, <2>3 DEF QueueInv, StartSuite, ResultSet
  <2>4. CASE chosen # <<>>
    <3>1. left' = chosen /\ results' = <<>> /\ stage' = "case"
          /\ UNCHANGED <<todo, catalog, reports>> /\ todo # <<>>
      BY <1>1, <2>4 DEF StartSuite
    <3>2. results' \in Seq(ResultSet')
      BY <3>1
    <3> QED
      BY <2>2, <2>4, <3>1, <3>2 DEF QueueInv, Stages
  <2> QED
    BY <2>3, <2>4
<1>2. CASE Exit
  BY <1>2 DEF QueueInv, Exit, suiteVars, Stages, ResultSet
<1>3. CASE StartCase
  BY <1>3 DEF QueueInv, StartCase, suiteVars, Stages, ResultSet
<1>4. CASE UNCHANGED <<stage, suiteVars>>
  BY <1>4 DEF QueueInv, suiteVars, ResultSet
<1>5. CASE Return
  BY <1>5, RecordKeeps DEF Return
<1>6. CASE Crash
  BY <1>6, RecordKeeps DEF Crash
<1>7. CASE Report
  <2>1. reports' \in Seq(ToSet(reports)')
    BY <1>7, AppendElements DEF QueueInv, Report
  <2>2. todo' \in Seq(Suites)
    BY <1>7, HeadTailProperties DEF QueueInv, Report
  <2> QED
    BY <1>7, <2>1, <2>2 DEF QueueInv, Report, Stages, ResultSet
<1> QED
  BY <1>1, <1>2, <1>3, <1>4, <1>5, <1>6, <1>7 DEF Next, vars, Respond, Execute, Finish

LEMMA QueueInit == Init => QueueInv
<1> SUFFICES ASSUME Init PROVE QueueInv
  OBVIOUS
<1>1. todo \in Seq(Suites)
  BY ArgumentAssumption DEF Init
<1>2. /\ left = <<>> /\ results = <<>> /\ reports = <<>> /\ stage = "suite"
      /\ catalog \in Catalogs
  BY DEF Init
<1> QED
  BY <1>1, <1>2 DEF QueueInv, Stages

LEMMA IdsOf ==
  ASSUME NEW S, NEW s \in Seq(S)
  PROVE  /\ Ids(s) \in Seq({c.case_id : c \in S}) /\ Len(Ids(s)) = Len(s)
         /\ \A i \in 1..Len(s) : Ids(s)[i] = s[i].case_id
<1>1. DOMAIN s = 1..Len(s) /\ Len(s) \in Nat /\ \A i \in 1..Len(s) : s[i] \in S
  OBVIOUS
<1>2. Ids(s) \in [1..Len(s) -> {c.case_id : c \in S}]
  BY <1>1 DEF Ids
<1> QED
  BY <1>1, <1>2 DEF Ids

\* A result with the id of the first case moves that id from one list to the other.
LEMMA IdsMove ==
  ASSUME NEW S, NEW rs \in Seq(S), NEW T, NEW cs \in Seq(T), cs # <<>>,
         NEW r \in S, r.case_id = Head(cs).case_id
  PROVE  Ids(Append(rs, r)) \o Ids(Tail(cs)) = Ids(rs) \o Ids(cs)
<1> DEFINE more == Append(rs, r)
           less == Tail(cs)
           I == {c.case_id : c \in S \cup T}
<1>1. /\ more \in Seq(S) /\ Len(more) = Len(rs) + 1
      /\ \A i \in 1..Len(rs) : more[i] = rs[i]
      /\ more[Len(rs) + 1] = r
  BY AppendProperties
<1>2. /\ less \in Seq(T) /\ Len(less) = Len(cs) - 1
      /\ \A i \in 1..(Len(cs) - 1) : less[i] = cs[i + 1]
      /\ cs[1] = Head(cs) /\ Len(cs) \in Nat \ {0}
  BY HeadTailProperties
<1> HIDE DEF more, less
<1>3. /\ Len(Ids(more)) = Len(rs) + 1 /\ Len(Ids(rs)) = Len(rs)
      /\ Len(Ids(less)) = Len(cs) - 1 /\ Len(Ids(cs)) = Len(cs)
      /\ \A i \in 1..Len(more) : Ids(more)[i] = more[i].case_id
      /\ \A i \in 1..Len(rs) : Ids(rs)[i] = rs[i].case_id
      /\ \A i \in 1..Len(less) : Ids(less)[i] = less[i].case_id
      /\ \A i \in 1..Len(cs) : Ids(cs)[i] = cs[i].case_id
  BY <1>1, <1>2, IdsOf
<1>4. Ids(more) \in Seq(I) /\ Ids(rs) \in Seq(I) /\ Ids(less) \in Seq(I) /\ Ids(cs) \in Seq(I)
  <2>1. rs \in Seq(S \cup T) /\ more \in Seq(S \cup T) /\ less \in Seq(S \cup T)
        /\ cs \in Seq(S \cup T)
    BY <1>1, <1>2, SeqMonotonic
  <2> QED
    BY <2>1, IdsOf
<1> DEFINE a == Ids(more) \o Ids(less)
           b == Ids(rs) \o Ids(cs)
<1>5. a \in Seq(I) /\ b \in Seq(I) /\ Len(a) = Len(b) /\ Len(a) = Len(rs) + Len(cs)
  <2>1. /\ a \in Seq(I) /\ Len(a) = Len(Ids(more)) + Len(Ids(less))
        /\ b \in Seq(I) /\ Len(b) = Len(Ids(rs)) + Len(Ids(cs))
    BY <1>4, ConcatProperties
  <2>2. Len(rs) \in Nat
    OBVIOUS
  <2> HIDE DEF a, b
  <2> QED
    BY <1>2, <1>3, <2>1, <2>2
<1>6. ASSUME NEW i \in 1..Len(a) PROVE a[i] = b[i]
  <2>1. a[i] = IF i <= Len(rs) + 1 THEN Ids(more)[i] ELSE Ids(less)[i - (Len(rs) + 1)]
    BY <1>2, <1>3, <1>4, <1>5, ConcatProperties
  <2>2. b[i] = IF i <= Len(rs) THEN Ids(rs)[i] ELSE Ids(cs)[i - Len(rs)]
    BY <1>2, <1>3, <1>4, <1>5, ConcatProperties
  <2>3. Len(rs) \in Nat /\ i \in Nat /\ 1 <= i /\ i <= Len(rs) + Len(cs)
    BY <1>2, <1>5
  <2> HIDE DEF a, b
  <2>4. CASE i <= Len(rs)
    BY <1>1, <1>3, <2>1, <2>2, <2>3, <2>4
  <2>5. CASE i = Len(rs) + 1
    <3>1. a[i] = r.case_id
      BY <1>1, <1>3, <2>1, <2>3, <2>5
    <3>2. b[i] = cs[1].case_id
      BY <1>2, <1>3, <2>2, <2>3, <2>5
    <3> QED
      BY <1>2, <3>1, <3>2
  <2>6. CASE i > Len(rs) + 1
    <3> DEFINE j == i - (Len(rs) + 1)
    <3>1. j \in 1..(Len(cs) - 1) /\ i - Len(rs) = j + 1 /\ j + 1 \in 1..Len(cs)
      BY <1>2, <2>3, <2>6
    <3>2. a[i] = Ids(less)[j] /\ b[i] = Ids(cs)[j + 1]
      BY <2>1, <2>2, <2>3, <2>6, <3>1
    <3> HIDE DEF j
    <3> QED
      BY <1>2, <1>3, <3>1, <3>2
  <2> QED
    BY <2>3, <2>4, <2>5, <2>6
<1> HIDE DEF a, b
<1>7. a = b
  BY <1>5, <1>6, SeqEqual
<1> QED
  BY <1>7 DEF a, b, more, less

\* A report tells of no more results than there are.
LEMMA ReportIs ==
  ASSUME NEW S, NEW rs \in Seq(S), NEW s
  PROVE  LET r == ReportOf(s, rs)
         IN /\ r.suite = s /\ r.total = Len(rs)
            /\ r.passed + Cardinality(r.crashed) <= r.total
<1> DEFINE P == {i \in DOMAIN rs : rs[i].passed}
           C == {i \in DOMAIN rs : ~rs[i].passed /\ rs[i].error # "none"}
           r == ReportOf(s, rs)
<1>1. r.suite = s /\ r.total = Len(rs) /\ r.passed = Cardinality(P) /\ r.crashed = C
  BY DEF ReportOf
<1>2. IsFiniteSet(DOMAIN rs) /\ Cardinality(DOMAIN rs) = Len(rs)
  <2>1. Len(rs) \in Nat /\ DOMAIN rs = 1..Len(rs)
    OBVIOUS
  <2>2. \A n \in Nat : IsFiniteSet(1..n) /\ Cardinality(1..n) = n
    BY FS_Interval
  <2> QED
    BY <2>1, <2>2
<1>3. P \subseteq DOMAIN rs /\ C \subseteq DOMAIN rs /\ P \cap C = {}
  OBVIOUS
<1> HIDE DEF P, C
<1>4. IsFiniteSet(P) /\ IsFiniteSet(C) /\ Cardinality(P) \in Nat /\ Cardinality(C) \in Nat
  BY <1>2, <1>3, PartOf
<1>5. Cardinality(P \cap C) = 0
  BY <1>3, FS_EmptySet
<1>6. Cardinality(P \cup C) = Cardinality(P) + Cardinality(C)
  <2>1. Cardinality(P \cup C) = Cardinality(P) + Cardinality(C) - Cardinality(P \cap C)
    BY <1>4, FS_Union
  <2> QED
    BY <1>4, <1>5, <2>1
<1>7. Cardinality(P \cup C) <= Len(rs)
  BY <1>2, <1>3, PartOf
<1> QED
  BY <1>1, <1>6, <1>7

LEMMA EvaluateId ==
  ASSUME NEW c, NEW run, NEW called, NEW error
  PROVE  Evaluate(c, run, called, error).case_id = c.case_id
BY DEF Evaluate

\* Recording a result of the first case leaves the order as it is.
LEMMA RecordOrder ==
  ASSUME QueueInv, CasesInOrder, stage = "run", NEW result, Record(result),
         result.case_id = Current.case_id
  PROVE  CasesInOrder'
<1>1. results \in Seq(ToSet(results) \cup {result})
  <2>1. results \in Seq(ToSet(results))
    BY DEF QueueInv, ResultSet, ToSet
  <2> QED
    BY <2>1, SeqMonotonic
<1>2. left \in Seq(ToSet(AllCases(catalog))) /\ left # <<>> /\ result.case_id = Head(left).case_id
  BY DEF QueueInv, Current
<1>3. results' = Append(results, result) /\ left' = Tail(left)
      /\ UNCHANGED <<catalog, todo, filter, reports>>
  BY DEF Record
<1>4. Ids(results') \o Ids(left') = Ids(results) \o Ids(left)
  <2> DEFINE S == ToSet(results) \cup {result}
             T == ToSet(AllCases(catalog))
  <2>1. results \in Seq(S) /\ result \in S /\ left \in Seq(T)
    BY <1>1, <1>2
  <2> HIDE DEF S, T
  <2>2. Ids(Append(results, result)) \o Ids(Tail(left)) = Ids(results) \o Ids(left)
    BY <1>2, <2>1, IdsMove
  <2> QED
    BY <1>3, <2>2
<1>5. Ids(results) \o Ids(left) = Ids(Chosen(catalog[Suite], filter)) /\ Suite' = Suite
  BY <1>3 DEF CasesInOrder, Suite
<1> QED
  BY <1>3, <1>4, <1>5 DEF CasesInOrder

LEMMA OrderNext == QueueInv /\ CasesInOrder /\ [Next]_vars => CasesInOrder'
<1> SUFFICES ASSUME QueueInv, CasesInOrder, [Next]_vars PROVE CasesInOrder'
  OBVIOUS
<1>0. CASE UNCHANGED suiteVars /\ (stage' \in {"case", "run", "report"} => stage \in {"case", "run", "report"})
  BY <1>0 DEF CasesInOrder, suiteVars, Suite
<1>1. CASE StartSuite
  <2> DEFINE chosen == Chosen(catalog[Suite], filter)
  <2>1. Suite \in Suites
    BY <1>1 DEF QueueInv, StartSuite, Suite
  <2>2. chosen \in Seq(ToSet(AllCases(catalog)))
    BY <2>1, CatalogCases DEF QueueInv
  <2>3. CASE chosen = <<>>
    BY <1>1, <2>3 DEF CasesInOrder, StartSuite
  <2>4. CASE chosen # <<>>
    <3>1. left' = chosen /\ results' = <<>> /\ Suite' = Suite
          /\ UNCHANGED <<todo, filter, catalog, reports>>
      BY <1>1, <2>4 DEF StartSuite, Suite
    <3>2. Ids(<<>>) = <<>> /\ Ids(chosen) \in Seq({c.case_id : c \in ToSet(AllCases(catalog))})
      BY <2>2, IdsOf DEF Ids
    <3>3. Ids(<<>>) \o Ids(chosen) = Ids(chosen)
      BY <3>2, ConcatEmptySeq
    <3> QED
      BY <3>1, <3>3 DEF CasesInOrder
  <2> QED
    BY <2>3, <2>4
<1>2. CASE Return
  <2>1. PICK run, called : Record(Evaluate(Current, run, called, "none"))
    BY <1>2 DEF Return
  <2> QED
    BY <1>2, <2>1, EvaluateId, RecordOrder DEF Return
<1>3. CASE Crash
  <2>1. PICK text \in {"", "error"} : Record(Evaluate(Current, Dummy, <<>>, text))
    BY <1>3 DEF Crash
  <2> QED
    BY <1>3, <2>1, EvaluateId, RecordOrder DEF Crash
<1>4. CASE Report
  <2> DEFINE r == ReportOf(Suite, results)
  <2>1. /\ reports' = Append(reports, r) /\ stage = "report" /\ stage' = "suite"
        /\ UNCHANGED <<catalog, filter>>
    BY <1>4 DEF Report
  <2>2. results \in Seq(ResultSet) /\ left = <<>>
    BY <2>1 DEF QueueInv
  <2>3. r.suite = Suite /\ r.total = Len(results) /\ r.passed + Cardinality(r.crashed) <= r.total
    BY <2>2, ReportIs
  <2>4. Len(results) = Len(Chosen(catalog[Suite], filter))
    <3>1. Suite \in Suites
      BY <2>1 DEF QueueInv, Suite
    <3>2. Chosen(catalog[Suite], filter) \in Seq(ToSet(AllCases(catalog)))
      BY <3>1, CatalogCases DEF QueueInv
    <3>3. Ids(left) = <<>>
      BY <2>2 DEF Ids
    <3>4. Ids(results) \o Ids(left) = Ids(Chosen(catalog[Suite], filter))
      BY <2>1 DEF CasesInOrder
    <3>5. Ids(results) \in Seq({c.case_id : c \in ResultSet})
          /\ Len(Ids(results)) = Len(results)
      BY <2>2, IdsOf
    <3>6. Ids(results) \o <<>> = Ids(results)
      BY <3>5, ConcatEmptySeq
    <3> QED
      BY <3>2, <3>3, <3>4, <3>5, <3>6, IdsOf
  <2>5. reports \in Seq(ToSet(reports))
    BY DEF QueueInv
  <2>6. /\ DOMAIN reports' = 1..(Len(reports) + 1)
        /\ \A i \in 1..Len(reports) : reports'[i] = reports[i]
        /\ reports'[Len(reports) + 1] = r
    BY <2>1, <2>5, AppendElements
  <2>7. DOMAIN reports = 1..Len(reports) /\ Len(reports) \in Nat
    BY <2>5
  <2> HIDE DEF r
  <2>8. ASSUME NEW i \in DOMAIN reports'
        PROVE  /\ reports'[i].total = Len(Chosen(catalog[reports'[i].suite], filter))
               /\ reports'[i].passed + Cardinality(reports'[i].crashed) <= reports'[i].total
    <3>1. CASE i \in 1..Len(reports)
      BY <2>6, <2>7, <3>1 DEF CasesInOrder
    <3>2. CASE i = Len(reports) + 1
      BY <2>3, <2>4, <2>6, <3>2
    <3> QED
      BY <2>6, <2>7, <3>1, <3>2
  <2> QED
    BY <2>1, <2>8 DEF CasesInOrder
<1> QED
  BY <1>0, <1>1, <1>2, <1>3, <1>4
     DEF Next, vars, Exit, StartCase, Respond, Execute, Finish, QueueInv

\* Results and cases ahead are the chosen cases in order whatever the runs do, and
\* a report is over all of them (run_suite).
THEOREM CasesKeepOrder == Spec => []CasesInOrder
<1>1. Init => CasesInOrder
  BY DEF Init, CasesInOrder
<1> QED
  BY <1>1, QueueInit, QueueNext, OrderNext, PTL DEF Spec

------------------------------------------------------------------------------
(* The run of a case.                                                         *)

Named == DOMAIN SUPPORT_TOOLS \cup DOMAIN ENGINEERING_TOOLS

LEMMA NamedIs ==
  /\ Named = UNION {ToolNames(suite) : suite \in Suites}
  /\ \A c \in Calls : Execute(c) => c.tool \in Named
<1>1. /\ ToolNames("support") = DOMAIN SUPPORT_TOOLS
      /\ ToolNames("engineering") = DOMAIN ENGINEERING_TOOLS
  BY DEF ToolNames
<1>2. Named = UNION {ToolNames(suite) : suite \in Suites}
  BY <1>1, Zenon DEF Suites, Named
<1>3. \A suite : ToolNames(suite) \subseteq Named
  BY DEF ToolNames, Named
<1> QED
  BY <1>2, <1>3 DEF Execute

\* The run of the current case, or what is left of the last one.
RunInv ==
  /\ phase \in {"running", "settled", "closed"} /\ asked \in 0..MaxSteps
  /\ runs \in [Calls -> 0..1] /\ verdict \in Verdict /\ cost \in Nat
  /\ spans \in Seq(Seq(Named)) /\ Len(spans) = asked
  /\ verdict = "escalated" => HandedOver

LEMMA CurrentIs ==
  ASSUME QueueInv, stage \in {"case", "run"}
  PROVE  /\ Current \in ToSet(AllCases(catalog)) /\ IsCase(Current)
         /\ PricesOf(Current) \subseteq Nat /\ LatenciesOf(Current) \subseteq Nat
<1>1. left \in Seq(ToSet(AllCases(catalog))) /\ left # <<>> /\ catalog \in Catalogs
  BY DEF QueueInv
<1>2. Current \in ToSet(AllCases(catalog))
  BY <1>1, HeadTailProperties DEF Current
<1>3. "support" \in Suites
  BY DEF Suites
<1>4. Current \in EvalCase
  BY <1>1, <1>2, <1>3, CatalogCases
<1> QED
  BY <1>1, <1>2, <1>4, CatalogAssumption DEF IsCase

LEMMA RunInit == Init => RunInv
<1> SUFFICES ASSUME Init PROVE RunInv
  OBVIOUS
<1>1. phase = "running" /\ asked = 0 /\ runs = [c \in Calls |-> 0] /\ verdict = "none"
      /\ spans = <<>> /\ cost = 0
  BY DEF Init, CInit
<1> QED
  BY <1>1, EvalAssumption DEF RunInv, Verdict

LEMMA RunNext == QueueInv /\ RunInv /\ [Next]_vars => RunInv'
<1> SUFFICES ASSUME QueueInv, RunInv, [Next]_vars PROVE RunInv'
  OBVIOUS
<1> USE EvalAssumption
<1>1. CASE StartCase
  <2>1. phase' = "running" /\ asked' = 0 /\ runs' = [c \in Calls |-> 0] /\ verdict' = "none"
        /\ spans' = <<>> /\ cost' = 0
    BY <1>1 DEF StartCase
  <2> QED
    BY <2>1 DEF RunInv, Verdict
<1>2. CASE Respond
  <2>1. PICK p \in PricesOf(Current) : cost' = cost + p
    BY <1>2 DEF Respond
  <2>2. cost' \in Nat
    BY <1>2, <2>1, CurrentIs DEF RunInv, Respond
  <2>3. /\ asked' = asked + 1 /\ (asked = 0 \/ asked < MaxSteps)
        /\ spans' = Append(spans, <<>>) /\ UNCHANGED <<phase, runs, verdict>>
    BY <1>2 DEF Respond, Ask
  <2>4. spans' \in Seq(Seq(Named)) /\ Len(spans') = asked'
    BY <2>3, AppendProperties DEF RunInv
  <2>5. asked' \in 0..MaxSteps
    BY <2>3 DEF RunInv
  <2> QED
    BY <2>2, <2>3, <2>4, <2>5 DEF RunInv, HandedOver
<1>3. ASSUME NEW c \in Calls, Execute(c) PROVE RunInv'
  <2>1. /\ asked > 0 /\ runs' = [runs EXCEPT ![c] = 1] /\ asked' = asked /\ cost' = cost
        /\ \/ UNCHANGED <<phase, verdict>>
           \/ phase' = "settled" /\ verdict' \in FailureVerdict
        /\ spans' = [spans EXCEPT ![asked] = Append(@, c.tool)]
    BY <1>3 DEF Execute, Perform
  <2>2. spans' \in Seq(Seq(Named)) /\ Len(spans') = asked
    <3>1. spans \in Seq(Seq(Named)) /\ spans # <<>> /\ asked = Len(spans) /\ c.tool \in Named
      BY <1>3, <2>1, NamedIs DEF RunInv
    <3>2. spans' \in Seq(Seq(Named))
      BY <2>1, <3>1, FlattenLast
    <3>3. Len(spans') = Len(spans)
      BY <2>1, <3>1
    <3> QED
      BY <3>1, <3>2, <3>3
  <2>3. runs' \in [Calls -> 0..1] /\ (HandedOver => HandedOver')
    BY <2>1 DEF RunInv, HandedOver
  <2>4. verdict' \in Verdict /\ (verdict' = "escalated" => verdict = "escalated")
    BY <2>1 DEF RunInv, Verdict, FailureVerdict
  <2> QED
    BY <2>1, <2>2, <2>3, <2>4 DEF RunInv
<1>4. CASE Finish
  <2>1. PICK v \in Verdict \ {"none"} : Settle(v)
    BY <1>4 DEF Finish
  <2>2. verdict' \in Verdict /\ phase' = "settled" /\ (verdict' = "escalated" => HandedOver)
        /\ UNCHANGED <<asked, runs>>
    BY <2>1 DEF Settle
  <2> QED
    BY <1>4, <2>2 DEF RunInv, Finish, HandedOver
<1>5. CASE Return
  <2>1. UNCHANGED <<asked, runs, verdict, spans, cost>> /\ phase' = "closed"
    BY <1>5 DEF Return, Close
  <2> QED
    BY <2>1 DEF RunInv, HandedOver
<1>6. CASE UNCHANGED runVars
  BY <1>6 DEF RunInv, runVars, cvars, HandedOver
<1> QED
  BY <1>1, <1>2, <1>3, <1>4, <1>5, <1>6
     DEF Next, vars, StartSuite, Exit, Crash, Report

Places(list, t) == {i \in DOMAIN list : list[i] = t}
Done(t) == {c \in Calls : c.tool = t /\ runs[c] > 0}

\* The trace names a tool as often as calls of it were executed.
CallsInv ==
  \A t \in Named :
    /\ IsFiniteSet(Done(t))
    /\ Cardinality(Places(ToolsCalled(spans), t)) = Cardinality(Done(t))

LEMMA NoPlaces ==
  ASSUME NEW t
  PROVE  Cardinality(Places(<<>>, t)) = 0 /\ IsFiniteSet({}) /\ Cardinality({}) = 0
BY FS_EmptySet DEF Places

LEMMA PlacesAppend ==
  ASSUME NEW S, NEW s \in Seq(S), NEW x \in S, NEW t
  PROVE  /\ x = t => Cardinality(Places(Append(s, x), t)) = Cardinality(Places(s, t)) + 1
         /\ x # t => Places(Append(s, x), t) = Places(s, t)
<1> DEFINE more == Append(s, x)
           n == Len(s)
<1>1. /\ DOMAIN s = 1..n /\ n \in Nat /\ DOMAIN more = 1..(n + 1)
      /\ \A i \in 1..n : more[i] = s[i]
      /\ more[n + 1] = x
  BY AppendProperties
<1> HIDE DEF more, n
<1>2. x = t => Places(more, t) = Places(s, t) \cup {n + 1}
  BY <1>1 DEF Places
<1>3. x # t => Places(more, t) = Places(s, t)
  BY <1>1 DEF Places
<1>4. n + 1 \notin Places(s, t) /\ IsFiniteSet(Places(s, t))
  <2>1. IsFiniteSet(1..n)
    BY <1>1, FS_Interval
  <2>2. Places(s, t) \subseteq 1..n
    BY <1>1 DEF Places
  <2>3. n + 1 \notin 1..n
    BY <1>1
  <2> QED
    BY <2>1, <2>2, <2>3, PartOf
<1>5. Cardinality(Places(s, t) \cup {n + 1}) = Cardinality(Places(s, t)) + 1
  BY <1>4, FS_AddElement
<1> QED
  BY <1>2, <1>3, <1>5 DEF more

LEMMA CallsReset ==
  ASSUME spans' = <<>>, runs' = [c \in Calls |-> 0]
  PROVE  CallsInv'
<1>1. ToolsCalled(<<>>) = <<>>
  BY DEF ToolsCalled, FlattenSeq
<1>2. ASSUME NEW t PROVE Done(t)' = {}
  BY DEF Done
<1> QED
  BY <1>1, <1>2, NoPlaces DEF CallsInv

LEMMA CallsInit == Init => CallsInv
<1> SUFFICES ASSUME Init PROVE CallsInv
  OBVIOUS
<1>1. spans = <<>> /\ runs = [c \in Calls |-> 0]
  BY DEF Init, CInit
<1>2. ToolsCalled(<<>>) = <<>>
  BY DEF ToolsCalled, FlattenSeq
<1>3. ASSUME NEW t PROVE Done(t) = {}
  BY <1>1 DEF Done
<1> QED
  BY <1>1, <1>2, <1>3, NoPlaces DEF CallsInv

LEMMA CallsNext == RunInv /\ CallsInv /\ [Next]_vars => CallsInv'
<1> SUFFICES ASSUME RunInv, CallsInv, [Next]_vars PROVE CallsInv'
  OBVIOUS
<1>1. CASE StartCase
  BY <1>1, CallsReset DEF StartCase
<1>2. CASE Respond
  <2>1. spans' = Append(spans, <<>>) /\ runs' = runs
    BY <1>2 DEF Respond, Ask
  <2>2. spans \in Seq(Seq(Named)) /\ <<>> \in Seq(Named)
    BY DEF RunInv
  <2>3. FlattenSeq(spans) \in Seq(Named)
    BY <2>2, FlattenType
  <2>4. FlattenSeq(spans') = FlattenSeq(spans) \o <<>>
    BY <2>1, <2>2, FlattenAppend
  <2>5. FlattenSeq(spans') = FlattenSeq(spans)
    BY <2>3, <2>4, ConcatEmptySeq
  <2> QED
    BY <2>1, <2>5 DEF CallsInv, ToolsCalled, Done
<1>3. ASSUME NEW c \in Calls, Execute(c) PROVE CallsInv'
  <2>1. /\ asked > 0 /\ runs[c] = 0 /\ runs' = [runs EXCEPT ![c] = 1]
        /\ spans' = [spans EXCEPT ![asked] = Append(@, c.tool)]
    BY <1>3 DEF Execute, Perform
  <2>2. /\ spans \in Seq(Seq(Named)) /\ spans # <<>> /\ asked = Len(spans)
        /\ c.tool \in Named /\ runs \in [Calls -> 0..1]
    BY <1>3, <2>1, NamedIs DEF RunInv
  <2> DEFINE before == FlattenSeq(spans)
             after == FlattenSeq(spans')
  <2>3. before \in Seq(Named)
    BY <2>2, FlattenType
  <2>4. after = Append(before, c.tool)
    <3>1. spans' = [spans EXCEPT ![Len(spans)] = Append(@, c.tool)]
      BY <2>1, <2>2
    <3>2. FlattenSeq([spans EXCEPT ![Len(spans)] = Append(@, c.tool)])
            = Append(FlattenSeq(spans), c.tool)
      BY <2>2, FlattenLast
    <3> QED
      BY <3>1, <3>2
  <2> HIDE DEF before, after
  <2>5. ASSUME NEW t \in Named, t # c.tool
        PROVE  Done(t)' = Done(t) /\ Places(after, t) = Places(before, t)
    <3>1. Done(t)' = Done(t)
      BY <2>1, <2>2, <2>5 DEF Done
    <3>2. Places(after, t) = Places(before, t)
      BY <2>2, <2>3, <2>4, <2>5, PlacesAppend
    <3> QED
      BY <3>1, <3>2
  <2>6. ASSUME NEW t \in Named, t = c.tool
        PROVE  /\ IsFiniteSet(Done(t)')
               /\ Cardinality(Done(t)') = Cardinality(Done(t)) + 1
               /\ Cardinality(Places(after, t)) = Cardinality(Places(before, t)) + 1
    <3>1. Done(t)' = Done(t) \cup {c} /\ c \notin Done(t)
      BY <2>1, <2>2, <2>6 DEF Done
    <3>2. IsFiniteSet(Done(t))
      BY DEF CallsInv
    <3>3. IsFiniteSet(Done(t) \cup {c}) /\ Cardinality(Done(t) \cup {c}) = Cardinality(Done(t)) + 1
      BY <3>1, <3>2, FS_AddElement
    <3>4. Cardinality(Places(after, t)) = Cardinality(Places(before, t)) + 1
      BY <2>2, <2>3, <2>4, <2>6, PlacesAppend
    <3> QED
      BY <3>1, <3>3, <3>4
  <2>7. ASSUME NEW t \in Named
        PROVE  /\ IsFiniteSet(Done(t)')
               /\ Cardinality(Places(after, t)) = Cardinality(Done(t)')
    <3>1. IsFiniteSet(Done(t)) /\ Cardinality(Places(before, t)) = Cardinality(Done(t))
      BY DEF CallsInv, ToolsCalled, before
    <3>2. CASE t = c.tool
      BY <2>6, <3>1, <3>2
    <3>3. CASE t # c.tool
      BY <2>5, <3>1, <3>3
    <3> QED
      BY <3>2, <3>3
  <2> QED
    BY <2>7 DEF CallsInv, ToolsCalled, after
<1>4. CASE UNCHANGED <<spans, runs>>
  BY <1>4 DEF CallsInv, ToolsCalled, Done
<1> QED
  BY <1>1, <1>2, <1>3, <1>4
     DEF Next, vars, runVars, cvars, StartSuite, Exit, Finish, Settle, Return, Close, Crash, Report

\* The last result of a run that returned names the tools of its trace.
LastInv ==
  stage \in {"case", "report"} /\ results # <<>> /\ phase = "closed" =>
    results[Len(results)].tools = ToolsCalled(spans)

LEMMA LastNext == QueueInv /\ LastInv /\ [Next]_vars => LastInv'
<1> SUFFICES ASSUME QueueInv, LastInv, [Next]_vars PROVE LastInv'
  OBVIOUS
<1>1. CASE StartSuite
  <2>1. \/ stage' = stage /\ stage = "suite"
        \/ results' = <<>>
    BY <1>1 DEF StartSuite
  <2> QED
    BY <2>1 DEF LastInv
<1>2. CASE Return
  <2>1. PICK answered \in BOOLEAN, words \in SUBSET (Current.must \cup Current.must_not),
             latency \in LatenciesOf(Current) :
          Record(Evaluate(Current,
            [status |-> verdict, answered |-> answered, words |-> words,
             cost |-> cost, latency |-> latency], ToolsCalled(spans), "none"))
    BY <1>2 DEF Return
  <2> DEFINE result == Evaluate(Current,
            [status |-> verdict, answered |-> answered, words |-> words,
             cost |-> cost, latency |-> latency], ToolsCalled(spans), "none")
  <2>2. result.tools = ToolsCalled(spans)
    BY DEF Evaluate
  <2>3. results' = Append(results, result) /\ spans' = spans
    BY <1>2, <2>1 DEF Record, Return
  <2>4. results \in Seq(ToSet(results))
    BY DEF QueueInv, ResultSet, ToSet
  <2> HIDE DEF result
  <2>5. Len(results') = Len(results) + 1 /\ results'[Len(results) + 1] = result
    BY <2>3, <2>4, AppendElements
  <2> QED
    BY <2>2, <2>3, <2>5 DEF LastInv
<1>3. CASE Crash
  BY <1>3 DEF Crash, runVars, cvars, LastInv
<1>4. CASE stage' \notin {"case", "report"}
  BY <1>4 DEF LastInv
<1>5. CASE UNCHANGED vars
  BY <1>5 DEF vars, runVars, cvars, suiteVars, LastInv
<1> QED
  BY <1>1, <1>2, <1>3, <1>4, <1>5 DEF Next, Exit, StartCase, Respond, Execute, Finish, Report

\* The tools a result names, read off the trace, are the calls the executor ran in
\* that case, each as often as it ran (_extract_tools_called).
THEOREM ToolsAreTheExecuted == Spec => []ToolsAsExecuted
<1>1. Init => LastInv
  BY DEF Init, LastInv
<1>2. CallsInv /\ LastInv => ToolsAsExecuted
  BY DEF CallsInv, LastInv, ToolsAsExecuted, Named, Places, Done
<1> QED
  BY <1>1, <1>2, QueueInit, RunInit, CallsInit, QueueNext, RunNext, CallsNext, LastNext,
     PTL DEF Spec

------------------------------------------------------------------------------
(* What the results say.                                                      *)

\* A run that was handed over shows it in its trace.
LEMMA EscalationIsTraced ==
  ASSUME RunInv, CallsInv, verdict = "escalated"
  PROVE  "escalate_to_human" \in ToSet(ToolsCalled(spans))
<1> DEFINE t == "escalate_to_human"
           list == ToolsCalled(spans)
<1>1. t \in Named
  BY DEF Named, SUPPORT_TOOLS
<1>2. PICK c \in Calls : c.tool = t /\ runs[c] > 0
  BY EvalAssumption DEF RunInv, HandedOver
<1>3. IsFiniteSet(Done(t)) /\ Done(t) # {} /\ Cardinality(Places(list, t)) = Cardinality(Done(t))
  BY <1>1, <1>2 DEF CallsInv, Done
<1>4. Cardinality(Done(t)) # 0
  BY <1>3, FS_EmptySet
<1>5. Places(list, t) # {}
  BY <1>3, <1>4, FS_EmptySet
<1> QED
  BY <1>5 DEF Places, ToSet

\* An id is one case's.
LEMMA CaseIsKnown ==
  ASSUME NEW r, QueueInv, NEW c \in ToSet(AllCases(catalog)), r.case_id = c.case_id
  PROVE  CaseOf(r) = c
<1> DEFINE cases == AllCases(catalog)
<1>1. IsInjective(Ids(cases))
  BY CatalogAssumption DEF QueueInv
<1>2. PICK j \in DOMAIN cases : cases[j] = c
  BY DEF ToSet
<1> HIDE DEF cases
<1>3. \A i \in DOMAIN cases : cases[i].case_id = r.case_id => i = j
  BY <1>1, <1>2 DEF Ids, IsInjective
<1>4. (CHOOSE i \in DOMAIN cases : cases[i].case_id = r.case_id) = j
  BY <1>2, <1>3
<1> QED
  BY <1>2, <1>4 DEF CaseOf, cases

\* The properties of results, of one result.
Sound(r) ==
  /\ r.overall \in Score /\ r.tools \in Seq(Named)
  /\ \A n \in DOMAIN r.scores : n \in Scorers /\ r.scores[n] \in Score
  /\ r.passed => /\ r.error = "none" /\ r.status = CaseOf(r).expected_status
                 /\ r.status = "escalated" => "escalate_to_human" \in ToSet(r.tools)
  /\ ~r.passed => \/ r.error # "none"
                  \/ \E n \in Scorers : r.scores[n] < ScorerThreshold
  /\ r.error = "none" => /\ r.passed <=> Enough(r.scores)
                         /\ r.passed <=> FourScores(r.scores)

ResultsSound == \A r \in ResultSet : Sound(r)

LEMMA NoTools == <<>> \in Seq(Named)
OBVIOUS

LEMMA NewResultSound ==
  ASSUME QueueInv, stage = "run", NEW run, IsRun(run), NEW called \in Seq(Named), NEW error,
         run.status = "escalated" => "escalate_to_human" \in ToSet(called)
  PROVE  Sound(Evaluate(Current, run, called, error))
<1> DEFINE r == Evaluate(Current, run, called, error)
<1>1. Current \in ToSet(AllCases(catalog)) /\ IsCase(Current)
  BY CurrentIs
<1>2. Judged(r, Current, run, called, error)
  BY <1>1, EvaluateIs
<1> HIDE DEF r
<1>3. CaseOf(r) = Current
  BY <1>1, <1>2, CaseIsKnown DEF Judged
<1>4. r.passed => /\ r.error = "none" /\ r.status = CaseOf(r).expected_status
                  /\ r.status = "escalated" => "escalate_to_human" \in ToSet(r.tools)
  BY <1>2, <1>3 DEF Judged
<1>5. r.tools \in Seq(Named)
  <2>1. r.tools = called \/ r.tools = <<>>
    BY <1>2, Zenon DEF Judged
  <2> QED
    BY <2>1, NoTools, Zenon
<1>6. Sound(r)
  BY <1>2, <1>4, <1>5, Zenon DEF Judged, Sound
<1> QED
  BY <1>6 DEF r

LEMMA RecordSound ==
  ASSUME QueueInv, ResultsSound, NEW result, Sound(result), Record(result)
  PROVE  ResultsSound'
<1>1. results' = Append(results, result) /\ catalog' = catalog
  BY DEF Record
<1>2. results \in Seq(ToSet(results))
  BY DEF QueueInv, ResultSet, ToSet
<1>3. ToSet(results') = ToSet(results) \cup {result}
  BY <1>1, <1>2, AppendElements
<1>4. \A r : Sound(r) => Sound(r)'
  BY <1>1 DEF Sound, CaseOf
<1> QED
  BY <1>3, <1>4 DEF ResultsSound, ResultSet, ToSet

LEMMA ResultsNext ==
  QueueInv /\ RunInv /\ CallsInv /\ ResultsSound /\ [Next]_vars => ResultsSound'
<1> SUFFICES ASSUME QueueInv, RunInv, CallsInv, ResultsSound, [Next]_vars PROVE ResultsSound'
  OBVIOUS
<1>1. CASE StartSuite
  <2>1. catalog' = catalog /\ (results' = results \/ results' = <<>>)
    BY <1>1 DEF StartSuite
  <2>2. \A r : Sound(r) => Sound(r)'
    BY <2>1, Zenon DEF Sound, CaseOf
  <2>3. CASE results' = results
    BY <2>2, <2>3, Zenon DEF ResultsSound, ResultSet
  <2>4. CASE results' = <<>>
    BY <2>4 DEF ResultsSound, ResultSet
  <2> QED
    BY <2>1, <2>3, <2>4
<1>2. CASE Return
  <2>1. PICK answered \in BOOLEAN, words \in SUBSET (Current.must \cup Current.must_not),
             latency \in LatenciesOf(Current) :
          /\ answered => verdict = "completed"
          /\ Record(Evaluate(Current,
               [status |-> verdict, answered |-> answered, words |-> words,
                cost |-> cost, latency |-> latency], ToolsCalled(spans), "none"))
    BY <1>2 DEF Return
  <2> DEFINE run == [status |-> verdict, answered |-> answered, words |-> words,
                     cost |-> cost, latency |-> latency]
  <2>2. latency \in Nat
    BY <1>2, CurrentIs DEF Return
  <2>3. IsRun(run)
    BY <2>1, <2>2 DEF IsRun, RunInv
  <2>4. run.status = "escalated" => "escalate_to_human" \in ToSet(ToolsCalled(spans))
    BY EscalationIsTraced
  <2>7. ToolsCalled(spans) \in Seq(Named)
    BY FlattenType DEF RunInv, ToolsCalled
  <2> HIDE DEF run
  <2>5. Sound(Evaluate(Current, run, ToolsCalled(spans), "none"))
    BY <1>2, <2>3, <2>4, <2>7, NewResultSound DEF Return
  <2>6. Record(Evaluate(Current, run, ToolsCalled(spans), "none"))
    BY <2>1 DEF run
  <2> QED
    BY <2>5, <2>6, RecordSound
<1>3. CASE Crash
  <2>1. PICK text \in {"", "error"} : Record(Evaluate(Current, Dummy, <<>>, text))
    BY <1>3 DEF Crash
  <2>2. IsRun(Dummy) /\ Dummy.status # "escalated"
    BY DEF IsRun, Dummy
  <2>3. Sound(Evaluate(Current, Dummy, <<>>, text))
    BY <1>3, <2>2, NoTools, NewResultSound DEF Crash
  <2> QED
    BY <2>1, <2>3, RecordSound
<1>4. CASE UNCHANGED <<catalog, results>>
  BY <1>4 DEF ResultsSound, ResultSet, Sound, CaseOf
<1> QED
  BY <1>1, <1>2, <1>3, <1>4
     DEF Next, vars, suiteVars, Exit, StartCase, Respond, Execute, Finish, Report

LEMMA ResultsInit == Init => ResultsSound
BY DEF Init, ResultsSound, ResultSet

LEMMA ResultsHold == Spec => []ResultsSound
BY QueueInit, RunInit, CallsInit, ResultsInit, QueueNext, RunNext, CallsNext, ResultsNext,
   PTL DEF Spec

KnownOrders == processed \subseteq DOMAIN TotalAmount

LEMMA OrdersNext == KnownOrders /\ [Next]_vars => KnownOrders'
<1> SUFFICES ASSUME KnownOrders, [Next]_vars PROVE KnownOrders'
  OBVIOUS
<1>1. ASSUME NEW c \in Calls, Execute(c) PROVE KnownOrders'
  BY <1>1 DEF Execute, RefundApproved, KnownOrders, toolVars
<1>2. CASE UNCHANGED toolVars
  BY <1>2 DEF toolVars, KnownOrders
<1> QED
  BY <1>1, <1>2 DEF Next, vars, StartSuite, Exit, StartCase, Respond, Finish, Return, Crash,
     Record, Report

\* Every variable keeps its type; in particular every score stays between 0 and 1,
\* whatever penalties add up (Scorer._detail), and the tools a result lists are
\* tools of the suites (_extract_tools_called).
THEOREM EvalTypeCorrect == Spec => []TypeOK
<1>1. Init => KnownOrders
  BY DEF Init, KnownOrders
<1>2. QueueInv /\ RunInv /\ ResultsSound /\ KnownOrders => TypeOK
  BY NamedIs DEF QueueInv, RunInv, ResultsSound, Sound, KnownOrders, TypeOK
<1> QED
  BY <1>1, <1>2, ResultsHold, QueueInit, RunInit, QueueNext, RunNext, OrdersNext, PTL DEF Spec

\* A case passes only with the status it expects, and an expected escalation only
\* if the tool ran; a failure shows its reason (EvalSuite.evaluate, print_report).
THEOREM PassIsRight == Spec => []PassMeansRight
<1>1. ResultsSound => PassMeansRight
  BY Zenon DEF ResultsSound, Sound, PassMeansRight
<1> QED
  BY <1>1, ResultsHold, PTL

\* The hard-fail rule never decides a verdict, and with the right status four of
\* the scores do (EvalSuite.evaluate and the weights).
THEOREM ScoresDecide == Spec => []FourScoresDecide
<1>1. ResultsSound => FourScoresDecide
  BY Zenon DEF ResultsSound, Sound, FourScoresDecide
<1> QED
  BY <1>1, ResultsHold, PTL

------------------------------------------------------------------------------
(* The benchmark.                                                             *)

\* A case that asks for nothing it forbids, and only for tools its agent has.
WellPosed(c, tools) ==
  /\ IsFiniteSet(c.expected_tools) /\ IsFiniteSet(c.unexpected_tools)
  /\ IsFiniteSet(c.must) /\ IsFiniteSet(c.must_not)
  /\ c.max_cost \in Nat /\ c.max_latency \in Nat
  /\ c.expected_tools \cup c.unexpected_tools \subseteq tools
  /\ c.expected_tools \cap c.unexpected_tools = {}
  /\ c.must \cap c.must_not = {}

\* The run a case asks for.
Ideal(c) ==
  [status |-> c.expected_status, answered |-> c.expected_status = "completed",
   words |-> c.must, cost |-> c.max_cost, latency |-> c.max_latency]

Best(c) == Evaluate(c, Ideal(c), SetToSeq(c.expected_tools), "none")

\* SetToSeq lists all of a set.
LEMMA SetToSeqAll ==
  ASSUME NEW S, IsFiniteSet(S)
  PROVE  {SetToSeq(S)[i] : i \in DOMAIN SetToSeq(S)} = S
<1> DEFINE n == Cardinality(S)
           f == SetToSeq(S)
<1>1. n \in Nat /\ IsFiniteSet(1..n) /\ Cardinality(1..n) = n
  BY FS_CardinalityType, FS_Interval
<1>2. f \in Injection(1..n, S)
  BY SetToSeqIs
<1> HIDE DEF f
<1>3. f \in Surjection(1..n, S)
  BY <1>1, <1>2, FS_Injection
<1>4. f \in [1..n -> S] /\ \A t \in S : \E i \in 1..n : f[i] = t
  BY <1>3 DEF Surjection
<1>5. {f[i] : i \in DOMAIN f} = S
  BY <1>4
<1> QED
  BY <1>5 DEF f

\* The run a well-posed case asks for has every score at 1.
LEMMA IdealScores ==
  ASSUME NEW c, NEW tools, WellPosed(c, tools)
  PROVE  Scores(c, Ideal(c), c.expected_tools) = [s \in Scorers |-> 1000]
<1> DEFINE run == Ideal(c)
<1>0. /\ run.status = c.expected_status /\ run.answered = (c.expected_status = "completed")
      /\ run.words = c.must /\ run.cost = c.max_cost /\ run.latency = c.max_latency
  BY DEF Ideal
<1> HIDE DEF run
<1>1. TaskCompletion(c, run) = 1000
  BY <1>0 DEF TaskCompletion
<1>2. ToolSelection(c, c.expected_tools) = 1000
  <2>1. c.expected_tools \ c.expected_tools = {} /\ c.unexpected_tools \cap c.expected_tools = {}
    BY DEF WellPosed
  <2> QED
    BY <2>1, FS_EmptySet DEF ToolSelection, AtLeastZero
<1>3. AnswerQuality(c, run) = 1000
  <2>1. c.must \cap run.words = c.must /\ c.must_not \cap run.words = {}
    BY <1>0 DEF WellPosed
  <2>2. Cardinality(c.must_not \cap run.words) = 0
    BY <2>1, FS_EmptySet
  <2>3. Cardinality(c.must) \in Nat /\ (c.must # {} => Cardinality(c.must) # 0)
    BY FS_EmptySet, FS_CardinalityType DEF WellPosed
  <2>4. ASSUME NEW n \in Nat \ {0} PROVE Share(n, n) = 1000
    BY <2>4, ShareOf DEF Share
  <2> DEFINE n == Cardinality(c.must)
  <2>5. c.must # {} => Share(n, n) = 1000
    <3>1. c.must # {} => n \in Nat \ {0}
      BY <2>3
    <3> HIDE DEF n
    <3> QED
      BY <3>1, <2>4
  <2>6. Cardinality(c.must \cap run.words) = n
    BY <2>1
  <2>7. AtLeastZero(1000 - 300 * 0) = 1000
    BY DEF AtLeastZero
  <2> DEFINE share == IF c.must = {} THEN 1000 ELSE Share(n, n)
  <2>8. share = 1000
    BY <2>5
  <2>9. AnswerQuality(c, run) =
          IF ~run.answered THEN IF c.expected_status = "completed" THEN 0 ELSE 1000
          ELSE AtLeastZero(share - 300 * 0)
    BY <2>2, <2>6 DEF AnswerQuality
  <2> HIDE DEF share
  <2>10. run.answered <=> c.expected_status = "completed"
    BY <1>0
  <2> QED
    BY <2>7, <2>8, <2>9, <2>10
<1>4. CostEfficiency(c, run) = 1000 /\ LatencyScore(c, run) = 1000
  <2>1. c.max_cost \in Nat /\ c.max_latency \in Nat
    BY DEF WellPosed
  <2>2. run.cost <= c.max_cost /\ run.latency <= c.max_latency
    BY <1>0, <2>1
  <2> QED
    BY <2>2 DEF CostEfficiency, LatencyScore
<1>5. EscalationAccuracy(c, run) = 1000
  BY <1>0 DEF EscalationAccuracy
<1> QED
  BY <1>1, <1>2, <1>3, <1>4, <1>5 DEF Scores, run, Scorers, Weight

\* A well-posed case can be passed, with a score of 1.
LEMMA IdealPasses ==
  ASSUME NEW c, NEW tools, WellPosed(c, tools)
  PROVE  Best(c).passed /\ Best(c).overall = 1000
<1> DEFINE s == [n \in Scorers |-> 1000]
<1>1. {SetToSeq(c.expected_tools)[i] : i \in DOMAIN SetToSeq(c.expected_tools)} = c.expected_tools
  BY SetToSeqAll DEF WellPosed
<1>2. Scores(c, Ideal(c), c.expected_tools) = s
  BY IdealScores
<1>3. /\ Best(c).overall = (Weighted(s) + TotalWeight \div 2) \div TotalWeight
      /\ Best(c).passed = (Weighted(s) >= PassThreshold * TotalWeight /\ ~HardFailed(s))
  <2> HIDE DEF s
  <2> QED
    BY <1>1, <1>2 DEF Best, Evaluate
<1>4. TotalWeight = 80 /\ Weighted(s) = 80000
  BY DEF TotalWeight, Weighted, AddUp, Weight, Scorers
<1>5. ~HardFailed(s)
  BY DEF HardFailed, HardFail, Scorers, Weight
<1> HIDE DEF s
<1>6. (Weighted(s) + TotalWeight \div 2) \div TotalWeight = 1000
  BY <1>4
<1>7. Weighted(s) >= PassThreshold * TotalWeight
  BY <1>4 DEF PassThreshold
<1> QED
  BY <1>3, <1>5, <1>6, <1>7

\* A list of cases with these ids, each its own, that a run can pass.
Passable(cases, ids, tools) ==
  /\ cases \in Seq(ToSet(cases)) /\ IsInjective(Ids(cases))
  /\ \A i \in 1..Len(cases) : cases[i].case_id \in ids /\ WellPosed(cases[i], tools)

\* Two lists whose ids differ are one such list.
LEMMA PassableJoin ==
  ASSUME NEW a, NEW b, NEW I, NEW J, NEW tools,
         Passable(a, I, tools), Passable(b, J, tools), I \cap J = {}
  PROVE  Passable(a \o b, I \cup J, tools)
<1> DEFINE ab == a \o b
           S == ToSet(a) \cup ToSet(b)
<1>0. a \in Seq(S) /\ b \in Seq(S)
  <2> HIDE DEF ToSet
  <2> QED
    BY SeqMonotonic DEF Passable
<1> HIDE DEF S
<1>1. /\ Len(a) \in Nat /\ Len(b) \in Nat
      /\ ab \in Seq(S) /\ Len(ab) = Len(a) + Len(b)
      /\ \A i \in 1..Len(ab) : ab[i] = IF i <= Len(a) THEN a[i] ELSE b[i - Len(a)]
  BY <1>0, ConcatProperties
<1> HIDE DEF ab
<1>2. \A i \in 1..Len(ab) : /\ i <= Len(a) => i \in 1..Len(a) /\ ab[i] = a[i]
                            /\ i > Len(a) => i - Len(a) \in 1..Len(b) /\ ab[i] = b[i - Len(a)]
  BY <1>1
<1>3. /\ \A i \in 1..Len(a) : a[i].case_id \in I /\ WellPosed(a[i], tools)
      /\ \A i \in 1..Len(b) : b[i].case_id \in J /\ WellPosed(b[i], tools)
  BY DEF Passable
<1>4. /\ \A i, j \in 1..Len(a) : a[i].case_id = a[j].case_id => i = j
      /\ \A i, j \in 1..Len(b) : b[i].case_id = b[j].case_id => i = j
  BY <1>0 DEF Passable, IsInjective, Ids
<1>5. ASSUME NEW i \in 1..Len(ab)
      PROVE  ab[i].case_id \in I \cup J /\ WellPosed(ab[i], tools)
  <2>1. CASE i <= Len(a)
    BY <1>2, <1>3, <2>1
  <2>2. CASE i > Len(a)
    BY <1>2, <1>3, <2>2
  <2> QED
    BY <1>1, <2>1, <2>2
<1>6. ASSUME NEW i \in 1..Len(ab), NEW j \in 1..Len(ab), ab[i].case_id = ab[j].case_id
      PROVE  i = j
  <2>1. i \in Nat /\ j \in Nat
    BY <1>1
  <2>2. CASE i <= Len(a) /\ j <= Len(a)
    BY <1>2, <1>4, <1>6, <2>2
  <2>3. CASE i > Len(a) /\ j > Len(a)
    <3>1. /\ i - Len(a) \in 1..Len(b) /\ j - Len(a) \in 1..Len(b)
          /\ b[i - Len(a)].case_id = b[j - Len(a)].case_id
      BY <1>2, <1>6, <2>3
    <3>2. i - Len(a) = j - Len(a)
      BY <1>4, <3>1, Zenon
    <3> QED
      BY <1>1, <2>1, <3>2
  <2>4. CASE i <= Len(a) /\ j > Len(a)
    <3>1. ab[i].case_id \in I /\ ab[j].case_id \in J
      BY <1>2, <1>3, <2>4
    <3> QED
      BY <1>6, <3>1
  <2>5. CASE i > Len(a) /\ j <= Len(a)
    <3>1. ab[i].case_id \in J /\ ab[j].case_id \in I
      BY <1>2, <1>3, <2>5
    <3> QED
      BY <1>6, <3>1
  <2> QED
    BY <1>1, <2>1, <2>2, <2>3, <2>4, <2>5
<1>7. IsInjective(Ids(ab))
  BY <1>1, <1>6 DEF IsInjective, Ids
<1>8. ab \in Seq(ToSet(ab))
  BY <1>1, ElementsOf
<1> QED
  BY <1>5, <1>7, <1>8 DEF Passable, ab

\* The finite sets of the dataset are enumerations.
\* The sets of the dataset are enumerated.
LEMMA FiniteLists ==
  ASSUME NEW x, NEW y, NEW z
  PROVE  IsFiniteSet({}) /\ IsFiniteSet({x}) /\ IsFiniteSet({x, y}) /\ IsFiniteSet({x, y, z})
<1>1. IsFiniteSet({}) /\ IsFiniteSet({x})
  BY FS_EmptySet, FS_Singleton
<1>2. {x, y} = {x} \cup {y} /\ {x, y, z} = {x, y} \cup {z}
  OBVIOUS
<1>3. IsFiniteSet({x} \cup {y})
  BY <1>1, FS_AddElement
<1>4. IsFiniteSet({x, y} \cup {z})
  BY <1>2, <1>3, FS_AddElement
<1> QED
  BY <1>1, <1>2, <1>3, <1>4

\* The lists of two and of three cases.
LEMMA TwoPassable ==
  ASSUME NEW a, NEW b, NEW tools, NEW I,
         WellPosed(a, tools), WellPosed(b, tools),
         a.case_id \in I, b.case_id \in I, a.case_id # b.case_id
  PROVE  Passable(<<a, b>>, I, tools)
<1> DEFINE s == <<a, b>>
<1>2. s \in Seq({a, b}) /\ Len(s) = 2 /\ DOMAIN s = 1..2 /\ s[1] = a /\ s[2] = b
  OBVIOUS
<1> HIDE DEF s
<1>3. IsInjective(Ids(s))
  BY <1>2 DEF IsInjective, Ids
<1>4. \A i \in 1..2 : s[i].case_id \in I /\ WellPosed(s[i], tools)
  BY <1>2
<1>5. s \in Seq(ToSet(s))
  BY <1>2, ElementsOf
<1> QED
  BY <1>2, <1>3, <1>4, <1>5 DEF Passable, s

LEMMA ThreePassable ==
  ASSUME NEW a, NEW b, NEW c, NEW tools, NEW I,
         WellPosed(a, tools), WellPosed(b, tools), WellPosed(c, tools),
         a.case_id \in I, b.case_id \in I, c.case_id \in I,
         a.case_id # b.case_id, a.case_id # c.case_id, b.case_id # c.case_id
  PROVE  Passable(<<a, b, c>>, I, tools)
<1> DEFINE s == <<a, b, c>>
<1>2. s \in Seq({a, b, c}) /\ Len(s) = 3 /\ DOMAIN s = 1..3 /\ s[1] = a /\ s[2] = b /\ s[3] = c
  OBVIOUS
<1> HIDE DEF s
<1>3. IsInjective(Ids(s))
  BY <1>2 DEF IsInjective, Ids
<1>4. \A i \in 1..3 : s[i].case_id \in I /\ WellPosed(s[i], tools)
  BY <1>2
<1>5. s \in Seq(ToSet(s))
  BY <1>2, ElementsOf
<1> QED
  BY <1>2, <1>3, <1>4, <1>5 DEF Passable, s

\* What EvalDataset makes of the fields of a case.
LEMMA AnsweredIs ==
  ASSUME NEW id, NEW t, NEW w, NEW m, NEW n, NEW k \in Nat, NEW tools,
         IsFiniteSet(t), IsFiniteSet(w), IsFiniteSet(m), IsFiniteSet(n),
         t \cup w \subseteq tools, t \cap w = {}, m \cap n = {}
  PROVE  /\ WellPosed(Answered(id, t, w, m, n, k), tools)
         /\ Answered(id, t, w, m, n, k).case_id = id
<1> DEFINE c == Answered(id, t, w, m, n, k)
<1>1. /\ c.expected_tools = t /\ c.unexpected_tools = w /\ c.must = m /\ c.must_not = n
      /\ c.case_id = id /\ c.max_cost = k /\ c.max_latency = 60000
  BY DEF Answered, Case
<1> HIDE DEF c
<1>2. WellPosed(c, tools)
  BY <1>1 DEF WellPosed
<1> QED
  BY <1>1, <1>2 DEF c

LEMMA EscalatedIs ==
  ASSUME NEW id, NEW t, NEW k \in Nat, NEW tools, IsFiniteSet(t), t \subseteq tools
  PROVE  /\ WellPosed(Escalated(id, t, k), tools)
         /\ Escalated(id, t, k).case_id = id
<1> DEFINE c == Escalated(id, t, k)
<1>1. /\ c.expected_tools = t /\ c.unexpected_tools = {} /\ c.must = {} /\ c.must_not = {}
      /\ c.case_id = id /\ c.max_cost = k /\ c.max_latency = 60000
  BY DEF Escalated, Case
<1> HIDE DEF c
<1>2. WellPosed(c, tools)
  BY <1>1, FS_EmptySet DEF WellPosed
<1> QED
  BY <1>1, <1>2 DEF c

\* A longer list is two of those.
LEMMA FourListed ==
  ASSUME NEW a, NEW b, NEW c, NEW d
  PROVE  <<a, b>> \o <<c, d>> = <<a, b, c, d>>
<1> DEFINE S == {a, b, c, d}
           s == <<a, b>> \o <<c, d>>
           t == <<a, b, c, d>>
<1>1. <<a, b>> \in Seq(S) /\ <<c, d>> \in Seq(S) /\ t \in Seq(S) /\ Len(t) = 4
  OBVIOUS
<1>2. s \in Seq(S) /\ Len(s) = 4
  BY <1>1, ConcatProperties
<1>3. s[1] = a /\ s[2] = b /\ s[3] = c /\ s[4] = d
  BY <1>1, ConcatProperties
<1>4. t[1] = a /\ t[2] = b /\ t[3] = c /\ t[4] = d
  OBVIOUS
<1> HIDE DEF s, t
<1>5. \A i \in 1..Len(s) : s[i] = t[i]
  BY <1>2, <1>3, <1>4
<1>6. s = t
  BY <1>1, <1>2, <1>5, SeqEqual
<1> QED
  BY <1>6 DEF s, t

LEMMA SixListed ==
  ASSUME NEW a, NEW b, NEW c, NEW d, NEW e, NEW f
  PROVE  <<a, b, c>> \o <<d, e, f>> = <<a, b, c, d, e, f>>
<1> DEFINE S == {a, b, c, d, e, f}
           s == <<a, b, c>> \o <<d, e, f>>
           t == <<a, b, c, d, e, f>>
<1>1. <<a, b, c>> \in Seq(S) /\ <<d, e, f>> \in Seq(S) /\ t \in Seq(S) /\ Len(t) = 6
  OBVIOUS
<1>2. s \in Seq(S) /\ Len(s) = 6
  BY <1>1, ConcatProperties
<1>3. s[1] = a /\ s[2] = b /\ s[3] = c /\ s[4] = d /\ s[5] = e /\ s[6] = f
  BY <1>1, ConcatProperties
<1>4. t[1] = a /\ t[2] = b /\ t[3] = c /\ t[4] = d /\ t[5] = e /\ t[6] = f
  OBVIOUS
<1> HIDE DEF s, t
<1>5. \A i \in 1..Len(s) : s[i] = t[i]
  BY <1>2, <1>3, <1>4
<1>6. s = t
  BY <1>1, <1>2, <1>5, SeqEqual
<1> QED
  BY <1>6 DEF s, t

\* The tools of the agents.
SupportTools == DOMAIN SUPPORT_TOOLS
EngineeringTools == DOMAIN ENGINEERING_TOOLS

\* The sets of tools the support cases name.
LEMMA SupportSets ==
  /\ Lookup \subseteq SupportTools /\ Refund \subseteq SupportTools
  /\ Policy \subseteq SupportTools /\ Human \subseteq SupportTools
  /\ IsFiniteSet(Lookup \cup Refund) /\ IsFiniteSet(Lookup \cup Policy)
  /\ IsFiniteSet(Lookup \cup Human) /\ IsFiniteSet(Refund \cup Human)
  /\ IsFiniteSet(Lookup) /\ IsFiniteSet(Refund) /\ IsFiniteSet(Policy) /\ IsFiniteSet(Human)
  /\ IsFiniteSet({})
  /\ Lookup \cap Refund = {} /\ Lookup \cap Human = {} /\ Policy \cap Refund = {}
<1>1. /\ Lookup \subseteq SupportTools /\ Refund \subseteq SupportTools
      /\ Policy \subseteq SupportTools /\ Human \subseteq SupportTools
      /\ Lookup \cap Refund = {} /\ Lookup \cap Human = {} /\ Policy \cap Refund = {}
  BY DEF Lookup, Refund, Policy, Human, SupportTools, SUPPORT_TOOLS
<1>2. \A x : IsFiniteSet({x})
  BY FS_Singleton
<1>3. IsFiniteSet(Lookup) /\ IsFiniteSet(Refund) /\ IsFiniteSet(Policy) /\ IsFiniteSet(Human)
  BY <1>2 DEF Lookup, Refund, Policy, Human
<1> QED
  BY <1>1, <1>3, FS_Union, FS_EmptySet

LEMMA EngineeringSets ==
  /\ EngineeringTools = {"code_search", "file_read", "pr_review", "dependency_check"}
  /\ \A x, y : IsFiniteSet({}) /\ IsFiniteSet({x}) /\ IsFiniteSet({x, y})
<1>1. EngineeringTools = {"code_search", "file_read", "pr_review", "dependency_check"}
  BY DEF EngineeringTools, ENGINEERING_TOOLS
<1> QED
  BY <1>1, FiniteLists

\* The lists of EvalDataset, one after the other.
LEMMA SimpleLookupsPassable ==
  Passable(SimpleLookups, {"support_001", "support_002", "support_003", "support_004"},
           SupportTools)
<1> DEFINE a == Answered("support_001", Lookup, Refund, {"delivered", "ORD-789"}, {}, 5)
           b == Answered("support_002", Lookup, {}, {"ORD-001"}, {}, 5)
           c == Answered("support_003", {}, Refund, {}, {}, 5)
           d == Answered("support_004", {}, Refund \cup Human, {}, {}, 4)
<1>1. IsFiniteSet({}) /\ IsFiniteSet({"ORD-001"}) /\ IsFiniteSet({"delivered", "ORD-789"})
  BY FiniteLists
<1>2. WellPosed(a, SupportTools) /\ a.case_id = "support_001"
  BY <1>1, SupportSets, AnsweredIs
<1>3. WellPosed(b, SupportTools) /\ b.case_id = "support_002"
  BY <1>1, SupportSets, AnsweredIs
<1>4. WellPosed(c, SupportTools) /\ c.case_id = "support_003"
  BY <1>1, SupportSets, AnsweredIs
<1>5. WellPosed(d, SupportTools) /\ d.case_id = "support_004"
  BY <1>1, SupportSets, AnsweredIs
<1> HIDE DEF a, b, c, d
<1> DEFINE I == {"support_001", "support_002"}
           J == {"support_003", "support_004"}
<1>6. Passable(<<a, b>>, I, SupportTools)
  BY <1>2, <1>3, TwoPassable
<1>7. Passable(<<c, d>>, J, SupportTools)
  BY <1>4, <1>5, TwoPassable
<1>8. I \cap J = {}
  OBVIOUS
<1>9. Passable(<<a, b>> \o <<c, d>>, I \cup J, SupportTools)
  <2> HIDE DEF I, J
  <2> QED
    BY <1>6, <1>7, <1>8, PassableJoin
<1>10. <<a, b>> \o <<c, d>> = SimpleLookups
  BY FourListed DEF SimpleLookups, a, b, c, d
<1>11. I \cup J = {"support_001", "support_002", "support_003", "support_004"}
  OBVIOUS
<1> QED
  BY <1>9, <1>10, <1>11, Zenon

LEMMA EligibleRefundsPassable ==
  Passable(EligibleRefunds, {"support_005", "support_006", "support_007"},
           SupportTools)
<1> DEFINE refusal == {"cannot process", "not eligible"}
           a == Answered("support_005", Lookup \cup Refund, {}, {"refund"}, refusal, 8)
           b == Answered("support_006", Lookup \cup Refund, {}, {"refund"}, {}, 8)
           c == Answered("support_007", Lookup \cup Refund, {}, {"refund"}, {}, 8)
<1>1. IsFiniteSet({}) /\ IsFiniteSet({"refund"})
  BY FiniteLists
<1>2. IsFiniteSet(refusal) /\ {"refund"} \cap refusal = {}
  BY FiniteLists, Zenon
<1> HIDE DEF refusal
<1>3. WellPosed(a, SupportTools) /\ a.case_id = "support_005"
  BY <1>1, <1>2, SupportSets, AnsweredIs
<1>4. WellPosed(b, SupportTools) /\ b.case_id = "support_006"
  BY <1>1, <1>2, SupportSets, AnsweredIs
<1>5. WellPosed(c, SupportTools) /\ c.case_id = "support_007"
  BY <1>1, <1>2, SupportSets, AnsweredIs
<1> HIDE DEF a, b, c
<1> QED
  BY <1>3, <1>4, <1>5, ThreePassable DEF EligibleRefunds, a, b, c, refusal

LEMMA IneligibleRefundsPassable ==
  Passable(IneligibleRefunds, {"support_008", "support_009", "support_010", "support_011"},
           SupportTools)
<1> DEFINE approval == {"refund approved", "refund processed"}
           approved == {"refund approved"}
           a == Answered("support_008", Lookup \cup Policy, Refund, {"30"}, {}, 8)
           b == Answered("support_009", Lookup \cup Policy, Refund, {}, approval, 8)
           c == Answered("support_010", Policy, Refund, {"30"}, {}, 6)
           d == Answered("support_011", Policy, {}, {}, approved, 6)
<1>1. IsFiniteSet({}) /\ IsFiniteSet({"30"})
  BY FiniteLists
<1>2. IsFiniteSet(approval) /\ IsFiniteSet(approved)
  BY FiniteLists, Zenon
<1> HIDE DEF approval, approved
<1>3. WellPosed(a, SupportTools) /\ a.case_id = "support_008"
  BY <1>1, <1>2, SupportSets, AnsweredIs
<1>4. WellPosed(b, SupportTools) /\ b.case_id = "support_009"
  BY <1>1, <1>2, SupportSets, AnsweredIs
<1>5. WellPosed(c, SupportTools) /\ c.case_id = "support_010"
  BY <1>1, <1>2, SupportSets, AnsweredIs
<1>6. WellPosed(d, SupportTools) /\ d.case_id = "support_011"
  BY <1>1, <1>2, SupportSets, AnsweredIs
<1> HIDE DEF a, b, c, d
<1> DEFINE I == {"support_008", "support_009"}
           J == {"support_010", "support_011"}
<1>7. Passable(<<a, b>>, I, SupportTools)
  BY <1>3, <1>4, TwoPassable
<1>8. Passable(<<c, d>>, J, SupportTools)
  BY <1>5, <1>6, TwoPassable
<1>9. I \cap J = {}
  OBVIOUS
<1>10. Passable(<<a, b>> \o <<c, d>>, I \cup J, SupportTools)
  <2> HIDE DEF I, J
  <2> QED
    BY <1>7, <1>8, <1>9, PassableJoin
<1>11. <<a, b>> \o <<c, d>> = IneligibleRefunds
  BY FourListed DEF IneligibleRefunds, a, b, c, d, approval, approved
<1>12. I \cup J = {"support_008", "support_009", "support_010", "support_011"}
  OBVIOUS
<1> QED
  BY <1>10, <1>11, <1>12, Zenon

LEMMA EscalationsPassable ==
  Passable(Escalations, {"support_012", "support_013", "support_014"},
           SupportTools)
<1> DEFINE a == Escalated("support_012", Lookup \cup Human, 8)
           b == Escalated("support_013", Human, 6)
           c == Escalated("support_014", Human, 8)
<1>1. WellPosed(a, SupportTools) /\ a.case_id = "support_012"
  BY SupportSets, EscalatedIs
<1>2. WellPosed(b, SupportTools) /\ b.case_id = "support_013"
  BY SupportSets, EscalatedIs
<1>3. WellPosed(c, SupportTools) /\ c.case_id = "support_014"
  BY SupportSets, EscalatedIs
<1> HIDE DEF a, b, c
<1> QED
  BY <1>1, <1>2, <1>3, ThreePassable DEF Escalations, a, b, c

LEMMA EdgeCasesPassable ==
  Passable(EdgeCases, {"support_015", "support_016", "support_017", "support_018",
                       "support_019", "support_020"},
           SupportTools)
<1> DEFINE a == Answered("support_015", Lookup, Refund, {}, {}, 6)
           b == Answered("support_016", {}, Refund, {}, {}, 6)
           c == Answered("support_017", Lookup \cup Refund, {}, {"refund"}, {}, 10)
           d == Answered("support_018", Lookup \cup Refund, {}, {"refund"}, {}, 8)
           e == Answered("support_019", Lookup, Refund \cup Human, {"ORD-789"}, {}, 5)
           f == Answered("support_020", Lookup, {}, {"ORD-789"}, {}, 6)
<1>1. IsFiniteSet({}) /\ IsFiniteSet({"ORD-789"}) /\ IsFiniteSet({"refund"})
  BY FiniteLists
<1>2. WellPosed(a, SupportTools) /\ a.case_id = "support_015"
  BY <1>1, SupportSets, AnsweredIs
<1>3. WellPosed(b, SupportTools) /\ b.case_id = "support_016"
  BY <1>1, SupportSets, AnsweredIs
<1>4. WellPosed(c, SupportTools) /\ c.case_id = "support_017"
  BY <1>1, SupportSets, AnsweredIs
<1>5. WellPosed(d, SupportTools) /\ d.case_id = "support_018"
  BY <1>1, SupportSets, AnsweredIs
<1>6. WellPosed(e, SupportTools) /\ e.case_id = "support_019"
  BY <1>1, SupportSets, AnsweredIs
<1>7. WellPosed(f, SupportTools) /\ f.case_id = "support_020"
  BY <1>1, SupportSets, AnsweredIs
<1> HIDE DEF a, b, c, d, e, f
<1> DEFINE I == {"support_015", "support_016", "support_017"}
           J == {"support_018", "support_019", "support_020"}
<1>8. Passable(<<a, b, c>>, I, SupportTools)
  BY <1>2, <1>3, <1>4, ThreePassable
<1>9. Passable(<<d, e, f>>, J, SupportTools)
  BY <1>5, <1>6, <1>7, ThreePassable
<1>10. I \cap J = {}
  OBVIOUS
<1>11. Passable(<<a, b, c>> \o <<d, e, f>>, I \cup J, SupportTools)
  <2> HIDE DEF I, J
  <2> QED
    BY <1>8, <1>9, <1>10, PassableJoin
<1>12. <<a, b, c>> \o <<d, e, f>> = EdgeCases
  BY SixListed DEF EdgeCases, a, b, c, d, e, f
<1>13. I \cup J = {"support_015", "support_016", "support_017", "support_018",
                   "support_019", "support_020"}
  OBVIOUS
<1> QED
  BY <1>11, <1>12, <1>13, Zenon

LEMMA CodeSearchesPassable ==
  Passable(CodeSearches, {"eng_001", "eng_002", "eng_003"},
           EngineeringTools)
<1> DEFINE a == Answered("eng_001", {"code_search"}, {}, {"src/auth/service.py"}, {}, 6)
           b == Answered("eng_002", {"code_search"}, {}, {"rate_limit"}, {}, 6)
           c == Answered("eng_003", {"code_search"}, {}, {"sql", "queries.py"}, {}, 6)
<1>1. IsFiniteSet({}) /\ IsFiniteSet({"code_search"}) /\ IsFiniteSet({"rate_limit"})
      /\ IsFiniteSet({"sql", "queries.py"}) /\ IsFiniteSet({"src/auth/service.py"})
  BY FiniteLists
<1>2. WellPosed(a, EngineeringTools) /\ a.case_id = "eng_001"
  BY <1>1, EngineeringSets, AnsweredIs
<1>3. WellPosed(b, EngineeringTools) /\ b.case_id = "eng_002"
  BY <1>1, EngineeringSets, AnsweredIs
<1>4. WellPosed(c, EngineeringTools) /\ c.case_id = "eng_003"
  BY <1>1, EngineeringSets, AnsweredIs
<1> HIDE DEF a, b, c
<1> QED
  BY <1>2, <1>3, <1>4, ThreePassable DEF CodeSearches, a, b, c

LEMMA FileReadsPassable ==
  Passable(FileReads, {"eng_004", "eng_005"},
           EngineeringTools)
<1> DEFINE a == Answered("eng_004", {"file_read"}, {}, {"authenticate_user"}, {}, 6)
           b == Answered("eng_005", {"file_read"}, {"code_search"}, {}, {"authenticate_user"}, 6)
<1>1. IsFiniteSet({}) /\ IsFiniteSet({"authenticate_user"}) /\ IsFiniteSet({"code_search"})
      /\ IsFiniteSet({"file_read"})
  BY FiniteLists
<1>2. WellPosed(a, EngineeringTools) /\ a.case_id = "eng_004"
  BY <1>1, EngineeringSets, AnsweredIs
<1>3. WellPosed(b, EngineeringTools) /\ b.case_id = "eng_005"
  BY <1>1, EngineeringSets, AnsweredIs
<1> HIDE DEF a, b
<1> QED
  BY <1>2, <1>3, TwoPassable DEF FileReads, a, b

LEMMA ReviewsPassable ==
  Passable(Reviews, {"eng_006", "eng_007", "eng_008"},
           EngineeringTools)
<1> DEFINE praise == {"no issues", "looks good", "approved"}
           a == Answered("eng_006", {"pr_review"}, {}, {"critical", "timing"}, praise, 8)
           b == Answered("eng_007", {"pr_review"}, {}, {"PR-99"},
                         {"critical", "vulnerability"}, 6)
           c == Answered("eng_008", {"pr_review"}, {}, {"PR-17", "warning"}, {}, 8)
<1>1. IsFiniteSet({}) /\ IsFiniteSet({"PR-17", "warning"}) /\ IsFiniteSet({"PR-99"})
      /\ IsFiniteSet({"critical", "timing"}) /\ IsFiniteSet({"critical", "vulnerability"})
      /\ IsFiniteSet({"pr_review"})
  BY FiniteLists
<1>2. IsFiniteSet(praise) /\ {"critical", "timing"} \cap praise = {}
  BY FiniteLists, Zenon
<1> HIDE DEF praise
<1>3. WellPosed(a, EngineeringTools) /\ a.case_id = "eng_006"
  BY <1>1, <1>2, EngineeringSets, AnsweredIs
<1>4. WellPosed(b, EngineeringTools) /\ b.case_id = "eng_007"
  BY <1>1, <1>2, EngineeringSets, AnsweredIs
<1>5. WellPosed(c, EngineeringTools) /\ c.case_id = "eng_008"
  BY <1>1, <1>2, EngineeringSets, AnsweredIs
<1> HIDE DEF a, b, c
<1> QED
  BY <1>3, <1>4, <1>5, ThreePassable DEF Reviews, a, b, c, praise

LEMMA AuditsPassable ==
  Passable(Audits, {"eng_009", "eng_010"},
           EngineeringTools)
<1> DEFINE a == Answered("eng_009", {"dependency_check"}, {}, {"cryptography", "critical"}, {}, 8)
           b == Answered("eng_010", {"code_search", "file_read"}, {}, {"queries.py"}, {}, 10)
<1>1. IsFiniteSet({}) /\ IsFiniteSet({"code_search", "file_read"})
      /\ IsFiniteSet({"cryptography", "critical"}) /\ IsFiniteSet({"dependency_check"})
      /\ IsFiniteSet({"queries.py"})
  BY FiniteLists
<1>2. WellPosed(a, EngineeringTools) /\ a.case_id = "eng_009"
  BY <1>1, EngineeringSets, AnsweredIs
<1>3. WellPosed(b, EngineeringTools) /\ b.case_id = "eng_010"
  BY <1>1, EngineeringSets, AnsweredIs
<1> HIDE DEF a, b
<1> QED
  BY <1>2, <1>3, TwoPassable DEF Audits, a, b

\* The two datasets.
LEMMA SupportPassable == \E I : Passable(SUPPORT_CASES, I, SupportTools)
<1> DEFINE A == {"support_001", "support_002", "support_003", "support_004"}
           B == {"support_005", "support_006", "support_007"}
           C == {"support_008", "support_009", "support_010", "support_011"}
           D == {"support_012", "support_013", "support_014"}
           E == {"support_015", "support_016", "support_017", "support_018", "support_019",
                 "support_020"}
<1>1. Passable(SimpleLookups, A, SupportTools) /\ Passable(EligibleRefunds, B, SupportTools)
      /\ Passable(IneligibleRefunds, C, SupportTools) /\ Passable(Escalations, D, SupportTools)
      /\ Passable(EdgeCases, E, SupportTools)
  BY SimpleLookupsPassable, EligibleRefundsPassable, IneligibleRefundsPassable, EscalationsPassable,
     EdgeCasesPassable
<1>2. A \cap B = {} /\ (A \cup B) \cap C = {} /\ (A \cup B \cup C) \cap D = {}
      /\ (A \cup B \cup C \cup D) \cap E = {}
  OBVIOUS
<1> HIDE DEF A, B, C, D, E
<1>3. Passable(SimpleLookups \o EligibleRefunds, A \cup B, SupportTools)
  BY <1>1, <1>2, PassableJoin
<1>4. Passable(SimpleLookups \o EligibleRefunds \o IneligibleRefunds,
               A \cup B \cup C, SupportTools)
  BY <1>1, <1>2, <1>3, PassableJoin
<1>5. Passable(SimpleLookups \o EligibleRefunds \o IneligibleRefunds \o Escalations,
               A \cup B \cup C \cup D, SupportTools)
  BY <1>1, <1>2, <1>4, PassableJoin
<1>6. Passable(SimpleLookups \o EligibleRefunds \o IneligibleRefunds \o Escalations \o EdgeCases,
               A \cup B \cup C \cup D \cup E, SupportTools)
  BY <1>1, <1>2, <1>5, PassableJoin
<1> QED
  BY <1>6 DEF SUPPORT_CASES

LEMMA EngineeringPassable == \E I : Passable(ENGINEERING_CASES, I, EngineeringTools)
<1> DEFINE A == {"eng_001", "eng_002", "eng_003"}
           B == {"eng_004", "eng_005"}
           C == {"eng_006", "eng_007", "eng_008"}
           D == {"eng_009", "eng_010"}
<1>1. Passable(CodeSearches, A, EngineeringTools) /\ Passable(FileReads, B, EngineeringTools)
      /\ Passable(Reviews, C, EngineeringTools) /\ Passable(Audits, D, EngineeringTools)
  BY CodeSearchesPassable, FileReadsPassable, ReviewsPassable, AuditsPassable
<1>2. A \cap B = {} /\ (A \cup B) \cap C = {} /\ (A \cup B \cup C) \cap D = {}
  OBVIOUS
<1> HIDE DEF A, B, C, D
<1>3. Passable(CodeSearches \o FileReads, A \cup B, EngineeringTools)
  BY <1>1, <1>2, PassableJoin
<1>4. Passable(CodeSearches \o FileReads \o Reviews, A \cup B \cup C, EngineeringTools)
  BY <1>1, <1>2, <1>3, PassableJoin
<1>5. Passable(CodeSearches \o FileReads \o Reviews \o Audits,
               A \cup B \cup C \cup D, EngineeringTools)
  BY <1>1, <1>2, <1>4, PassableJoin
<1> QED
  BY <1>5 DEF ENGINEERING_CASES

\* Every case of the two datasets can be passed with a score of 1 by the agent it
\* is for, and a case's id is its own (evals/dataset, _SUITE_CONFIG, the scorers).
THEOREM DatasetCanBePassed == Spec => []DatasetSatisfiable
<1>1. ASSUME NEW cases, NEW I, NEW tools, Passable(cases, I, tools)
      PROVE  /\ \A c \in ToSet(cases) : /\ c.expected_tools \cup c.unexpected_tools \subseteq tools
                                        /\ Best(c).passed /\ Best(c).overall = 1000
             /\ IsInjective(Ids(cases))
  <2>1. \A c \in ToSet(cases) : WellPosed(c, tools)
    BY <1>1 DEF Passable, ToSet
  <2>2. ASSUME NEW c \in ToSet(cases)
        PROVE  /\ c.expected_tools \cup c.unexpected_tools \subseteq tools
               /\ Best(c).passed /\ Best(c).overall = 1000
    <3>1. WellPosed(c, tools)
      BY <2>1
    <3>2. c.expected_tools \cup c.unexpected_tools \subseteq tools
      BY <3>1, Zenon DEF WellPosed
    <3> QED
      BY <3>1, <3>2, IdealPasses
  <2>3. IsInjective(Ids(cases))
    BY <1>1, Zenon DEF Passable
  <2> QED
    BY <2>2, <2>3
<1>2. DatasetSatisfiable
  <2> DEFINE cases == IF Suite = "support" THEN SUPPORT_CASES ELSE ENGINEERING_CASES
  <2>1. \E I : Passable(cases, I, ToolNames(Suite))
    BY SupportPassable, EngineeringPassable DEF ToolNames, SupportTools, EngineeringTools
  <2>2. /\ \A c \in ToSet(cases) :
             /\ c.expected_tools \cup c.unexpected_tools \subseteq ToolNames(Suite)
             /\ Best(c).passed /\ Best(c).overall = 1000
        /\ IsInjective(Ids(cases))
    <3> HIDE DEF cases
    <3> QED
      BY <1>1, <2>1
  <2> QED
    BY <2>2 DEF DatasetSatisfiable, Best, Ideal
<1> QED
  BY <1>2, PTL
=============================================================================
