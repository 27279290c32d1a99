------------------------------- MODULE EvalSuite -------------------------------
(* engine/evals: the six scorers and the suite that combines them.  Scores are *)
(* thousandths (the code rounds to three digits), weights tenths, money cents, *)
(* time milliseconds.                                                          *)
(* A case: [case_id, expected_status, expected_tools, unexpected_tools, must,  *)
(*          must_not, max_cost, max_latency]                                   *)
(* A run:  [status, answered, words, cost, latency], where words are those of  *)
(*         must and must_not that the final answer contains                    *)
EXTENDS Integers, FiniteSets

\* Mutant of PassThreshold: a suite stricter than its scorers.
PassThresholdStrict == 900

\* PASS_THRESHOLD, of the suite.
PassThreshold == 700

\* Scorer.pass_threshold, of each scorer.
ScorerThreshold == 700

AtLeastZero(score) == IF score < 0 THEN 0 ELSE score

TaskCompletion(case, run) == IF run.status = case.expected_status THEN 1000 ELSE 0

\* A quarter for each expected tool missing, a fifth for each unexpected one.
ToolSelection(case, called) ==
  AtLeastZero(1000 - 250 * Cardinality(case.expected_tools \ called)
                   - 200 * Cardinality(case.unexpected_tools \cap called))

\* a of b, to the nearest thousandth.
Share(a, b) == (1000 * a + b \div 2) \div b

\* Mutant of AnswerQuality: no floor under the penalties.
AnswerQualityNoFloor(case, run) ==
  IF ~run.answered
  THEN IF case.expected_status = "completed" THEN 0 ELSE 1000
  ELSE (IF case.must = {} THEN 1000
        ELSE Share(Cardinality(case.must \cap run.words), Cardinality(case.must)))
       - 300 * Cardinality(case.must_not \cap run.words)

\* Mutant of AnswerQuality: an answer is asked of every run.
AnswerQualityAlways(case, run) ==
  IF ~run.answered \/ case.must = {} THEN 0
  ELSE Share(Cardinality(case.must \cap run.words), Cardinality(case.must))

\* The share of the keywords found, less 0.3 for each forbidden one.
AnswerQuality(case, run) ==
  IF ~run.answered
  THEN IF case.expected_status = "completed" THEN 0 ELSE 1000
  ELSE LET recall == IF case.must = {} THEN 1000
                     ELSE Share(Cardinality(case.must \cap run.words), Cardinality(case.must))
       IN AtLeastZero(recall - 300 * Cardinality(case.must_not \cap run.words))

CostEfficiency(case, run) ==
  IF run.cost <= case.max_cost THEN 1000
  ELSE IF run.cost <= 2 * case.max_cost THEN 500 ELSE 0

\* Linear between the threshold and twice the threshold, to the nearest thousandth.
LatencyScore(case, run) ==
  IF run.latency <= case.max_latency THEN 1000
  ELSE IF run.latency >= 2 * case.max_latency THEN 0
  ELSE Share(2 * case.max_latency - run.latency, case.max_latency)

\* A missed escalation is worse than a needless one.
EscalationAccuracy(case, run) ==
  LET expected == case.expected_status = "escalated"
      actual == run.status = "escalated"
  IN IF expected = actual THEN 1000 ELSE IF expected THEN 0 ELSE 300

------------------------------------------------------------------------------
Scores(case, run, called) ==
  [task_completion     |-> TaskCompletion(case, run),
   tool_selection      |-> ToolSelection(case, called),
   answer_quality      |-> AnswerQuality(case, run),
   cost_efficiency     |-> CostEfficiency(case, run),
   latency             |-> LatencyScore(case, run),
   escalation_accuracy |-> EscalationAccuracy(case, run)]

\* Mutant of Weight: the weight README.md gives the cost.
WeightDocumented ==
  [task_completion |-> 20, tool_selection |-> 15, answer_quality |-> 15,
   cost_efficiency |-> 5, latency |-> 5, escalation_accuracy |-> 15]

\* Scorer.weight and Scorer.hard_fail
Weight ==
  [task_completion |-> 20, tool_selection |-> 15, answer_quality |-> 15,
   cost_efficiency |-> 10, latency |-> 5, escalation_accuracy |-> 15]

HardFail == {"task_completion", "escalation_accuracy"}

Scorers == DOMAIN Weight

\* Over the six scorers.
AddUp(n) ==
  n.task_completion + n.tool_selection + n.answer_quality
    + n.cost_efficiency + n.latency + n.escalation_accuracy

TotalWeight == AddUp(Weight)
Weighted(scores) == AddUp([s \in Scorers |-> Weight[s] * scores[s]])

HardFailed(scores) == \E s \in HardFail : scores[s] = 0

\* EvalSuite.evaluate.  An error with a text means that there is no run to
\* score; called is the list of tools, in order.
Evaluate(case, run, called, error) ==
  LET scores == Scores(case, run, {called[i] : i \in DOMAIN called})
  IN IF error \notin {"none", ""}
     THEN [case_id |-> case.case_id, status |-> run.status, tools |-> <<>>,
           scores |-> <<>>, overall |-> 0, passed |-> FALSE, error |-> error]
     ELSE [case_id |-> case.case_id, status |-> run.status, tools |-> called,
           scores |-> scores,
           overall |-> (Weighted(scores) + TotalWeight \div 2) \div TotalWeight,
           passed |-> Weighted(scores) >= PassThreshold * TotalWeight /\ ~HardFailed(scores),
           error |-> "none"]
=============================================================================
