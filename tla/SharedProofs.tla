----------------------------- MODULE SharedProofs ------------------------------
(* Theorems about runs that share sessions and users, for any number of runs, *)
(* sessions, users and facts, and any replies of the memory service.          *)
EXTENDS SharedMemory, TLAPS

\* The run's first round is still to be written: its question and its fact are
\* not stored.
CanAsk(r) ==
  \/ stage[r] \in {"load_session", "load_facts", "write_turn"}
  \/ /\ stage[r] = "llm"
     /\ rounds[r] = 0
  \/ /\ stage[r] = "observe"
     /\ rounds[r] = 1

CanState(r) == CanAsk(r) \/ stage[r] = "write_fact"

CanAnswer(r) == stage[r] \notin {"audit", "cleanup", "returned", "raised"}

\* Where a run is agrees with its rounds; it stores a fact only after the test.
Placed(r) ==
  /\ stage[r] \in {"load_session", "load_facts"} => rounds[r] = 0
  /\ stage[r] = "observe" => rounds[r] > 0
  /\ stage[r] \in {"write_turn", "write_fact"} => rounds[r] = 1
  /\ stage[r] = "write_fact" => NewFact(r)

StageInv == \A r \in Run : Placed(r)

\* What is stored was written by a run that will not write it again.
AskedInv ==
  \A s \in Session, r \in Run : \A i \in 1..Len(sessions[s]) :
    /\ Has(sessions[s], i, "user", r) => ~CanAsk(r)
    /\ Has(sessions[s], i, "assistant", r) => ~CanAnswer(r)

StatedInv ==
  \A u \in User, r \in Run : \A i \in 1..Len(facts[u]) : facts[u][i].run = r => ~CanState(r)

\* A run knows the facts that were stored when it read them.
KnownInv ==
  \A r \in Run :
    /\ factsRead[r] <= Len(facts[UserOf[r]])
    /\ \A i \in 1..factsRead[r] : facts[UserOf[r]][i].fact \in known[r]

SharedInv ==
  /\ TypeOK /\ StageInv /\ AskedInv /\ StatedInv /\ KnownInv
  /\ TurnsOnceInOrder /\ RepeatsOnlyUnseen

------------------------------------------------------------------------------
(* Logs that grow.                                                            *)

\* A log is left as it is, or one record longer.
Grows(old, new, record) ==
  /\ Len(new) = Len(old) + 1
  /\ \A i \in 1..Len(old) : new[i] = old[i]
  /\ new[Len(old) + 1] = record

\* One log of several may have got a record.
Appended(K, old, new, key, record) ==
  /\ \A k \in K \ {key} : new[k] = old[k]
  /\ new[key] = old[key] \/ Grows(old[key], new[key], record)

LEMMA AppendIfGrows ==
  ASSUME NEW K, NEW S, NEW log \in [K -> Seq(S)], NEW key \in K, NEW record \in S, NEW reply
  PROVE  /\ AppendIf(reply, log, key, record) \in [K -> Seq(S)]
         /\ Appended(K, log, AppendIf(reply, log, key, record), key, record)
<1>1. CASE Applied(reply)
  <2>1. AppendIf(reply, log, key, record) = [log EXCEPT ![key] = Append(log[key], record)]
    BY <1>1 DEF AppendIf
  <2>2. log[key] \in Seq(S) /\ Append(log[key], record) \in Seq(S)
    OBVIOUS
  <2>3. Grows(log[key], Append(log[key], record), record)
    BY <2>2 DEF Grows
  <2> QED
    BY <2>1, <2>2, <2>3 DEF Appended
<1>2. CASE ~Applied(reply)
  BY <1>2 DEF AppendIf, Appended
<1> QED
  BY <1>1, <1>2

LEMMA WindowFits ==
  ASSUME NEW S, NEW log \in Seq(S)
  PROVE  /\ Window(log) \in Seq(S)
         /\ Len(Window(log)) <= LastN
         /\ \A i \in 1..Len(log) : Len(log) - i < LastN =>
              \E k \in 1..Len(Window(log)) : Window(log)[k] = log[i]
<1> DEFINE first == IF Len(log) <= LastN THEN 1 ELSE Len(log) - LastN + 1
<1>1. LastN \in Nat \ {0} /\ Len(log) \in Nat /\ first \in 1..(Len(log) + 1)
  BY SharedAssumption
<1>2. Window(log) = SubSeq(log, first, Len(log))
  BY DEF Window
<1>3. \A i \in first..Len(log) : i \in 1..Len(log) /\ log[i] \in S
  BY <1>1
<1> HIDE DEF first
<1>4. /\ Window(log) \in Seq(S)
      /\ Len(Window(log)) = Len(log) + 1 - first
      /\ \A k \in 1..(Len(log) + 1 - first) : Window(log)[k] = log[first + k - 1]
  BY <1>1, <1>2, <1>3
<1>5. Len(Window(log)) <= LastN
  BY <1>1, <1>4 DEF first
<1>6. ASSUME NEW i \in 1..Len(log), Len(log) - i < LastN
      PROVE  \E k \in 1..Len(Window(log)) : Window(log)[k] = log[i]
  <2>1. i - first + 1 \in 1..(Len(log) + 1 - first)
    BY <1>1, <1>6 DEF first
  <2>2. Window(log)[i - first + 1] = log[i]
    BY <1>1, <1>4, <2>1
  <2> QED
    BY <1>4, <2>1, <2>2
<1> QED
  BY <1>4, <1>5, <1>6

------------------------------------------------------------------------------
(* What one step of a run does, seen from the invariant.                      *)

\* Every step is one run's, and moves no other.
LEMMA OthersStay ==
  ASSUME TypeOK, NEW r \in Run, Step(r), NEW q \in Run \ {r}
  PROVE  /\ stage'[q] = stage[q] /\ rounds'[q] = rounds[q]
         /\ known'[q] = known[q] /\ factsRead'[q] = factsRead[q]
BY DEF TypeOK, RunTypeOK, Step, Load, Think, Record, PostRun, LoadSession, LoadFacts, UseTools,
   LeaveLoop, ObserveResult, FinishObserve, WriteTurn, WriteFact, StoreAnswer, WriteAudit,
   DeleteWorking, AfterLoad, AfterWrite, AfterPost, Goto

\* What a run has written it does not get to write again.
Progress(r) ==
  /\ CanAsk(r)' => CanAsk(r)
  /\ CanState(r)' => CanState(r)
  /\ CanAnswer(r)' => CanAnswer(r)

LEMMA LoadMoves ==
  ASSUME TypeOK, NEW r \in Run, Placed(r), Load(r)
  PROVE  /\ Placed(r)' /\ Progress(r)
         /\ CanAsk(r) /\ UNCHANGED storeVars
<1>1. /\ stage[r] \in {"load_session", "load_facts"} /\ rounds[r] = 0 /\ rounds' = rounds
      /\ \E reply, next : next \in {"load_facts", "llm"} /\ AfterLoad(r, reply, next)
      /\ UNCHANGED storeVars
  BY DEF Load, LoadSession, LoadFacts, Placed
<1>2. stage'[r] \in {"load_facts", "llm", "answer"}
  BY <1>1 DEF AfterLoad, Goto, TypeOK, RunTypeOK
<1> QED
  BY <1>1, <1>2 DEF Placed, Progress, CanAsk, CanState, CanAnswer

LEMMA ThinkMoves ==
  ASSUME TypeOK, NEW r \in Run, Placed(r), Think(r)
  PROVE  /\ Placed(r)' /\ Progress(r)
         /\ UNCHANGED <<known, factsRead, storeVars>>
<1>0. /\ stage \in [Run -> Stage] /\ rounds \in [Run -> 0..MaxRounds] /\ MaxRounds \in Nat
      /\ rounds[r] \in Nat
  BY SharedAssumption DEF TypeOK, RunTypeOK
<1>1. CASE UseTools(r)
  <2>1. /\ stage[r] = "llm" /\ stage'[r] = "observe" /\ rounds'[r] = rounds[r] + 1
        /\ UNCHANGED <<known, factsRead, storeVars>>
    BY <1>0, <1>1 DEF UseTools, Goto
  <2> QED
    BY <1>0, <2>1 DEF Placed, Progress, CanAsk, CanState, CanAnswer
<1>2. CASE LeaveLoop(r)
  <2>1. /\ stage[r] = "llm" /\ stage'[r] = "answer" /\ rounds' = rounds
        /\ UNCHANGED <<known, factsRead, storeVars>>
    BY <1>0, <1>2 DEF LeaveLoop, Goto
  <2> QED
    BY <2>1 DEF Placed, Progress, CanAsk, CanState, CanAnswer
<1> QED
  BY <1>1, <1>2 DEF Think

LEMMA RecordMoves ==
  ASSUME TypeOK, NEW r \in Run, Placed(r), Record(r)
  PROVE  /\ Placed(r)' /\ Progress(r)
         /\ UNCHANGED <<known, factsRead>>
         /\ sessions' = sessions \/ (WriteTurn(r) /\ CanAsk(r) /\ CanAnswer(r) /\ ~CanAsk(r)')
         /\ facts' = facts \/ (WriteFact(r) /\ CanState(r) /\ ~CanState(r)' /\ NewFact(r))
<1>0. stage \in [Run -> Stage] /\ rounds \in [Run -> 0..MaxRounds] /\ rounds[r] \in Int
  BY SharedAssumption DEF TypeOK, RunTypeOK
<1>1. CASE ObserveResult(r)
  <2>1. /\ stage[r] = "observe" /\ stage'[r] \in {"observe", "answer"} /\ rounds' = rounds
        /\ UNCHANGED <<known, factsRead, sessions, facts>>
    BY <1>0, <1>1 DEF ObserveResult, Goto
  <2> QED
    BY <2>1 DEF Placed, Progress, CanAsk, CanState, CanAnswer
<1>2. CASE FinishObserve(r)
  <2>1. /\ stage[r] = "observe" /\ rounds' = rounds
        /\ stage'[r] = IF rounds[r] = 1 THEN "write_turn" ELSE "llm"
        /\ UNCHANGED <<known, factsRead, sessions, facts>>
    BY <1>0, <1>2 DEF FinishObserve, Goto, storeVars
  <2> QED
    BY <2>1, <1>0 DEF Placed, Progress, CanAsk, CanState, CanAnswer
<1>3. CASE WriteTurn(r)
  <2>1. /\ stage[r] = "write_turn" /\ rounds' = rounds /\ rounds[r] = 1
        /\ stage'[r] \in {"llm", "answer"} \/ (stage'[r] = "write_fact" /\ NewFact(r))
        /\ UNCHANGED <<known, factsRead, facts>>
    BY <1>0, <1>3 DEF WriteTurn, AfterWrite, Goto, Placed
  <2>2. NewFact(r)' <=> NewFact(r)
    BY <2>1 DEF NewFact
  <2> QED
    BY <2>1, <2>2, <1>3 DEF Placed, Progress, CanAsk, CanState, CanAnswer
<1>4. CASE WriteFact(r)
  <2>1. /\ stage[r] = "write_fact" /\ rounds' = rounds /\ rounds[r] = 1 /\ NewFact(r)
        /\ stage'[r] \in {"llm", "answer"}
        /\ UNCHANGED <<known, factsRead, sessions>>
    BY <1>0, <1>4 DEF WriteFact, AfterWrite, Goto, Placed
  <2> QED
    BY <2>1, <1>4 DEF Placed, Progress, CanAsk, CanState, CanAnswer
<1> QED
  BY <1>1, <1>2, <1>3, <1>4 DEF Record

LEMMA PostRunMoves ==
  ASSUME TypeOK, NEW r \in Run, PostRun(r)
  PROVE  /\ Placed(r)' /\ Progress(r)
         /\ UNCHANGED <<known, factsRead, facts>>
         /\ sessions' = sessions \/ (StoreAnswer(r) /\ CanAnswer(r) /\ ~CanAsk(r) /\ ~CanAnswer(r)')
<1>0. stage \in [Run -> Stage]
  BY DEF TypeOK, RunTypeOK
<1>1. CASE StoreAnswer(r)
  <2>1. /\ stage[r] = "answer" /\ stage'[r] \in {"raised", "audit"}
        /\ UNCHANGED <<known, factsRead, facts>>
    BY <1>0, <1>1 DEF StoreAnswer, AfterPost, Goto
  <2> QED
    BY <2>1, <1>1 DEF Placed, Progress, CanAsk, CanState, CanAnswer
<1>2. CASE WriteAudit(r)
  <2>1. /\ stage[r] = "audit" /\ stage'[r] \in {"raised", "cleanup"}
        /\ UNCHANGED <<known, factsRead, facts, sessions>>
    BY <1>0, <1>2 DEF WriteAudit, AfterPost, Goto, storeVars
  <2> QED
    BY <2>1 DEF Placed, Progress, CanAsk, CanState, CanAnswer
<1>3. CASE DeleteWorking(r)
  <2>1. /\ stage[r] = "cleanup" /\ stage'[r] \in {"raised", "returned"}
        /\ UNCHANGED <<known, factsRead, facts, sessions>>
    BY <1>0, <1>3 DEF DeleteWorking, AfterPost, Goto
  <2> QED
    BY <2>1 DEF Placed, Progress, CanAsk, CanState, CanAnswer
<1> QED
  BY <1>1, <1>2, <1>3 DEF PostRun

------------------------------------------------------------------------------
(* The invariant is preserved.                                                *)

LEMMA LoadTypes ==
  ASSUME TypeOK, NEW r \in Run, Load(r)
  PROVE  TypeOK'
<1>0. /\ stage \in [Run -> Stage] /\ SessionOf[r] \in Session /\ UserOf[r] \in User
      /\ sessions[SessionOf[r]] \in Seq(Turn) /\ facts[UserOf[r]] \in Seq(Stored)
  BY SharedAssumption DEF TypeOK, RunTypeOK, StoreTypeOK
<1>1. CASE LoadSession(r)
  <2> PICK reply \in Replies :
        /\ window' = IF reply = "ok" THEN [window EXCEPT ![r] = Window(sessions[SessionOf[r]])]
                     ELSE window
        /\ AfterLoad(r, reply, "load_facts")
    BY <1>1 DEF LoadSession
  <2>1. Window(sessions[SessionOf[r]]) \in Seq(Turn) /\ Len(Window(sessions[SessionOf[r]])) <= LastN
    BY <1>0, WindowFits
  <2>2. window' \in [Run -> Seq(Turn)] /\ \A q \in Run : Len(window'[q]) <= LastN
    BY <2>1 DEF TypeOK, RunTypeOK
  <2>3. stage' \in [Run -> Stage]
    BY <1>0 DEF AfterLoad, Goto, Stage
  <2> QED
    BY <1>1, <2>2, <2>3 DEF LoadSession, TypeOK, RunTypeOK, StoreTypeOK, storeVars
<1>2. CASE LoadFacts(r)
  <2> DEFINE log == facts[UserOf[r]]
  <2>1. /\ {log[i].fact : i \in 1..Len(log)} \in SUBSET Fact
        /\ Len(log) \in Nat
    <3> SUFFICES ASSUME NEW i \in 1..Len(log) PROVE log[i].fact \in Fact
      BY <1>0
    <3>1. log[i] \in Stored
      BY <1>0
    <3> QED
      BY <3>1 DEF Stored
  <2>2. known' \in [Run -> SUBSET Fact] /\ factsRead' \in [Run -> Nat]
    BY <1>2, <2>1 DEF LoadFacts, TypeOK, RunTypeOK
  <2>3. stage' \in [Run -> Stage]
    BY <1>0, <1>2 DEF LoadFacts, AfterLoad, Goto, Stage
  <2> QED
    BY <1>2, <2>2, <2>3 DEF LoadFacts, TypeOK, RunTypeOK, StoreTypeOK, storeVars
<1> QED
  BY <1>1, <1>2 DEF Load

LEMMA ThinkTypes ==
  ASSUME TypeOK, NEW r \in Run, Think(r)
  PROVE  TypeOK'
<1>0. /\ stage \in [Run -> Stage] /\ rounds \in [Run -> 0..MaxRounds]
      /\ pending \in [Run -> 0..MaxResults] /\ answered \in [Run -> BOOLEAN]
      /\ MaxRounds \in Nat /\ MaxResults \in Nat
  BY SharedAssumption DEF TypeOK, RunTypeOK
<1>1. stage' \in [Run -> Stage]
  BY <1>0 DEF Think, UseTools, LeaveLoop, Goto, Stage
<1>2. rounds' \in [Run -> 0..MaxRounds]
  BY <1>0 DEF Think, UseTools, LeaveLoop
<1>3. pending' \in [Run -> 0..MaxResults]
  BY <1>0 DEF Think, UseTools, LeaveLoop
<1>4. answered' \in [Run -> BOOLEAN]
  BY <1>0 DEF Think, UseTools, LeaveLoop
<1>5. UNCHANGED <<window, known, factsRead, sessions, facts, working>>
  BY DEF Think, UseTools, LeaveLoop, storeVars
<1> QED
  BY <1>1, <1>2, <1>3, <1>4, <1>5 DEF TypeOK, RunTypeOK, StoreTypeOK

LEMMA RecordTypes ==
  ASSUME TypeOK, NEW r \in Run, Placed(r), Record(r)
  PROVE  TypeOK'
<1>0. /\ stage \in [Run -> Stage] /\ pending \in [Run -> 0..MaxResults] /\ MaxResults \in Nat
      /\ sessions \in [Session -> Seq(Turn)] /\ facts \in [User -> Seq(Stored)]
      /\ working \in [Run -> Seq(Run)]
      /\ SessionOf[r] \in Session /\ UserOf[r] \in User /\ FactOf[r] \in Fact \cup {None}
  BY SharedAssumption DEF TypeOK, RunTypeOK, StoreTypeOK
<1>1. stage' \in [Run -> Stage]
  BY <1>0 DEF Record, ObserveResult, FinishObserve, WriteTurn, WriteFact, AfterWrite, Goto, Stage
<1>2. pending' \in [Run -> 0..MaxResults]
  BY <1>0 DEF Record, ObserveResult, FinishObserve, WriteTurn, WriteFact
<1>3. working' \in [Run -> Seq(Run)]
  <2>1. CASE ObserveResult(r)
    <3> PICK reply \in Replies : working' = AppendIf(reply, working, r, r)
      BY <2>1 DEF ObserveResult, WorkingNs
    <3> QED
      BY <1>0, AppendIfGrows
  <2> QED
    BY <1>0, <2>1 DEF Record, FinishObserve, WriteTurn, WriteFact, storeVars
<1>4. sessions' \in [Session -> Seq(Turn)]
  <2>1. CASE WriteTurn(r)
    <3> DEFINE turn == [role |-> "user", run |-> r]
    <3> PICK reply \in Replies : sessions' = AppendIf(reply, sessions, SessionOf[r], turn)
      BY <2>1 DEF WriteTurn
    <3>1. turn \in Turn
      BY DEF Turn, Role
    <3> HIDE DEF turn
    <3> QED
      BY <1>0, <3>1, AppendIfGrows
  <2> QED
    BY <1>0, <2>1 DEF Record, FinishObserve, ObserveResult, WriteFact, storeVars
<1>5. facts' \in [User -> Seq(Stored)]
  <2>1. CASE WriteFact(r)
    <3> DEFINE stated == [fact |-> FactOf[r], run |-> r]
    <3> PICK reply \in Replies : facts' = AppendIf(reply, facts, UserOf[r], stated)
      BY <2>1 DEF WriteFact
    <3>1. stated \in Stored
      BY <1>0, <2>1 DEF Stored, WriteFact, Placed, NewFact
    <3> HIDE DEF stated
    <3> QED
      BY <1>0, <3>1, AppendIfGrows
  <2> QED
    BY <1>0, <2>1 DEF Record, FinishObserve, ObserveResult, WriteTurn, storeVars
<1>6. UNCHANGED <<rounds, window, known, answered, factsRead>>
  BY DEF Record, ObserveResult, FinishObserve, WriteTurn, WriteFact
<1> QED
  BY <1>1, <1>2, <1>3, <1>4, <1>5, <1>6 DEF TypeOK, RunTypeOK, StoreTypeOK

LEMMA PostRunTypes ==
  ASSUME TypeOK, NEW r \in Run, PostRun(r)
  PROVE  TypeOK'
<1>0. /\ stage \in [Run -> Stage] /\ SessionOf[r] \in Session
      /\ sessions \in [Session -> Seq(Turn)] /\ working \in [Run -> Seq(Run)]
  BY SharedAssumption DEF TypeOK, RunTypeOK, StoreTypeOK
<1>1. stage' \in [Run -> Stage]
  BY <1>0 DEF PostRun, StoreAnswer, WriteAudit, DeleteWorking, AfterPost, Goto, Stage
<1>2. sessions' \in [Session -> Seq(Turn)]
  <2>1. CASE StoreAnswer(r) /\ answered[r]
    <3> DEFINE turn == [role |-> "assistant", run |-> r]
    <3> PICK reply \in Replies : sessions' = AppendIf(reply, sessions, SessionOf[r], turn)
      BY <2>1 DEF StoreAnswer
    <3>1. turn \in Turn
      BY DEF Turn, Role
    <3> HIDE DEF turn
    <3> QED
      BY <1>0, <3>1, AppendIfGrows
  <2> QED
    BY <1>0, <2>1 DEF PostRun, StoreAnswer, WriteAudit, DeleteWorking, storeVars
<1>3. working' \in [Run -> Seq(Run)]
  <2>1. CASE DeleteWorking(r)
    <3>1. <<>> \in Seq(Run)
      OBVIOUS
    <3>2. working' = [working EXCEPT ![r] = <<>>] \/ working' = working
      BY <2>1 DEF DeleteWorking, WorkingNs
    <3> QED
      BY <1>0, <3>1, <3>2
  <2> QED
    BY <1>0, <2>1 DEF PostRun, StoreAnswer, WriteAudit, storeVars
<1>4. UNCHANGED <<rounds, pending, window, known, answered, factsRead, facts>>
  BY DEF PostRun, StoreAnswer, WriteAudit, DeleteWorking, storeVars
<1> QED
  BY <1>1, <1>2, <1>3, <1>4 DEF TypeOK, RunTypeOK, StoreTypeOK

LEMMA StepTypes ==
  ASSUME TypeOK, NEW r \in Run, Placed(r), Step(r)
  PROVE  TypeOK'
BY LoadTypes, ThinkTypes, RecordTypes, PostRunTypes DEF Step

LEMMA StagesAgree ==
  ASSUME TypeOK, StageInv, NEW r \in Run, Step(r)
  PROVE  StageInv' /\ Progress(r)
<1>1. Placed(r) /\ \A q \in Run : Placed(q)
  BY DEF StageInv
<1>2. Placed(r)' /\ Progress(r)
  BY <1>1, LoadMoves, ThinkMoves, RecordMoves, PostRunMoves DEF Step
<1>3. \A q \in Run \ {r} : Placed(q)'
  BY <1>1, OthersStay DEF Placed, NewFact
<1> QED
  BY <1>2, <1>3 DEF StageInv

\* The session log of a run gets its question or its answer, no other log gets any.
SessionStep(r) ==
  /\ \A s \in Session \ {SessionOf[r]} : sessions'[s] = sessions[s]
  /\ \/ sessions'[SessionOf[r]] = sessions[SessionOf[r]]
     \/ /\ Grows(sessions[SessionOf[r]], sessions'[SessionOf[r]], [role |-> "user", run |-> r])
        /\ CanAsk(r) /\ CanAnswer(r) /\ ~CanAsk(r)'
     \/ /\ Grows(sessions[SessionOf[r]], sessions'[SessionOf[r]], [role |-> "assistant", run |-> r])
        /\ CanAnswer(r) /\ ~CanAsk(r)' /\ ~CanAnswer(r)'

LEMMA SessionSteps ==
  ASSUME TypeOK, NEW r \in Run, Placed(r), Step(r)
  PROVE  SessionStep(r)
<1>0. sessions \in [Session -> Seq(Turn)] /\ SessionOf[r] \in Session
  BY SharedAssumption DEF TypeOK, StoreTypeOK
<1>1. ASSUME NEW role \in Role, NEW reply,
             sessions' = AppendIf(reply, sessions, SessionOf[r], [role |-> role, run |-> r])
      PROVE  Appended(Session, sessions, sessions', SessionOf[r], [role |-> role, run |-> r])
  <2>1. [role |-> role, run |-> r] \in Turn
    BY DEF Turn
  <2> QED
    BY <1>0, <1>1, <2>1, AppendIfGrows
<1>2. CASE sessions' = sessions
  BY <1>2 DEF SessionStep
<1>3. CASE WriteTurn(r)
  <2> PICK reply \in Replies :
        sessions' = AppendIf(reply, sessions, SessionOf[r], [role |-> "user", run |-> r])
    BY <1>3 DEF WriteTurn
  <2>1. "user" \in Role /\ Record(r)
    BY <1>3 DEF Role, Record
  <2>2. (CanAsk(r) /\ CanAnswer(r) /\ ~CanAsk(r)') \/ sessions' = sessions
    BY <2>1, RecordMoves
  <2> QED
    BY <1>1, <1>2, <2>1, <2>2 DEF SessionStep, Appended
<1>4. CASE StoreAnswer(r) /\ answered[r]
  <2> PICK reply \in Replies :
        sessions' = AppendIf(reply, sessions, SessionOf[r], [role |-> "assistant", run |-> r])
    BY <1>4 DEF StoreAnswer
  <2>1. "assistant" \in Role /\ PostRun(r)
    BY <1>4 DEF Role, PostRun
  <2>2. (CanAnswer(r) /\ ~CanAsk(r) /\ ~CanAnswer(r)') \/ sessions' = sessions
    BY <2>1, PostRunMoves
  <2>3. Progress(r)
    BY <2>1, PostRunMoves
  <2> QED
    BY <1>1, <1>2, <2>1, <2>2, <2>3 DEF SessionStep, Progress, Appended
<1>5. Step(r) => sessions' = sessions \/ WriteTurn(r) \/ (StoreAnswer(r) /\ answered[r])
  BY DEF Step, Load, Think, Record, PostRun, LoadSession, LoadFacts, UseTools, LeaveLoop,
     ObserveResult, FinishObserve, WriteFact, StoreAnswer, WriteAudit, DeleteWorking, storeVars
<1> QED
  BY <1>2, <1>3, <1>4, <1>5

\* TurnsOnceInOrder of one session.
Orderly(log) ==
  \A r \in Run :
    /\ \A i, j \in 1..Len(log) : log[i] = log[j] /\ log[i].run = r => i = j
    /\ \A i, j \in 1..Len(log) : Has(log, i, "user", r) /\ Has(log, j, "assistant", r) => i < j

\* A log stays orderly when a run adds its question to it first, its answer once.
LEMMA OrderlyGrows ==
  ASSUME NEW old \in Seq(Turn), NEW new \in Seq(Turn), NEW role \in Role, NEW q \in Run,
         Grows(old, new, [role |-> role, run |-> q]), Orderly(old),
         \A i \in 1..Len(old) : ~Has(old, i, "assistant", q),
         role = "user" => \A i \in 1..Len(old) : ~Has(old, i, "user", q)
  PROVE  Orderly(new)
<1>1. /\ Len(old) \in Nat /\ Len(new) = Len(old) + 1
      /\ \A i \in 1..Len(old) : new[i] = old[i]
      /\ new[Len(old) + 1] = [role |-> role, run |-> q]
  BY DEF Grows
<1>2. \A i \in 1..Len(old) : new[i] # [role |-> role, run |-> q]
  BY <1>1 DEF Has, Role
<1> SUFFICES ASSUME NEW r \in Run, NEW i \in 1..Len(new), NEW j \in 1..Len(new)
             PROVE  /\ new[i] = new[j] => i = j
                    /\ Has(new, i, "user", r) /\ Has(new, j, "assistant", r) => i < j
  BY DEF Orderly
<1>3. CASE i \in 1..Len(old) /\ j \in 1..Len(old)
  <2>1. old[i] \in Turn /\ new[i] = old[i] /\ new[j] = old[j]
    BY <1>1, <1>3
  <2>2. old[i].run \in Run
    BY <2>1 DEF Turn
  <2>3. old[i] = old[j] => i = j
    BY <1>3, <2>2 DEF Orderly
  <2>4. Has(old, i, "user", r) /\ Has(old, j, "assistant", r) => i < j
    BY <1>3 DEF Orderly
  <2> QED
    BY <2>1, <2>3, <2>4 DEF Has
<1>4. CASE i = Len(old) + 1 /\ j = Len(old) + 1
  <2>1. Has(new, i, "user", r) => new[i].role = "user"
    BY DEF Has
  <2>2. Has(new, j, "assistant", r) => new[j].role = "assistant"
    BY DEF Has
  <2> QED
    BY <1>4, <2>1, <2>2
<1>5. CASE i \in 1..Len(old) /\ j = Len(old) + 1
  BY <1>1, <1>2, <1>5
<1>6. CASE i = Len(old) + 1 /\ j \in 1..Len(old)
  <2>1. new[i] # new[j]
    BY <1>1, <1>2, <1>6
  <2>2. ASSUME Has(new, i, "user", r), Has(new, j, "assistant", r) PROVE FALSE
    <3>1. r = q
      BY <1>1, <1>6, <2>2 DEF Has
    <3>2. Has(old, j, "assistant", q)
      BY <1>1, <1>6, <2>2, <3>1 DEF Has
    <3> QED
      BY <1>6, <3>2
  <2> QED
    BY <2>1, <2>2
<1> QED
  BY <1>1, <1>3, <1>4, <1>5, <1>6

\* A session's turns stay in order and without repetition.
LEMMA TurnsStay ==
  ASSUME TypeOK, TypeOK', AskedInv, TurnsOnceInOrder, NEW r \in Run, SessionStep(r), Progress(r),
         \A q \in Run \ {r} : stage'[q] = stage[q] /\ rounds'[q] = rounds[q]
  PROVE  AskedInv' /\ TurnsOnceInOrder'
<1>1. \A q \in Run : (CanAsk(q)' => CanAsk(q)) /\ (CanAnswer(q)' => CanAnswer(q))
  BY DEF Progress, CanAsk, CanAnswer
<1> DEFINE Asked(s) ==
      \A q \in Run : \A i \in 1..Len(sessions'[s]) :
        /\ Has(sessions'[s], i, "user", q) => ~CanAsk(q)'
        /\ Has(sessions'[s], i, "assistant", q) => ~CanAnswer(q)'
<1>2. SUFFICES ASSUME NEW s \in Session PROVE Asked(s) /\ Orderly(sessions'[s])
  BY DEF AskedInv, TurnsOnceInOrder, Orderly, Has
<1>3. /\ sessions[s] \in Seq(Turn) /\ sessions'[s] \in Seq(Turn) /\ Orderly(sessions[s])
      /\ \A q \in Run : \A i \in 1..Len(sessions[s]) :
           /\ Has(sessions[s], i, "user", q) => ~CanAsk(q)
           /\ Has(sessions[s], i, "assistant", q) => ~CanAnswer(q)
  BY DEF TypeOK, StoreTypeOK, TurnsOnceInOrder, Orderly, AskedInv
<1>4. CASE sessions'[s] = sessions[s]
  BY <1>1, <1>3, <1>4
<1>5. ASSUME NEW role \in Role, s = SessionOf[r],
             Grows(sessions[s], sessions'[s], [role |-> role, run |-> r]),
             CanAnswer(r), ~CanAsk(r)', role = "user" => CanAsk(r),
             role = "assistant" => ~CanAnswer(r)'
      PROVE  Asked(s) /\ Orderly(sessions'[s])
  <2>1. Orderly(sessions'[s])
    BY <1>3, <1>5, OrderlyGrows
  <2>2. ASSUME NEW q \in Run, NEW i \in 1..Len(sessions'[s])
        PROVE  /\ Has(sessions'[s], i, "user", q) => ~CanAsk(q)'
               /\ Has(sessions'[s], i, "assistant", q) => ~CanAnswer(q)'
    <3>1. CASE i \in 1..Len(sessions[s])
      <4>1. sessions'[s][i] = sessions[s][i]
        BY <1>5, <3>1 DEF Grows
      <4> QED
        BY <1>1, <1>3, <3>1, <4>1 DEF Has
    <3>2. CASE i = Len(sessions[s]) + 1
      <4>1. sessions'[s][i] = [role |-> role, run |-> r]
        BY <1>5, <3>2 DEF Grows
      <4> QED
        BY <1>5, <4>1 DEF Has
    <3> QED
      BY <1>3, <1>5, <3>1, <3>2 DEF Grows
  <2> QED
    BY <2>1, <2>2
<1>6. "user" \in Role /\ "assistant" \in Role
  BY DEF Role
<1> HIDE DEF Asked
<1> QED
  BY <1>4, <1>5, <1>6 DEF SessionStep

\* What a run has read of its user's facts stays as it was, and at most one fact is added.
LEMMA FactSteps ==
  ASSUME TypeOK, NEW r \in Run, Placed(r), Step(r)
  PROVE  \/ UNCHANGED <<facts, known, factsRead>>
         \/ /\ LoadFacts(r) /\ facts' = facts /\ CanState(r)
            /\ UNCHANGED <<known, factsRead>>
               \/ /\ known' = [known EXCEPT ![r] = {facts[UserOf[r]][i].fact :
                                                    i \in 1..Len(facts[UserOf[r]])}]
                  /\ factsRead' = [factsRead EXCEPT ![r] = Len(facts[UserOf[r]])]
         \/ /\ Appended(User, facts, facts', UserOf[r], [fact |-> FactOf[r], run |-> r])
            /\ CanState(r) /\ ~CanState(r)' /\ NewFact(r)
            /\ UNCHANGED <<known, factsRead>>
<1>0. facts \in [User -> Seq(Stored)] /\ UserOf[r] \in User /\ FactOf[r] \in Fact \cup {None}
  BY SharedAssumption DEF TypeOK, StoreTypeOK
<1>1. CASE Load(r)
  <2>1. CanAsk(r) /\ facts' = facts
    BY <1>1, LoadMoves DEF storeVars
  <2>2. CASE LoadSession(r)
    BY <2>1, <2>2 DEF LoadSession
  <2>3. CASE LoadFacts(r)
    <3> PICK reply \in Replies :
          IF reply = "ok"
          THEN LET log == facts[UserOf[r]] IN
               /\ known' = [known EXCEPT ![r] = {log[i].fact : i \in 1..Len(log)}]
               /\ factsRead' = [factsRead EXCEPT ![r] = Len(log)]
          ELSE UNCHANGED <<known, factsRead>>
      BY <2>3 DEF LoadFacts
    <3> QED
      BY <2>1, <2>3 DEF CanState
  <2> QED
    BY <1>1, <2>2, <2>3 DEF Load
<1>2. CASE Think(r)
  BY <1>2, ThinkMoves DEF storeVars
<1>3. CASE Record(r)
  <2>1. /\ UNCHANGED <<known, factsRead>>
        /\ facts' = facts \/ (WriteFact(r) /\ CanState(r) /\ ~CanState(r)' /\ NewFact(r))
    BY <1>3, RecordMoves
  <2>2. CASE facts' # facts
    <3> PICK reply \in Replies :
          facts' = AppendIf(reply, facts, UserOf[r], [fact |-> FactOf[r], run |-> r])
      BY <2>1, <2>2 DEF WriteFact
    <3>1. [fact |-> FactOf[r], run |-> r] \in Stored
      BY <1>0, <2>1, <2>2 DEF NewFact, Stored
    <3>2. Appended(User, facts, facts', UserOf[r], [fact |-> FactOf[r], run |-> r])
      BY <1>0, <3>1, AppendIfGrows
    <3> QED
      BY <2>1, <2>2, <3>2
  <2> QED
    BY <2>1, <2>2
<1>4. CASE PostRun(r)
  BY <1>4, PostRunMoves
<1> QED
  BY <1>1, <1>2, <1>3, <1>4 DEF Step

\* The second copy of a fact is of a run that could not see the first.
LEMMA FactsStay ==
  ASSUME TypeOK, TypeOK', StatedInv, KnownInv, RepeatsOnlyUnseen,
         NEW r \in Run, Placed(r), Step(r), Progress(r)
  PROVE  StatedInv' /\ KnownInv' /\ RepeatsOnlyUnseen'
<1>0. /\ facts \in [User -> Seq(Stored)] /\ facts' \in [User -> Seq(Stored)]
      /\ UserOf \in [Run -> User]
      /\ known \in [Run -> SUBSET Fact] /\ factsRead \in [Run -> Nat]
  BY SharedAssumption DEF TypeOK, RunTypeOK, StoreTypeOK
<1>1. \A q \in Run : CanState(q)' => CanState(q)
  BY OthersStay DEF Progress, CanState, CanAsk
<1>2. CASE UNCHANGED <<facts, known, factsRead>>
  BY <1>1, <1>2 DEF StatedInv, KnownInv, RepeatsOnlyUnseen
<1>3. CASE /\ CanState(r) /\ facts' = facts
           /\ known' = [known EXCEPT ![r] = {facts[UserOf[r]][i].fact :
                                             i \in 1..Len(facts[UserOf[r]])}]
           /\ factsRead' = [factsRead EXCEPT ![r] = Len(facts[UserOf[r]])]
  <2>1. StatedInv'
    BY <1>1, <1>3 DEF StatedInv
  <2>2. \A q \in Run \ {r} : factsRead'[q] = factsRead[q] /\ known'[q] = known[q]
    BY <1>0, <1>3
  <2>3. /\ factsRead'[r] = Len(facts[UserOf[r]])
        /\ known'[r] = {facts[UserOf[r]][i].fact : i \in 1..Len(facts[UserOf[r]])}
    BY <1>0, <1>3
  <2>4. KnownInv'
    BY <1>0, <1>3, <2>2, <2>3 DEF KnownInv
  <2>5. \A u \in User : \A j \in 1..Len(facts[u]) : facts[u][j].run \in Run \ {r}
    <3> SUFFICES ASSUME NEW u \in User, NEW j \in 1..Len(facts[u])
                 PROVE  facts[u][j].run \in Run \ {r}
      OBVIOUS
    <3>1. facts[u][j] \in Stored
      BY <1>0
    <3> QED
      BY <1>3, <3>1 DEF StatedInv, Stored
  <2>6. RepeatsOnlyUnseen'
    BY <1>3, <2>2, <2>5 DEF RepeatsOnlyUnseen
  <2> QED
    BY <2>1, <2>4, <2>6
<1>4. CASE /\ Appended(User, facts, facts', UserOf[r], [fact |-> FactOf[r], run |-> r])
           /\ CanState(r) /\ ~CanState(r)' /\ NewFact(r)
           /\ UNCHANGED <<known, factsRead>>
  <2> DEFINE u == UserOf[r]
  <2>1. \A v \in User : facts'[v] = facts[v] \/ (v = u /\ Grows(facts[u], facts'[u], [fact |-> FactOf[r], run |-> r]))
    BY <1>4 DEF Appended
  <2>2. CASE facts'[u] = facts[u]
    <3>1. \A v \in User : facts'[v] = facts[v]
      BY <2>1, <2>2
    <3>2. facts' = facts
      BY <1>0, <3>1
    <3> QED
      BY <1>2, <1>4, <3>2
  <2>3. CASE Grows(facts[u], facts'[u], [fact |-> FactOf[r], run |-> r])
    <3> DEFINE n == Len(facts[u])
    <3>1. /\ n \in Nat /\ Len(facts'[u]) = n + 1 /\ u \in User
          /\ \A i \in 1..n : facts'[u][i] = facts[u][i]
          /\ facts'[u][n + 1].fact = FactOf[r] /\ facts'[u][n + 1].run = r
          /\ \A v \in User \ {u} : facts'[v] = facts[v]
      BY <1>0, <1>4, <2>3 DEF Grows, Appended
    <3> HIDE DEF n, u
    <3>2. StatedInv'
      <4> SUFFICES ASSUME NEW v \in User, NEW q \in Run, NEW i \in 1..Len(facts'[v]),
                          facts'[v][i].run = q
                   PROVE  ~CanState(q)'
        BY DEF StatedInv
      <4>1. CASE v = u /\ i = n + 1
        BY <1>4, <3>1, <4>1
      <4>2. CASE ~(v = u /\ i = n + 1)
        <5>1. i \in 1..Len(facts[v]) /\ facts'[v][i] = facts[v][i]
          BY <3>1, <4>2 DEF n, u
        <5> QED
          BY <1>1, <5>1 DEF StatedInv
      <4> QED
        BY <4>1, <4>2
    <3>3. KnownInv'
      <4> SUFFICES ASSUME NEW q \in Run
                   PROVE  /\ factsRead[q] <= Len(facts'[UserOf[q]])
                          /\ \A i \in 1..factsRead[q] : facts'[UserOf[q]][i].fact \in known[q]
        BY <1>4 DEF KnownInv
      <4>1. /\ factsRead[q] \in Nat /\ UserOf[q] \in User /\ factsRead[q] <= Len(facts[UserOf[q]])
            /\ \A i \in 1..factsRead[q] : facts[UserOf[q]][i].fact \in known[q]
        BY <1>0 DEF KnownInv
      <4>2. CASE UserOf[q] = u
        <5>1. Len(facts[u]) = n
          BY DEF n
        <5>2. factsRead[q] <= n /\ \A i \in 1..factsRead[q] : facts[u][i].fact \in known[q]
          BY <4>1, <4>2, <5>1
        <5>3. \A i \in 1..factsRead[q] : facts'[u][i].fact \in known[q]
          BY <3>1, <4>1, <5>2
        <5> QED
          BY <3>1, <4>1, <4>2, <5>2, <5>3
      <4>3. CASE UserOf[q] # u
        BY <3>1, <4>1, <4>3
      <4> QED
        BY <4>2, <4>3
    <3>4. RepeatsOnlyUnseen'
      <4> SUFFICES ASSUME NEW v \in User, NEW i \in 1..Len(facts'[v]), NEW j \in 1..Len(facts'[v]),
                          i < j, facts'[v][i].fact = facts'[v][j].fact
                   PROVE  /\ facts'[v][i].run # facts'[v][j].run
                          /\ factsRead[facts'[v][j].run] < i
        BY <1>4 DEF RepeatsOnlyUnseen
      <4>1. CASE v = u /\ j = n + 1
        <5>1. i \in 1..n /\ facts'[u][i] = facts[u][i] /\ facts[u][i].fact = FactOf[r]
          BY <3>1, <4>1
        <5>2. facts[u][i].run # r
          BY <1>4, <3>1, <5>1 DEF StatedInv, n
        <5>3. factsRead[r] \in Nat /\ \A k \in 1..factsRead[r] : facts[u][k].fact \in known[r]
          BY <1>0 DEF KnownInv, u
        <5>4. FactOf[r] \notin known[r]
          BY <1>4 DEF NewFact
        <5>5. factsRead[r] < i
          BY <3>1, <5>1, <5>3, <5>4
        <5> QED
          BY <3>1, <4>1, <5>1, <5>2, <5>5
      <4>2. CASE ~(v = u /\ j = n + 1)
        <5>1. /\ i \in 1..Len(facts[v]) /\ facts'[v][i] = facts[v][i]
              /\ j \in 1..Len(facts[v]) /\ facts'[v][j] = facts[v][j]
          <6>1. CASE v # u
            BY <3>1, <6>1
          <6>2. CASE v = u
            <7>1. Len(facts[u]) = n /\ j # n + 1
              BY <4>2, <6>2 DEF n
            <7>2. i \in 1..n /\ j \in 1..n
              BY <3>1, <6>2, <7>1
            <7> QED
              BY <3>1, <6>2, <7>1, <7>2
          <6> QED
            BY <6>1, <6>2
        <5> QED
          BY <5>1 DEF RepeatsOnlyUnseen
      <4> QED
        BY <4>1, <4>2
    <3> QED
      BY <3>2, <3>3, <3>4
  <2> QED
    BY <1>0, <2>1, <2>2, <2>3
<1> QED
  BY <1>2, <1>3, <1>4, FactSteps

LEMMA SharedInit == Init => SharedInv
<1> SUFFICES ASSUME Init PROVE SharedInv
  OBVIOUS
<1>1. /\ sessions = [s \in Session |-> <<>>] /\ facts = [u \in User |-> <<>>]
      /\ \A s \in Session : sessions[s] = <<>> /\ Len(sessions[s]) = 0
      /\ \A u \in User : facts[u] = <<>> /\ Len(facts[u]) = 0
      /\ \A r \in Run : factsRead[r] = 0 /\ stage[r] = "load_session" /\ rounds[r] = 0
  BY DEF Init
<1>2. TypeOK
  <2>1. RunTypeOK
    BY SharedAssumption DEF Init, RunTypeOK, Stage
  <2>2. StoreTypeOK
    BY <1>1 DEF Init, StoreTypeOK
  <2>3. \A r \in Run : window[r] = <<>> /\ Len(window[r]) = 0
    BY DEF Init
  <2> QED
    BY <2>1, <2>2, <2>3, SharedAssumption DEF TypeOK
<1>3. StageInv
  BY <1>1 DEF StageInv, Placed
<1>4. AskedInv /\ TurnsOnceInOrder
  BY <1>1 DEF AskedInv, TurnsOnceInOrder
<1>5. StatedInv /\ RepeatsOnlyUnseen
  BY <1>1 DEF StatedInv, RepeatsOnlyUnseen
<1>6. KnownInv
  BY <1>1, SharedAssumption DEF KnownInv
<1> QED
  BY <1>2, <1>3, <1>4, <1>5, <1>6 DEF SharedInv

LEMMA SharedNext == SharedInv /\ [Next]_vars => SharedInv'
<1> SUFFICES ASSUME SharedInv, [Next]_vars PROVE SharedInv'
  OBVIOUS
<1>1. ASSUME NEW r \in Run, Step(r) PROVE SharedInv'
  <2>1. Placed(r) /\ TypeOK /\ StageInv
    BY DEF SharedInv, StageInv
  <2>2. TypeOK' /\ StageInv' /\ Progress(r)
    BY <1>1, <2>1, StepTypes, StagesAgree
  <2>3. \A q \in Run \ {r} : stage'[q] = stage[q] /\ rounds'[q] = rounds[q]
    BY <1>1, <2>1, OthersStay
  <2>4. SessionStep(r)
    BY <1>1, <2>1, SessionSteps
  <2>5. AskedInv' /\ TurnsOnceInOrder'
    BY <2>1, <2>2, <2>3, <2>4, TurnsStay DEF SharedInv
  <2>6. StatedInv' /\ KnownInv' /\ RepeatsOnlyUnseen'
    BY <1>1, <2>1, <2>2, FactsStay DEF SharedInv
  <2> QED
    BY <2>2, <2>5, <2>6 DEF SharedInv
<1>2. ASSUME UNCHANGED vars PROVE SharedInv'
  BY <1>2 DEF vars, runVars, storeVars, SharedInv, TypeOK, RunTypeOK, StoreTypeOK, StageInv, Placed,
     NewFact, AskedInv, StatedInv, KnownInv, TurnsOnceInOrder, RepeatsOnlyUnseen, CanAsk, CanState,
     CanAnswer, Has
<1> QED
  BY <1>1, <1>2 DEF Next, AllEnded

LEMMA SharedInvariant == Spec => []SharedInv
<1>1. Init => SharedInv
  BY SharedInit
<1>2. SharedInv /\ [Next]_vars => SharedInv'
  BY SharedNext
<1> QED
  BY <1>1, <1>2, PTL DEF Spec

------------------------------------------------------------------------------
(* The theorems.                                                              *)

\* Every variable has its type, and a loaded window fits last_n.
THEOREM SharedTypes == Spec => []TypeOK
<1>1. SharedInv => TypeOK
  BY DEF SharedInv
<1> QED
  BY <1>1, SharedInvariant, PTL

\* A run adds its question to a session at most once and its answer at most
\* once, the question first, whatever other runs of the session do and
\* whatever the memory service answers or loses.
THEOREM TurnsAreWrittenOnce == Spec => []TurnsOnceInOrder
<1>1. SharedInv => TurnsOnceInOrder
  BY DEF SharedInv
<1> QED
  BY <1>1, SharedInvariant, PTL

\* A fact is stored again only by a run that could not have seen the first copy.
THEOREM FactsAreRepeatedUnseen == Spec => []RepeatsOnlyUnseen
<1>1. SharedInv => RepeatsOnlyUnseen
  BY DEF SharedInv
<1> QED
  BY <1>1, SharedInvariant, PTL

\* The steps of the other runs do not write to a run's scratchpad.
LEMMA ScratchpadStep ==
  ASSUME TypeOK, NEW q \in Run, Step(q), NEW r \in Run
  PROVE  /\ working'[r] # working[r] => stage[r] \in {"observe", "cleanup"}
         /\ Len(working'[r]) > Len(working[r]) => pending'[r] = pending[r] - 1
         /\ Len(working'[r]) < Len(working[r]) => stage[r] = "cleanup"
<1>0. /\ working \in [Run -> Seq(Run)] /\ pending \in [Run -> 0..MaxResults]
      /\ Len(working[r]) \in Nat
  BY DEF TypeOK, RunTypeOK, StoreTypeOK
<1>1. CASE ObserveResult(q)
  <2> PICK reply \in Replies : working' = AppendIf(reply, working, q, q)
    BY <1>1 DEF ObserveResult, WorkingNs
  <2>1. Appended(Run, working, working', q, q)
    BY <1>0, AppendIfGrows
  <2>2. stage[q] = "observe" /\ pending'[q] = pending[q] - 1
    BY <1>0, <1>1 DEF ObserveResult
  <2> QED
    BY <1>0, <2>1, <2>2 DEF Appended, Grows
<1>2. CASE DeleteWorking(q)
  <2>1. stage[q] = "cleanup" /\ (working' = [working EXCEPT ![q] = <<>>] \/ working' = working)
    BY <1>2 DEF DeleteWorking, WorkingNs
  <2>2. CASE r = q
    <3>1. working'[r] = <<>> \/ working'[r] = working[r]
      BY <1>0, <2>1, <2>2
    <3>2. ~(Len(working'[r]) > Len(working[r]))
      BY <1>0, <3>1
    <3> QED
      BY <2>1, <2>2, <3>2
  <2>3. CASE r # q
    BY <1>0, <2>1, <2>3
  <2> QED
    BY <2>2, <2>3
<1>3. CASE UNCHANGED working
  BY <1>0, <1>3
<1>4. ObserveResult(q) \/ DeleteWorking(q) \/ UNCHANGED working
  BY DEF Step, Load, Think, Record, PostRun, LoadSession, LoadFacts, UseTools, LeaveLoop,
     FinishObserve, WriteTurn, WriteFact, StoreAnswer, WriteAudit, storeVars
<1> QED
  BY <1>1, <1>2, <1>3, <1>4

\* A run's scratchpad is written by that run alone, one record per result, and
\* deleted only when its loop is over.
THEOREM ScratchpadsArePrivate == Spec => ScratchpadPrivate
<1> DEFINE Kept == \A r \in Run :
             /\ working'[r] # working[r] => stage[r] \in {"observe", "cleanup"}
             /\ Len(working'[r]) > Len(working[r]) => pending'[r] = pending[r] - 1
             /\ Len(working'[r]) < Len(working[r]) => stage[r] = "cleanup"
<1>1. TypeOK /\ [Next]_vars => [Kept]_vars
  BY ScratchpadStep DEF Next, AllEnded
<1> QED
  BY <1>1, SharedTypes, PTL DEF Spec, ScratchpadPrivate

\* A run that loads its session gets every turn that last_n newer ones do not
\* push out, those of the runs that were over by then among them.
THEOREM ConversationsContinue == Spec => ContinuesConversation
<1> DEFINE Loaded == \A r \in Run : stage[r] = "load_session" /\ stage'[r] = "load_facts" =>
             LET log == sessions[SessionOf[r]] IN
             \A i \in 1..Len(log) :
               stage[log[i].run] \in Ended =>
                 \/ Len(log) - i >= LastN
                 \/ \E k \in 1..Len(window'[r]) : window'[r][k] = log[i]
<1>1. ASSUME TypeOK, NEW r \in Run, NEW q \in Run, Step(q),
             stage[r] = "load_session", stage'[r] = "load_facts"
      PROVE  LET log == sessions[SessionOf[r]] IN
             \A i \in 1..Len(log) :
               \/ Len(log) - i >= LastN
               \/ \E k \in 1..Len(window'[r]) : window'[r][k] = log[i]
  <2>0. /\ window \in [Run -> Seq(Turn)] /\ stage \in [Run -> Stage]
        /\ sessions \in [Session -> Seq(Turn)]
        /\ SessionOf[r] \in Session /\ LastN \in Nat
    <3>1. /\ window \in [Run -> Seq(Turn)] /\ stage \in [Run -> Stage]
          /\ sessions \in [Session -> Seq(Turn)]
      BY <1>1 DEF TypeOK, RunTypeOK, StoreTypeOK
    <3> QED
      BY <3>1, SharedAssumption
  <2>1. q = r
    BY <1>1, OthersStay
  <2>2. LoadSession(r)
    BY <1>1, <2>1 DEF Step, Load, Think, Record, PostRun, LoadFacts, UseTools, LeaveLoop,
       ObserveResult, FinishObserve, WriteTurn, WriteFact, StoreAnswer, WriteAudit, DeleteWorking
  <2> PICK reply \in Replies :
        /\ window' = IF reply = "ok" THEN [window EXCEPT ![r] = Window(sessions[SessionOf[r]])]
                     ELSE window
        /\ AfterLoad(r, reply, "load_facts")
    BY <2>2 DEF LoadSession
  <2>3. reply = "ok"
    BY <1>1, <2>0 DEF AfterLoad, Goto
  <2>4. window'[r] = Window(sessions[SessionOf[r]])
    BY <2>0, <2>3
  <2> DEFINE log == sessions[SessionOf[r]]
  <2>5. log \in Seq(Turn) /\ Len(log) \in Nat
    BY <2>0
  <2> HIDE DEF log
  <2>6. \A i \in 1..Len(log) : Len(log) - i < LastN =>
          \E k \in 1..Len(Window(log)) : Window(log)[k] = log[i]
    BY <2>5, WindowFits
  <2>7. \A i \in 1..Len(log) : Len(log) - i >= LastN \/ Len(log) - i < LastN
    BY <2>0, <2>5
  <2> QED
    BY <2>4, <2>6, <2>7 DEF log
<1>2. TypeOK /\ [Next]_vars => [Loaded]_vars
  BY <1>1 DEF Next, AllEnded
<1> QED
  BY <1>2, SharedTypes, PTL DEF Spec, ContinuesConversation
================================================================================
