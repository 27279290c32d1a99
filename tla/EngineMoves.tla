---------------------------- MODULE EngineMoves ------------------------------
(* How the loop moves: every move is one of the table of state_machine.py,    *)
(* the moves that go on repeat with a period the loop guard does not see, the *)
(* trace tells the run and its replay the trace, every step brings the run    *)
(* nearer to its end, and each is one of RunContract or a stutter.            *)
EXTENDS EngineSafety, TraceReplay, WellFoundedInduction

------------------------------------------------------------------------------
\* The moves of the loop.

LEMMA ExecuteMoves ==
  ASSUME TypeOK, Execute
  PROVE  \/ state' = state \/ state' = "FAIL"
         \/ state \in AgentState /\ ValidTransition(state, state')
<1> USE DEF ValidTransition, TRANSITIONS, AgentState, Goto, GotoAt, Again, FailWith, Raise
<1>1. CASE Start \/ LoadMemory \/ BuildContext
  BY <1>1 DEF Start, LoadMemory, LoadSession, LoadFacts, LoadFailed, BuildContext
<1>2. CASE CallLLM \/ ProcessResponse
  BY <1>2 DEF CallLLM, LLMResponds, LLMStatusError, LLMOtherError, ProcessResponse
<1>3. CASE ExecuteTool
  BY <1>3 DEF ExecuteTool, BeginTools, RefuseCall, InvokeTool, AtCall, FinishTools, AfterTools,
     FailTools
<1>4. CASE Observe \/ WriteMemory
  BY <1>4 DEF Observe, ObserveResult, FinishObserve, WriteMemory, WriteUserTurn, WriteFact,
     NothingToWrite, AfterWrite
<1>5. CASE CheckTermination
  BY <1>5 DEF CheckTermination
<1> QED
  BY <1>1, <1>2, <1>3, <1>4, <1>5 DEF Execute

\* Only Execute moves the loop, and only from a state that is not terminal.
LEMMA OnlyExecuteMoves ==
  ASSUME [Next]_vars
  PROVE  \/ Execute /\ state \notin TERMINAL_STATES /\ stage = "loop" /\ UNCHANGED engineVars
         \/ UNCHANGED <<state, answer, failure, toolVars, budgetVars>>
BY DEF Next, RunLoop, PostRun, LeaveLoop, StoreAnswer, WriteAudit, DeleteWorkingMemory, Clock,
   TimeRunsOut, Ended, vars, ctxVars, postLoopVars, loopVars, engineVars

\* Every move of a run that does not fail it is one of the transition table
\* (state_machine.py), although validate_transition is never called.
THEOREM TableIsFollowed == Spec => StepsFollowTable
<1>1. ASSUME TypeOK, [Next]_vars
      PROVE  [state' # state => ValidTransition(state, state') \/ state' = "FAIL"]_vars
  BY <1>1, ExecuteMoves, OnlyExecuteMoves
<1> QED
  BY <1>1, TypeCorrect, PTL DEF Spec, StepsFollowTable

------------------------------------------------------------------------------
\* A round of the loop.  Every state has one successor that is not terminal.
Successor ==
  [s \in AgentState \ TERMINAL_STATES |->
     IF s = "START" THEN "LOAD_MEMORY"
     ELSE IF s = "LOAD_MEMORY" THEN "BUILD_CONTEXT"
     ELSE IF s = "BUILD_CONTEXT" THEN "CALL_LLM"
     ELSE IF s = "CALL_LLM" THEN "PROCESS_RESPONSE"
     ELSE IF s = "PROCESS_RESPONSE" THEN "EXECUTE_TOOL"
     ELSE IF s = "EXECUTE_TOOL" THEN "OBSERVE_RESULT"
     ELSE IF s = "OBSERVE_RESULT" THEN "WRITE_MEMORY"
     ELSE IF s = "WRITE_MEMORY" THEN "CHECK_TERMINATION"
     ELSE "CALL_LLM"]

\* The history is a walk along the successors that ends where the run is.
HistoryInv ==
  /\ history \in Seq(AgentState \ TERMINAL_STATES) /\ history # <<>>
  /\ \A k \in 1..(Len(history) - 1) : history[k + 1] = Successor[history[k]]
  /\ state \notin TERMINAL_STATES => history[Len(history)] = state

LEMMA OneSuccessor ==
  ASSUME NEW s \in AgentState \ TERMINAL_STATES, NEW t, ValidTransition(s, t),
         t \notin TERMINAL_STATES
  PROVE  t = Successor[s] /\ t \in AgentState
BY DEF ValidTransition, TRANSITIONS, AgentState, TERMINAL_STATES, Successor

\* No state comes back within five moves.
LEMMA NoShortCycle ==
  ASSUME NEW s \in AgentState \ TERMINAL_STATES
  PROVE  LET S(t) == Successor[t] IN
           /\ S(s) # s /\ S(S(s)) # s /\ S(S(S(s))) # s
           /\ S(S(S(S(s)))) # s /\ S(S(S(S(S(s))))) # s
BY DEF AgentState, TERMINAL_STATES, Successor

LEMMA HistoryGrows ==
  ASSUME Execute
  PROVE  history' = IF state' = state \/ state' \in TERMINAL_STATES THEN history
                    ELSE Append(history, state')
<1> USE DEF Goto, GotoAt, Again, FailWith, Raise, TERMINAL_STATES
<1>1. CASE Start \/ LoadMemory \/ BuildContext
  BY <1>1 DEF Start, LoadMemory, LoadSession, LoadFacts, LoadFailed, BuildContext
<1>2. CASE CallLLM \/ ProcessResponse
  BY <1>2 DEF CallLLM, LLMResponds, LLMStatusError, LLMOtherError, ProcessResponse
<1>3. CASE ExecuteTool
  BY <1>3 DEF ExecuteTool, BeginTools, RefuseCall, InvokeTool, AtCall, FinishTools, AfterTools,
     FailTools
<1>4. CASE Observe \/ WriteMemory
  BY <1>4 DEF Observe, ObserveResult, FinishObserve, WriteMemory, WriteUserTurn, WriteFact,
     NothingToWrite, AfterWrite
<1>5. CASE CheckTermination
  BY <1>5 DEF CheckTermination
<1> QED
  BY <1>1, <1>2, <1>3, <1>4, <1>5 DEF Execute

LEMMA HistoryInit == EngineInit => HistoryInv
BY DEF EngineInit, Init, HistoryInv, AgentState, TERMINAL_STATES

LEMMA HistoryNext == TypeOK /\ HistoryInv /\ [Next]_vars => HistoryInv'
<1> SUFFICES ASSUME TypeOK, HistoryInv, [Next]_vars PROVE HistoryInv'
  OBVIOUS
<1> DEFINE loop == AgentState \ TERMINAL_STATES
<1>1. CASE state' # state /\ state' \notin TERMINAL_STATES
  <2>1. Execute /\ state \in loop
    BY <1>1, OnlyExecuteMoves DEF TypeOK, LoopTypeOK
  <2>2. state' = Successor[state] /\ state' \in loop
    BY <1>1, <2>1, ExecuteMoves, OneSuccessor DEF TERMINAL_STATES
  <2>3. history' = Append(history, state')
    BY <1>1, <2>1, HistoryGrows
  <2>4. history \in Seq(loop) /\ Len(history) \in Nat \ {0} /\ history[Len(history)] = state
    BY <2>1 DEF HistoryInv
  <2>5. /\ history' \in Seq(loop) /\ Len(history') = Len(history) + 1
        /\ history'[Len(history')] = state'
        /\ \A k \in 1..Len(history) : history'[k] = history[k]
    BY <2>2, <2>3, <2>4
  <2>6. ASSUME NEW k \in 1..(Len(history') - 1)
        PROVE  history'[k + 1] = Successor[history'[k]]
    <3>1. CASE k = Len(history)
      BY <2>2, <2>4, <2>5, <3>1
    <3>2. CASE k \in 1..(Len(history) - 1)
      BY <2>4, <2>5, <3>2 DEF HistoryInv
    <3> QED
      BY <2>4, <2>5, <3>1, <3>2
  <2> QED
    BY <2>4, <2>5, <2>6 DEF HistoryInv
<1>2. CASE state' = state \/ state' \in TERMINAL_STATES
  <2>1. history' = history
    <3>1. CASE Execute
      BY <1>2, <3>1, HistoryGrows
    <3>2. CASE ~Execute
      BY <3>2 DEF Next, RunLoop, PostRun, LeaveLoop, StoreAnswer, WriteAudit,
         DeleteWorkingMemory, Clock, TimeRunsOut, Ended, vars, ctxVars, postLoopVars, loopVars
    <3> QED
      BY <3>1, <3>2
  <2> QED
    BY <1>2, <2>1 DEF HistoryInv
<1> QED
  BY <1>1, <1>2

LEMMA WalkMovesOn ==
  ASSUME NEW h, NEW k \in Nat, NEW n \in {1, 2, 3, 4, 5}, h[k] \in AgentState \ TERMINAL_STATES,
         \A m \in k..(k + n - 1) : h[m + 1] = Successor[h[m]]
  PROVE  h[k + n] # h[k]
<1>1. h[k + 1] = Successor[h[k]]
  OBVIOUS
<1>2. n >= 2 => h[k + 2] = Successor[h[k + 1]]
  <2>1. n >= 2 => h[(k + 1) + 1] = Successor[h[k + 1]]
    OBVIOUS
  <2> QED
    BY <2>1
<1>3. n >= 3 => h[k + 3] = Successor[h[k + 2]]
  <2>1. n >= 3 => h[(k + 2) + 1] = Successor[h[k + 2]]
    OBVIOUS
  <2> QED
    BY <2>1
<1>4. n >= 4 => h[k + 4] = Successor[h[k + 3]]
  <2>1. n >= 4 => h[(k + 3) + 1] = Successor[h[k + 3]]
    OBVIOUS
  <2> QED
    BY <2>1
<1>5. n = 5 => h[k + 5] = Successor[h[k + 4]]
  <2>1. n = 5 => h[(k + 4) + 1] = Successor[h[k + 4]]
    OBVIOUS
  <2> QED
    BY <2>1
<1> QED
  BY <1>1, <1>2, <1>3, <1>4, <1>5, NoShortCycle

\* A walk never ends in three copies of five moves or fewer: its last state
\* was not there one copy before.
LEMMA WalkIsSilent == HistoryInv => LoopGuardSilent
<1> SUFFICES ASSUME HistoryInv, NEW n \in CycleLengths, EndsInThreeCopies(history, n)
             PROVE  FALSE
  BY DEF LoopGuardSilent, CheckStateLoop
<1>1. PICK k : k = Len(history) - n
  OBVIOUS
<1>2. /\ n \in {1, 2, 3, 4, 5} /\ Len(history) \in Nat /\ Len(history) >= 3 * n
      /\ history \in Seq(AgentState \ TERMINAL_STATES)
  BY DEF CycleLengths, EndsInThreeCopies, HistoryInv
<1>3. k \in Nat \ {0} /\ Len(history) = k + n
  BY <1>1, <1>2
<1>4. history[k + n] = history[k]
  <2>1. history[Len(history) - 2 * n + n] = history[Len(history) - n + n]
    BY <1>2 DEF EndsInThreeCopies
  <2>2. Len(history) - 2 * n + n = k /\ Len(history) - n + n = k + n
    BY <1>2, <1>3
  <2> QED
    BY <2>1, <2>2
<1>5. history[k] \in AgentState \ TERMINAL_STATES
  <2>1. k \in 1..Len(history)
    BY <1>2, <1>3
  <2> QED
    BY <1>2, <2>1
<1>6. \A m \in k..(k + n - 1) : history[m + 1] = Successor[history[m]]
  <2>1. k..(k + n - 1) \subseteq 1..(Len(history) - 1)
    BY <1>2, <1>3
  <2> QED
    BY <2>1 DEF HistoryInv
<1> QED
  BY <1>2, <1>3, <1>4, <1>5, <1>6, WalkMovesOn

\* check_state_loop never returns True in any run, however long: the loop of
\* the engine has six states and the guard looks for cycles of one to five
\* (loop_guard.py).
THEOREM GuardNeverFires == Spec => []LoopGuardSilent
BY HistoryInit, HistoryNext, WalkIsSilent, TypeCorrect, PTL DEF Spec

------------------------------------------------------------------------------
\* The spans retell the moves.

SpanNow(step) == [from |-> state, to |-> state', step |-> step]

\* A handler that goes on leaves no span, one that ends leaves one with the
\* steps taken by then; only a response of the LLM counts as a step.
LEMMA SpanGrows ==
  ASSUME Execute
  PROVE  \/ UNCHANGED <<state, spans, steps>>
         \/ /\ spans' = Append(spans, SpanNow(steps'))
            /\ IF state' = "PROCESS_RESPONSE"
               THEN state = "CALL_LLM" /\ steps' = steps + 1
               ELSE steps' = steps
<1> USE DEF Goto, GotoAt, Again, FailWith, Raise, SpanNow
<1>1. CASE Start \/ LoadMemory \/ BuildContext
  BY <1>1 DEF Start, LoadMemory, LoadSession, LoadFacts, LoadFailed, BuildContext, budgetVars
<1>2. CASE CallLLM \/ ProcessResponse
  BY <1>2 DEF CallLLM, LLMResponds, LLMStatusError, LLMOtherError, ProcessResponse, Charge,
     budgetVars
<1>3. CASE ExecuteTool
  BY <1>3 DEF ExecuteTool, BeginTools, RefuseCall, InvokeTool, AtCall, FinishTools, AfterTools,
     FailTools, budgetVars
<1>4. CASE Observe \/ WriteMemory
  BY <1>4 DEF Observe, ObserveResult, FinishObserve, WriteMemory, WriteUserTurn, WriteFact,
     NothingToWrite, AfterWrite, budgetVars
<1>5. CASE CheckTermination
  BY <1>5 DEF CheckTermination, budgetVars
<1> QED
  BY <1>1, <1>2, <1>3, <1>4, <1>5 DEF Execute

ResponseSpan(k) == [from |-> "CALL_LLM", to |-> "PROCESS_RESPONSE", step |-> k]

\* Of the spans of responses, the i-th and no other is that of step k.
TellsResponse(ss, i, k) ==
  /\ ss[i] = ResponseSpan(k)
  /\ \A j \in 1..Len(ss) : ss[j].to = "PROCESS_RESPONSE" /\ j # i => ss[j].step # k

\* The spans are a chain from START to where the run is.
SpansInv ==
  /\ spans = <<>> => state = "START" /\ steps = 0
  /\ spans # <<>> => spans[1].from = "START" /\ spans[Len(spans)].to = state
  /\ \A i \in 1..(Len(spans) - 1) :
       spans[i].to = spans[i + 1].from /\ spans[i].step <= spans[i + 1].step
  /\ \A i \in 1..Len(spans) : spans[i].step <= steps
  /\ \A k \in 1..steps : \E i \in 1..Len(spans) : TellsResponse(spans, i, k)

LEMMA SpansKept ==
  ASSUME SpansInv, UNCHANGED <<state, spans, steps>>
  PROVE  SpansInv'
BY DEF SpansInv, TellsResponse

LEMMA SpansExecute ==
  ASSUME TypeOK, TypeOK', SpansInv, Execute
  PROVE  SpansInv'
<1>0. spans \in Seq(Span) /\ steps \in Nat /\ steps' \in Nat /\ state \in AgentState
  BY DEF TypeOK, LoopTypeOK, BudgetTypeOK
<1> DEFINE n == Len(spans)
           new == SpanNow(steps')
<1>1. SUFFICES ASSUME spans' = Append(spans, new),
                      IF state' = "PROCESS_RESPONSE"
                      THEN state = "CALL_LLM" /\ steps' = steps + 1
                      ELSE steps' = steps
               PROVE  SpansInv'
  BY SpanGrows, SpansKept
<1>2. new.from = state /\ new.to = state' /\ new.step = steps'
  BY DEF SpanNow
<1>3. new \in Span
  BY <1>0 DEF SpanNow, Span, TypeOK, LoopTypeOK
<1>4. state' = "PROCESS_RESPONSE" => new = ResponseSpan(steps')
  BY <1>1 DEF SpanNow, ResponseSpan
<1> HIDE DEF new
<1>5. /\ n \in Nat /\ Len(spans') = n + 1 /\ spans'[n + 1] = new /\ spans' # <<>>
      /\ \A i \in 1..n : spans'[i] = spans[i] /\ spans[i] \in Span /\ spans[i].step \in Nat
  <2>1. /\ n \in Nat /\ Len(spans') = n + 1 /\ spans'[n + 1] = new /\ spans' # <<>>
        /\ \A i \in 1..n : spans'[i] = spans[i] /\ spans[i] \in Span
    BY <1>0, <1>1, <1>3
  <2> QED
    BY <2>1 DEF Span
<1>6. /\ n = 0 => state = "START" /\ steps = 0
      /\ n > 0 => spans[1].from = "START" /\ spans[n].to = state
      /\ \A i \in 1..(n - 1) : spans[i].to = spans[i + 1].from /\ spans[i].step <= spans[i + 1].step
      /\ \A i \in 1..n : spans[i].step <= steps
      /\ \A k \in 1..steps : \E i \in 1..n : TellsResponse(spans, i, k)
  BY <1>0 DEF SpansInv
<1> HIDE DEF n
<1>7. spans'[1].from = "START" /\ spans'[Len(spans')].to = state'
  BY <1>2, <1>5, <1>6
<1>8. ASSUME NEW i \in 1..n
      PROVE  spans'[i].to = spans'[i + 1].from /\ spans'[i].step <= spans'[i + 1].step
  <2>1. CASE i = n
    BY <1>0, <1>1, <1>2, <1>5, <1>6, <2>1
  <2>2. CASE i \in 1..(n - 1)
    <3>1. i \in 1..n /\ i + 1 \in 1..n
      BY <1>5, <2>2
    <3> QED
      BY <1>5, <1>6, <2>2, <3>1
  <2> QED
    BY <1>5, <2>1, <2>2
<1>9. \A i \in 1..(n + 1) : spans'[i].step <= steps'
  BY <1>0, <1>1, <1>2, <1>5, <1>6
<1>10. ASSUME NEW k \in 1..steps'
       PROVE  \E i \in 1..(n + 1) : TellsResponse(spans', i, k)
  <2>1. CASE k \in 1..steps
    <3> PICK i \in 1..n : TellsResponse(spans, i, k)
      BY <1>6, <2>1
    <3>1. state' = "PROCESS_RESPONSE" => new.step # k
      BY <1>0, <1>1, <1>2, <2>1
    <3>2. ASSUME NEW j \in 1..(n + 1), spans'[j].to = "PROCESS_RESPONSE", j # i
          PROVE  spans'[j].step # k
      <4>1. CASE j = n + 1
        BY <1>2, <1>5, <3>1, <3>2, <4>1
      <4>2. CASE j \in 1..n
        BY <1>5, <3>2, <4>2 DEF TellsResponse, n
      <4> QED
        BY <1>5, <4>1, <4>2
    <3>3. spans'[i] = ResponseSpan(k)
      BY <1>5 DEF TellsResponse
    <3> QED
      BY <1>5, <3>2, <3>3 DEF TellsResponse
  <2>2. CASE k \notin 1..steps
    <3>1. state' = "PROCESS_RESPONSE" /\ k = steps + 1 /\ k = steps'
      BY <1>0, <1>1, <2>2
    <3>2. spans'[n + 1] = ResponseSpan(k)
      BY <1>4, <1>5, <3>1
    <3>3. ASSUME NEW j \in 1..(n + 1), j # n + 1 PROVE spans'[j].step # k
      <4>1. j \in 1..n
        BY <1>5, <3>3
      <4>2. spans'[j].step \in Nat /\ spans'[j].step <= steps
        BY <1>5, <1>6, <4>1
      <4> QED
        BY <1>0, <3>1, <4>2
    <3>4. TellsResponse(spans', n + 1, k)
      BY <1>5, <3>2, <3>3 DEF TellsResponse
    <3> QED
      BY <1>5, <3>4
  <2> QED
    BY <2>1, <2>2
<1> QED
  BY <1>5, <1>7, <1>8, <1>9, <1>10 DEF SpansInv, TellsResponse

\* The trace is stored after the loop, with all its spans.
StoredInv ==
  /\ stage # "loop" => state \in TERMINAL_STATES
  /\ stage = "returned" => trace = spans
  /\ trace # <<>> => stage = "returned"

LEMMA StoredNext == TypeOK /\ StoredInv /\ [Next]_vars => StoredInv'
<1> SUFFICES ASSUME TypeOK, StoredInv, [Next]_vars PROVE StoredInv'
  OBVIOUS
<1>1. CASE RunLoop
  BY <1>1 DEF RunLoop, engineVars, StoredInv
<1>2. CASE PostRun
  <2>1. UNCHANGED <<state, spans>> /\ stage' # "loop" /\ stage # "returned"
        /\ (stage = "loop" => state \in TERMINAL_STATES)
    BY <1>2 DEF PostRun, LeaveLoop, StoreAnswer, WriteAudit, DeleteWorkingMemory, Proceed,
       ctxVars, postLoopVars, loopVars
  <2>2. stage' = "returned" => trace' = spans
    BY <1>2 DEF PostRun, LeaveLoop, StoreAnswer, WriteAudit, DeleteWorkingMemory, Proceed
  <2>3. trace' # trace => stage' = "returned"
    BY <1>2 DEF PostRun, LeaveLoop, StoreAnswer, WriteAudit, DeleteWorkingMemory, Proceed
  <2> QED
    BY <2>1, <2>2, <2>3 DEF StoredInv
<1>3. CASE Clock \/ UNCHANGED vars
  BY <1>3 DEF Clock, TimeRunsOut, Ended, vars, ctxVars, engineVars, loopVars, StoredInv
<1> QED
  BY <1>1, <1>2, <1>3 DEF Next, Ended

\* The spans and the stored trace of every state a run can be in.
LEMMA TraceInvariant == Spec => [](SpansInv /\ StoredInv)
<1>1. EngineInit => SpansInv /\ StoredInv
  <2>1. EngineInit => spans = <<>> /\ Len(spans) = 0 /\ steps = 0 /\ state = "START" /\ stage = "loop"
                    /\ trace = <<>>
    BY DEF EngineInit, Init
  <2> QED
    BY <2>1 DEF SpansInv, StoredInv
<1>2. ASSUME TypeOK, TypeOK', SpansInv, [Next]_vars PROVE SpansInv'
  <2>1. CASE Execute
    BY <1>2, <2>1, SpansExecute
  <2>2. CASE ~Execute
    <3>1. UNCHANGED <<state, spans, steps>>
      BY <1>2, <2>2 DEF Next, RunLoop, PostRun, LeaveLoop, StoreAnswer, WriteAudit,
         DeleteWorkingMemory, Clock, TimeRunsOut, Ended, vars, ctxVars, postLoopVars, loopVars,
         budgetVars
    <3> QED
      BY <1>2, <3>1, SpansKept
  <2> QED
    BY <2>1, <2>2
<1> QED
  BY <1>1, <1>2, StoredNext, TypeCorrect, PTL DEF Spec

\* A stored trace is one chain of spans from START to the state the run ended
\* in, and tells each response of the LLM once, at its step (execute's span,
\* store_trace).
THEOREM TraceIsComplete == Spec => []TraceTellsTheRun
<1>1. TypeOK /\ SpansInv /\ StoredInv => TraceTellsTheRun
  <2> SUFFICES ASSUME TypeOK, SpansInv, StoredInv, stage = "returned" PROVE TraceTellsTheRun
    BY DEF TraceTellsTheRun
  <2>1. trace = spans /\ state \in TERMINAL_STATES
    BY DEF StoredInv
  <2>2. spans # <<>>
    BY <2>1 DEF SpansInv, TERMINAL_STATES
  <2> QED
    BY <2>1, <2>2 DEF SpansInv, TellsResponse, ResponseSpan, TraceTellsTheRun
<1> QED
  BY <1>1, TraceInvariant, TypeCorrect, PTL

------------------------------------------------------------------------------
\* The replay retells the trace.

\* A set of numbers has a least one: induction over numbers, from the
\* well-founded order the library proves.
LEMMA LeastNat ==
  ASSUME NEW T, T \subseteq Nat, T # {}
  PROVE  \E m \in T : \A k \in T : m <= k
<1>1. PICK m \in T : \A k \in T : <<k, m>> \notin OpToRel(<, Nat)
  BY WFMin, NatLessThanWellFounded, Zenon
<1>2. \A k \in T : ~(k < m)
  BY <1>1 DEF OpToRel
<1> QED
  BY <1>2

\* s is a list of n timed spans, each with its place.
Listed(s, n) ==
  /\ s = [i \in 1..n |-> s[i]]
  /\ \A i \in 1..n :
       /\ s[i].place = i /\ s[i].span.step \in Nat
       /\ s[i].timestamp_ms \in Int /\ s[i].duration_ms \in Int

\* The spans that come before a; their number is its rank.
AllOf(s) == {s[i] : i \in DOMAIN s}
Earlier(s, a) == {b \in AllOf(s) : Before(b, a)}

\* Before is a strict total order of a list.
LEMMA BeforeOrders ==
  ASSUME NEW n \in Nat, NEW s, Listed(s, n)
  PROVE  \A i, j \in 1..n :
           /\ ~Before(s[i], s[i])
           /\ i # j => Before(s[i], s[j]) \/ Before(s[j], s[i])
           /\ \A k \in 1..n : Before(s[i], s[j]) /\ Before(s[j], s[k]) => Before(s[i], s[k])
<1> SUFFICES ASSUME NEW i \in 1..n, NEW j \in 1..n, NEW k \in 1..n
             PROVE  /\ ~Before(s[i], s[i])
                    /\ i # j => Before(s[i], s[j]) \/ Before(s[j], s[i])
                    /\ Before(s[i], s[j]) /\ Before(s[j], s[k]) => Before(s[i], s[k])
  OBVIOUS
<1>1. /\ s[i].place = i /\ s[i].span.step \in Nat /\ s[i].timestamp_ms \in Int
      /\ s[j].place = j /\ s[j].span.step \in Nat /\ s[j].timestamp_ms \in Int
      /\ s[k].place = k /\ s[k].span.step \in Nat /\ s[k].timestamp_ms \in Int
  BY DEF Listed
<1> QED
  BY <1>1 DEF Before

\* A list has finitely many spans.
LEMMA EarlierFinite ==
  ASSUME NEW n \in Nat, NEW s, Listed(s, n)
  PROVE  /\ DOMAIN s = 1..n /\ \A i \in 1..n : s[i] \in AllOf(s)
         /\ IsFiniteSet(AllOf(s)) /\ Cardinality(AllOf(s)) <= n
         /\ \A a : /\ Earlier(s, a) \subseteq AllOf(s)
                   /\ IsFiniteSet(Earlier(s, a)) /\ Cardinality(Earlier(s, a)) \in Nat
<1>1. DOMAIN s = 1..n
  BY DEF Listed
<1>2. s \in Surjection(1..n, AllOf(s))
  BY <1>1 DEF Listed, AllOf, Surjection
<1>3. IsFiniteSet(1..n) /\ Cardinality(1..n) = n
  BY FS_Interval
<1>4. IsFiniteSet(AllOf(s)) /\ Cardinality(AllOf(s)) <= n
  BY <1>2, <1>3, FS_Surjection
<1>5. \A a : Earlier(s, a) \in SUBSET AllOf(s)
  BY DEF Earlier
<1>6. \A a : IsFiniteSet(Earlier(s, a))
  BY <1>4, <1>5, FS_Subset
<1> QED
  BY <1>1, <1>4, <1>5, <1>6, FS_CardinalityType DEF AllOf

\* A span that comes before another has a lower rank.
LEMMA RanksGoUp ==
  ASSUME NEW n \in Nat, NEW s, Listed(s, n), NEW i \in 1..n, NEW j \in 1..n,
         Before(s[i], s[j])
  PROVE  Cardinality(Earlier(s, s[i])) < Cardinality(Earlier(s, s[j]))
<1> DEFINE E == Earlier(s, s[i])
           F == Earlier(s, s[j])
<1>1. /\ E \subseteq AllOf(s) /\ IsFiniteSet(E) /\ Cardinality(E) \in Nat
      /\ F \subseteq AllOf(s) /\ IsFiniteSet(F) /\ Cardinality(F) \in Nat
      /\ s[i] \in AllOf(s) /\ DOMAIN s = 1..n
  BY EarlierFinite
<1>2. s[i] \notin E
  BY BeforeOrders DEF Earlier
<1>3. E \cup {s[i]} \in SUBSET F
  <2>1. s[i] \in F
    BY <1>1 DEF Earlier
  <2>2. ASSUME NEW b \in E PROVE b \in F
    <3>1. PICK k \in 1..n : b = s[k]
      BY <1>1 DEF AllOf
    <3> QED
      BY <1>1, <2>2, <3>1, BeforeOrders DEF Earlier
  <2> QED
    BY <2>1, <2>2
<1> HIDE DEF E, F
<1>4. Cardinality(E \cup {s[i]}) = Cardinality(E) + 1
  BY <1>1, <1>2, FS_AddElement
<1>5. Cardinality(E \cup {s[i]}) <= Cardinality(F)
  BY <1>1, <1>3, FS_Subset
<1>6. Cardinality(E) < Cardinality(F)
  BY <1>1, <1>4, <1>5
<1> QED
  BY <1>6 DEF E, F

\* The ranks are places of the list.
LEMMA RankBelow ==
  ASSUME NEW n \in Nat, NEW s, Listed(s, n), NEW i \in 1..n
  PROVE  Cardinality(Earlier(s, s[i])) \in 0..(n - 1)
<1> DEFINE A == AllOf(s)
           E == Earlier(s, s[i])
<1>1. /\ IsFiniteSet(A) /\ Cardinality(A) <= n /\ s[i] \in A
      /\ E \subseteq A /\ IsFiniteSet(E) /\ Cardinality(E) \in Nat
  BY EarlierFinite
<1>2. E \in SUBSET (A \ {s[i]})
  BY <1>1, BeforeOrders DEF Earlier
<1> HIDE DEF E, A
<1>3. IsFiniteSet(A \ {s[i]}) /\ Cardinality(A \ {s[i]}) = Cardinality(A) - 1
  BY <1>1, FS_RemoveElement
<1>4. Cardinality(E) <= Cardinality(A \ {s[i]})
  BY <1>2, <1>3, FS_Subset
<1>5. Cardinality(A) \in Nat
  BY <1>1, FS_CardinalityType
<1>6. Cardinality(E) \in 0..(n - 1)
  BY <1>1, <1>3, <1>4, <1>5
<1> QED
  BY <1>6 DEF E

\* Every place of the sorted list is the rank of one span.
LEMMA RanksAreOnto ==
  ASSUME NEW n \in Nat, NEW s, Listed(s, n)
  PROVE  /\ \A m \in 1..n : \E i \in 1..n : Cardinality(Earlier(s, s[i])) = m - 1
         /\ \A i, j \in 1..n :
              Cardinality(Earlier(s, s[i])) = Cardinality(Earlier(s, s[j])) => i = j
<1> DEFINE rank(i) == Cardinality(Earlier(s, s[i]))
           f == [i \in 1..n |-> rank(i) + 1]
<1>1. ASSUME NEW i \in 1..n, NEW j \in 1..n, rank(i) = rank(j) PROVE i = j
  <2>1. rank(i) \in Nat /\ rank(j) \in Nat
    BY EarlierFinite
  <2>2. ~Before(s[i], s[j]) /\ ~Before(s[j], s[i])
    BY <1>1, <2>1, RanksGoUp
  <2> QED
    BY <2>2, BeforeOrders
<1>2. \A i \in 1..n : rank(i) \in 0..(n - 1)
  BY RankBelow
<1>3. f \in Injection(1..n, 1..n)
  <2> HIDE DEF rank
  <2>1. f \in [1..n -> 1..n]
    BY <1>2
  <2>2. \A i, j \in 1..n : f[i] = f[j] => i = j
    BY <1>1, <1>2
  <2> QED
    BY <2>1, <2>2 DEF Injection, IsInjective
<1>4. f \in Surjection(1..n, 1..n)
  <2>1. IsFiniteSet(1..n) /\ Cardinality(1..n) = n
    BY FS_Interval
  <2> HIDE DEF f
  <2> QED
    BY <1>3, <2>1, FS_Injection
<1>5. \A m \in 1..n : \E i \in 1..n : rank(i) = m - 1
  <2> SUFFICES ASSUME NEW m \in 1..n PROVE \E i \in 1..n : rank(i) = m - 1
    OBVIOUS
  <2>1. PICK i \in 1..n : f[i] = m
    <3> HIDE DEF f
    <3> QED
      BY <1>4 DEF Surjection
  <2> HIDE DEF rank
  <2> QED
    BY <1>2, <2>1
<1> QED
  BY <1>1, <1>5

\* p is how sorted() rearranges s.
Rearranges(p, s, n) ==
  /\ p \in [1..n -> 1..n]
  /\ \A k \in 1..n : Cardinality(Earlier(s, s[p[k]])) = k - 1
  /\ \A k, m \in 1..n : p[k] = p[m] => k = m
  /\ \A i \in 1..n : \E k \in 1..n : p[k] = i
  /\ Sorted(s) = [k \in 1..n |-> s[p[k]]]

\* sorted() loses no span and invents none.
LEMMA SortedRearranges ==
  ASSUME NEW n \in Nat, NEW s, Listed(s, n)
  PROVE  \E p : Rearranges(p, s, n)
<1> DEFINE rank(i) == Cardinality(Earlier(s, s[i]))
           p == [k \in 1..n |-> CHOOSE i \in 1..n : rank(i) = k - 1]
<1>1. DOMAIN s = 1..n /\ \A i \in 1..n : rank(i) \in Nat
  BY EarlierFinite
<1>2. /\ \A m \in 1..n : \E i \in 1..n : rank(i) = m - 1
      /\ \A i, j \in 1..n : rank(i) = rank(j) => i = j
  BY RanksAreOnto
<1>3. Sorted(s) = [k \in 1..n |-> s[p[k]]]
  <2> DEFINE ranked == {[rank |-> Cardinality({b \in AllOf(s) : Before(b, a)}), span |-> a] :
                          a \in AllOf(s)}
  <2>1. Sorted(s) = [k \in 1..n |-> (CHOOSE r \in ranked : r.rank = k - 1).span]
    BY <1>1, Zenon DEF Sorted, AllOf
  <2>2. ranked = {[rank |-> rank(i), span |-> s[i]] : i \in 1..n}
    BY <1>1 DEF AllOf, Earlier
  <2> HIDE DEF ranked, rank
  <2>3. ASSUME NEW k \in 1..n
        PROVE  (CHOOSE r \in ranked : r.rank = k - 1).span = s[p[k]]
    <3>1. p[k] \in 1..n /\ rank(p[k]) = k - 1
      BY <1>2
    <3> HIDE DEF p
    <3>2. [rank |-> rank(p[k]), span |-> s[p[k]]] \in ranked
      BY <2>2, <3>1
    <3> DEFINE chosen == CHOOSE r \in ranked : r.rank = k - 1
    <3>3. chosen \in ranked /\ chosen.rank = k - 1
      <4>1. [rank |-> rank(p[k]), span |-> s[p[k]]].rank = k - 1
        BY <3>1
      <4> QED
        BY <3>2, <4>1, Zenon
    <3> HIDE DEF chosen
    <3>4. PICK i \in 1..n : chosen = [rank |-> rank(i), span |-> s[i]]
      BY <2>2, <3>3
    <3>5. i = p[k]
      BY <1>2, <3>1, <3>3, <3>4
    <3>6. chosen.span = s[p[k]]
      BY <3>4, <3>5
    <3> QED
      BY <3>6 DEF chosen
  <2> QED
    BY <2>1, <2>3
<1> HIDE DEF rank
<1>4. \A k \in 1..n : p[k] \in 1..n /\ rank(p[k]) = k - 1
  BY <1>2
<1>5. p \in [1..n -> 1..n]
  BY <1>2
<1> HIDE DEF p
<1>6. \A k, m \in 1..n : p[k] = p[m] => k = m
  BY <1>4
<1>7. \A i \in 1..n : \E k \in 1..n : p[k] = i
  <2> SUFFICES ASSUME NEW i \in 1..n PROVE \E k \in 1..n : p[k] = i
    OBVIOUS
  <2>1. rank(i) \in 0..(n - 1)
    BY <1>1, RankBelow DEF rank
  <2>2. rank(i) + 1 \in 1..n /\ rank(p[rank(i) + 1]) = rank(i) /\ p[rank(i) + 1] \in 1..n
    BY <1>4, <2>1
  <2> QED
    BY <1>2, <2>2
<1>8. Rearranges(p, s, n)
  BY <1>3, <1>4, <1>5, <1>6, <1>7 DEF Rearranges, rank
<1> QED
  BY <1>8

NeverDown(f, n) ==
  /\ \A i \in 1..n : f[i] \in Int
  /\ \A i \in 1..(n - 1) : f[i] <= f[i + 1]

\* What never goes down between neighbours is ordered as a whole.
LEMMA NeverDownAtAll ==
  ASSUME NEW n \in Nat, NEW f, NeverDown(f, n)
  PROVE  \A i, j \in 1..n : i <= j => f[i] <= f[j]
<1> DEFINE T == {d \in Nat : \E i \in 1..n : i + d \in 1..n /\ ~(f[i] <= f[i + d])}
<1>1. T = {}
  <2> SUFFICES ASSUME T # {} PROVE FALSE
    OBVIOUS
  <2>1. PICK d \in T : \A e \in T : d <= e
    <3> HIDE DEF T
    <3>1. T \subseteq Nat
      BY DEF T
    <3> QED
      BY <3>1, LeastNat
  <2>2. PICK i \in 1..n : i + d \in 1..n /\ ~(f[i] <= f[i + d])
    OBVIOUS
  <2>3. d # 0
    BY <2>2 DEF NeverDown
  <2>4. f[i] <= f[i + (d - 1)]
    <3>1. d - 1 \in Nat /\ d - 1 \notin T
      BY <2>1, <2>3
    <3> QED
      BY <2>2, <3>1
  <2>5. i + d - 1 \in 1..(n - 1) /\ (i + d - 1) + 1 = i + d /\ i + (d - 1) = i + d - 1
    BY <2>2, <2>3
  <2>6. /\ f[i + d - 1] <= f[i + d] /\ f[i + d - 1] \in Int
        /\ f[i] \in Int /\ f[i + d] \in Int
    BY <2>2, <2>5 DEF NeverDown
  <2> QED
    BY <2>2, <2>4, <2>5, <2>6
<1>2. ASSUME NEW i \in 1..n, NEW j \in 1..n, i <= j PROVE f[i] <= f[j]
  <2>1. j - i \in Nat /\ i + (j - i) = j
    BY <1>2
  <2>2. \A d \in Nat : i + d \in 1..n => f[i] <= f[i + d]
    BY <1>1
  <2> QED
    BY <2>1, <2>2
<1> QED
  BY <1>2

\* Spans that come in order stay where they are.
LEMMA InOrderStays ==
  ASSUME NEW n \in Nat, NEW s, Listed(s, n),
         \A i, j \in 1..n : i < j => Before(s[i], s[j]),
         NEW p, Rearranges(p, s, n)
  PROVE  \A k \in 1..n : p[k] = k
<1>1. ASSUME NEW i \in 1..n PROVE Cardinality(Earlier(s, s[i])) = i - 1
  <2>1. \A j \in 1..n : Before(s[j], s[i]) <=> j < i
    BY BeforeOrders
  <2>2. DOMAIN s = 1..n
    BY EarlierFinite
  <2>3. Earlier(s, s[i]) = {s[j] : j \in 1..(i - 1)}
    BY <2>1, <2>2 DEF Earlier, AllOf
  <2> DEFINE f == [j \in 1..(i - 1) |-> s[j]]
             E == {s[j] : j \in 1..(i - 1)}
  <2>4. \A j, k \in 1..(i - 1) : s[j] = s[k] => j = k
    BY DEF Listed
  <2>5. f \in Bijection(1..(i - 1), E)
    BY <2>4 DEF Bijection, Injection, Surjection, IsInjective
  <2>6. IsFiniteSet(1..(i - 1)) /\ Cardinality(1..(i - 1)) = i - 1
    BY FS_Interval
  <2> HIDE DEF f, E
  <2>7. Cardinality(E) = i - 1
    BY <2>5, <2>6, FS_Bijection DEF ExistsBijection
  <2> QED
    BY <2>3, <2>7 DEF E
<1>2. ASSUME NEW k \in 1..n PROVE p[k] = k
  <2>1. p[k] \in 1..n /\ Cardinality(Earlier(s, s[p[k]])) = k - 1
    BY DEF Rearranges
  <2>2. Cardinality(Earlier(s, s[p[k]])) = p[k] - 1
    BY <1>1, <2>1
  <2> QED
    BY <2>1, <2>2
<1> QED
  BY <1>2

\* u adds up the numbers of d.
AddsUp(u, d, n) ==
  u = [k \in 0..n |-> IF k = 0 THEN 0 ELSE u[k - 1] + d[k]]

\* The recursion of UpTo has a solution, up to any length.
LEMMA AddsUpExists ==
  ASSUME NEW d, NEW n \in Nat
  PROVE  \E u : AddsUp(u, d, n)
<1> DEFINE T == {m \in Nat : ~ \E u : AddsUp(u, d, m)}
<1> SUFFICES ASSUME T # {} PROVE FALSE
  OBVIOUS
<1>1. PICK m \in T : \A k \in T : m <= k
  BY LeastNat
<1>2. m # 0
  <2>1. AddsUp([k \in 0..0 |-> 0], d, 0)
    BY DEF AddsUp
  <2> QED
    BY <2>1
<1>3. PICK u : AddsUp(u, d, m - 1)
  BY <1>1, <1>2
<1> DEFINE v == [k \in 0..m |-> IF k = 0 THEN 0 ELSE u[k - 1] + d[k]]
<1>4. \A k \in 0..(m - 1) : u[k] = IF k = 0 THEN 0 ELSE u[k - 1] + d[k]
  BY <1>3, <1>1, <1>2 DEF AddsUp
<1>5. \A k \in 0..(m - 1) : v[k] = u[k]
  BY <1>4, <1>1, <1>2
<1>6. \A k \in 0..m : k # 0 => v[k - 1] = u[k - 1]
  <2> HIDE DEF v
  <2> QED
    BY <1>5, <1>1, <1>2
<1>7. AddsUp(v, d, m)
  BY <1>6 DEF AddsUp
<1> QED
  BY <1>7

\* ... which is what UpTo stands for.
LEMMA UpToIs ==
  ASSUME NEW d, NEW n \in Nat, \A k \in 1..n : d[k] \in Int
  PROVE  /\ UpTo(d, n)[0] = 0
         /\ \A k \in 1..n : UpTo(d, n)[k] = UpTo(d, n)[k - 1] + d[k]
         /\ \A k \in 0..n : UpTo(d, n)[k] \in Int
<1> DEFINE u == UpTo(d, n)
<1>1. AddsUp(u, d, n)
  <2>1. u = CHOOSE v : v = [k \in 0..n |-> IF k = 0 THEN 0 ELSE v[k - 1] + d[k]]
    BY DEF UpTo
  <2>2. \E v : v = [k \in 0..n |-> IF k = 0 THEN 0 ELSE v[k - 1] + d[k]]
    BY AddsUpExists DEF AddsUp
  <2> HIDE DEF u
  <2>3. u = [k \in 0..n |-> IF k = 0 THEN 0 ELSE u[k - 1] + d[k]]
    BY <2>1, <2>2, Zenon
  <2> QED
    BY <2>3 DEF AddsUp
<1> HIDE DEF u
<1>2. u[0] = 0 /\ \A k \in 1..n : u[k] = u[k - 1] + d[k]
  BY <1>1 DEF AddsUp
<1> DEFINE T == {k \in Nat : k \in 0..n /\ u[k] \notin Int}
<1>3. T = {}
  <2> SUFFICES ASSUME T # {} PROVE FALSE
    OBVIOUS
  <2>1. PICK k \in T : \A j \in T : k <= j
    BY LeastNat
  <2>2. k \in 1..n
    BY <1>2
  <2>3. k - 1 \in 0..n /\ k - 1 \notin T
    BY <2>1, <2>2
  <2> QED
    BY <1>2, <2>2, <2>3
<1> QED
  BY <1>2, <1>3 DEF u

\* The running time is what replay_trace's loop computes.
LEMMA CumulativeIs ==
  ASSUME NEW s, NEW n \in Nat, \A k \in 1..n : s[k].duration_ms \in Int
  PROVE  /\ Cumulative(s, n)[0] = 0
         /\ \A k \in 1..n :
              Cumulative(s, n)[k] = Cumulative(s, n)[k - 1] + s[k].duration_ms
         /\ \A k \in 0..n : Cumulative(s, n)[k] \in Int
<1> DEFINE d == [k \in 1..n |-> s[k].duration_ms]
<1>1. Cumulative(s, n) = UpTo(d, n)
  BY DEF Cumulative
<1>2. \A k \in 1..n : d[k] = s[k].duration_ms /\ d[k] \in Int
  OBVIOUS
<1> HIDE DEF d
<1> QED
  BY <1>1, <1>2, UpToIs

\* p takes 1..n to itself, every number once; u adds up the numbers of d in the
\* order of p.
Walks(u, d, p, n) ==
  /\ p \in [1..n -> 1..n]
  /\ \A k, m \in 1..n : p[k] = p[m] => k = m
  /\ \A i \in 1..n : \E k \in 1..n : p[k] = i
  /\ \A i \in 1..n : d[i] \in Int
  /\ u[0] = 0 /\ \A k \in 0..n : u[k] \in Int
  /\ \A k \in 1..n : u[k] = u[k - 1] + d[p[k]]

\* One number fewer: the last one is left out wherever p has it.
LEMMA WalkWithoutLast ==
  ASSUME NEW n \in Nat \ {0}, NEW u, NEW d, NEW p, Walks(u, d, p, n)
  PROVE  \E v, q : /\ Walks(v, d, q, n - 1)
                   /\ u[n] = v[n - 1] + d[n]
<1>1. PICK j \in 1..n : p[j] = n
  BY DEF Walks
<1> DEFINE q == [k \in 1..(n - 1) |-> IF k < j THEN p[k] ELSE p[k + 1]]
           last == d[n]
           v == [k \in 0..(n - 1) |-> IF k < j THEN u[k] ELSE u[k + 1] - last]
<1>2. \A k \in 1..n : p[k] \in 1..n /\ (k # j => p[k] \in 1..(n - 1))
  <2>1. \A k \in 1..n : p[k] \in 1..n
    BY DEF Walks
  <2>2. \A k \in 1..n : p[k] = p[j] => k = j
    BY DEF Walks
  <2> QED
    BY <1>1, <2>1, <2>2
<1>3. last \in Int /\ \A i \in 1..n : d[i] \in Int
  BY DEF Walks
<1>4. /\ u[0] = 0 /\ \A k \in 0..n : u[k] \in Int
      /\ \A k \in 1..n : u[k] = u[k - 1] + d[p[k]]
      /\ u[j] = u[j - 1] + last
  BY <1>1 DEF Walks
<1>5. /\ \A k \in 1..(n - 1) : q[k] = IF k < j THEN p[k] ELSE p[k + 1]
      /\ \A k \in 0..(n - 1) : v[k] = IF k < j THEN u[k] ELSE u[k + 1] - last
  OBVIOUS
<1>6. q \in [1..(n - 1) -> 1..(n - 1)]
  BY <1>2
<1> HIDE DEF q, v, last
<1>7. \A k, m \in 1..(n - 1) : q[k] = q[m] => k = m
  <2>1. \A k, m \in 1..n : p[k] = p[m] => k = m
    BY DEF Walks
  <2> QED
    BY <1>5, <2>1
<1>8. ASSUME NEW i \in 1..(n - 1) PROVE \E k \in 1..(n - 1) : q[k] = i
  <2>1. PICK k \in 1..n : p[k] = i
    BY DEF Walks
  <2>2. k # j
    BY <1>1, <2>1
  <2>3. CASE k < j
    BY <1>5, <2>1, <2>3
  <2>4. CASE k > j
    <3>1. k - 1 \in 1..(n - 1) /\ ~(k - 1 < j) /\ (k - 1) + 1 = k
      BY <2>4
    <3> QED
      BY <1>5, <2>1, <3>1
  <2> QED
    BY <2>2, <2>3, <2>4
<1>9. v[0] = 0 /\ \A k \in 0..(n - 1) : v[k] \in Int
  <2>1. 0 < j /\ 0 \in 0..(n - 1)
    OBVIOUS
  <2>2. \A k \in 0..(n - 1) : u[k] \in Int /\ u[k + 1] \in Int
    BY <1>4
  <2> QED
    BY <1>3, <1>4, <1>5, <2>1, <2>2
<1>10. ASSUME NEW k \in 1..(n - 1) PROVE v[k] = v[k - 1] + d[q[k]]
  <2>1. k \in 0..(n - 1) /\ k - 1 \in 0..(n - 1) /\ k \in 1..n /\ k + 1 \in 1..n
        /\ (k + 1) - 1 = k /\ (k - 1) + 1 = k
    OBVIOUS
  <2>2. /\ u[k] = u[k - 1] + d[p[k]]
        /\ u[k + 1] = u[k] + d[p[k + 1]]
    BY <1>4, <2>1
  <2>3. /\ u[k] \in Int /\ u[k - 1] \in Int /\ u[k + 1] \in Int
        /\ d[p[k + 1]] \in Int
    BY <1>2, <1>3, <1>4, <2>1
  <2>4. CASE k < j
    BY <1>5, <2>1, <2>2, <2>4
  <2>5. CASE k = j
    <3>1. v[k] = u[k + 1] - last /\ v[k - 1] = u[k - 1] /\ q[k] = p[k + 1]
      BY <1>5, <2>1, <2>5
    <3> QED
      BY <1>3, <1>4, <2>2, <2>3, <2>5, <3>1
  <2>6. CASE k > j
    <3>1. v[k] = u[k + 1] - last /\ v[k - 1] = u[k] - last /\ q[k] = p[k + 1]
      BY <1>5, <2>1, <2>6
    <3> QED
      BY <1>3, <2>2, <2>3, <3>1
  <2> QED
    BY <2>4, <2>5, <2>6
<1>11. u[n] = v[n - 1] + last
  <2>1. n - 1 \in 0..(n - 1) /\ (n - 1) + 1 = n /\ u[n] \in Int /\ u[n - 1] \in Int
    BY <1>4
  <2>2. CASE j = n
    <3>1. v[n - 1] = u[n - 1] /\ u[n] = u[n - 1] + last
      BY <1>4, <1>5, <2>1, <2>2
    <3> QED
      BY <3>1
  <2>3. CASE j < n
    <3>1. v[n - 1] = u[n] - last
      BY <1>5, <2>1, <2>3
    <3> QED
      BY <1>3, <2>1, <3>1
  <2> QED
    BY <2>2, <2>3
<1>12. Walks(v, d, q, n - 1)
  <2>1. \A i \in 1..(n - 1) : d[i] \in Int
    BY DEF Walks
  <2> QED
    BY <1>6, <1>7, <1>8, <1>9, <1>10, <2>1 DEF Walks
<1> QED
  BY <1>11, <1>12 DEF last

\* In whatever order they are taken, the numbers add up to the same.
LEMMA WalkTakesAll ==
  ASSUME NEW n \in Nat, NEW u, NEW d, NEW p, Walks(u, d, p, n),
         NEW w, w[0] = 0, \A k \in 1..n : w[k] = w[k - 1] + d[k]
  PROVE  u[n] = w[n]
<1> DEFINE T == {m \in Nat : m <= n /\ \E v, q : Walks(v, d, q, m) /\ v[m] # w[m]}
<1>1. T = {}
  <2> SUFFICES ASSUME T # {} PROVE FALSE
    OBVIOUS
  <2>1. PICK m \in T : \A k \in T : m <= k
    BY LeastNat
  <2>2. PICK v, q : Walks(v, d, q, m) /\ v[m] # w[m]
    OBVIOUS
  <2>3. m # 0
    BY <2>2 DEF Walks
  <2>4. PICK x, r : Walks(x, d, r, m - 1) /\ v[m] = x[m - 1] + d[m]
    BY <2>2, <2>3, WalkWithoutLast
  <2>5. m - 1 \in Nat /\ m - 1 <= n /\ m - 1 \notin T /\ m \in 1..n
    BY <2>1, <2>3
  <2>6. x[m - 1] = w[m - 1]
    BY <2>4, <2>5
  <2> QED
    BY <2>2, <2>4, <2>5, <2>6
<1> QED
  BY <1>1

\* Cutting to milliseconds: less than one is lost, and no order.
LEMMA MsIs ==
  ASSUME NEW t \in Int
  PROVE  /\ Ms(t) \in Int
         /\ t >= 0 => Ms(t) >= 0 /\ 1000 * Ms(t) <= t /\ 1000 * Ms(t) > t - 1000
BY DEF Ms

LEMMA MsKeepsOrder ==
  ASSUME NEW t \in Int, NEW r \in Int, t <= r
  PROVE  Ms(t) <= Ms(r)
BY DEF Ms

\* e adds up the times between the readings of c that belong together, u the
\* same times cut to milliseconds.
Tells(u, d, e, c, n) ==
  /\ \A k \in 0..n : u[k] \in Int /\ e[k] \in Int
  /\ u[0] = 0 /\ e[0] = 0
  /\ \A k \in 1..n :
       /\ u[k] = u[k - 1] + d[k] /\ e[k] = e[k - 1] + (c[2 * k] - c[2 * k - 1])
       /\ d[k] \in Int /\ 1000 * d[k] <= c[2 * k] - c[2 * k - 1]
       /\ 1000 * d[k] > (c[2 * k] - c[2 * k - 1]) - 1000

\* ... which falls short of them by less than one each, and of the whole.
LEMMA ToldBetween ==
  ASSUME NEW n \in Nat, NEW c, NEW d, NEW u, NEW e, NeverDown(c, 2 * n), Tells(u, d, e, c, n)
  PROVE  \A i \in 1..n : /\ 1000 * u[i] <= c[2 * i] - c[1]
                         /\ 1000 * u[i] > e[i] - 1000 * i
<1> DEFINE Between(i) == /\ 1000 * u[i] <= c[2 * i] - c[1]
                         /\ 1000 * u[i] > e[i] - 1000 * i
           T == {i \in Nat : i \in 1..n /\ ~Between(i)}
<1>1. T = {}
  <2> SUFFICES ASSUME T # {} PROVE FALSE
    OBVIOUS
  <2>1. PICK i \in T : \A k \in T : i <= k
    <3> HIDE DEF T
    <3>1. T \subseteq Nat
      BY DEF T
    <3> QED
      BY <3>1, LeastNat
  <2>2. i \in 1..n /\ ~Between(i)
    OBVIOUS
  <2>3. i - 1 = 0 \/ Between(i - 1)
    <3>1. i - 1 \in Nat /\ i - 1 \notin T
      BY <2>1, <2>2
    <3> HIDE DEF Between
    <3> QED
      BY <2>2, <3>1
  <2>4. /\ i - 1 \in 0..n /\ i \in 0..n
        /\ 2 * i \in 1..(2 * n) /\ 2 * i - 1 \in 1..(2 * n) /\ 1 \in 1..(2 * n)
    BY <2>2
  <2>5. /\ u[i] \in Int /\ u[i - 1] \in Int /\ e[i] \in Int /\ e[i - 1] \in Int
        /\ c[2 * i] \in Int /\ c[2 * i - 1] \in Int /\ c[1] \in Int
    BY <2>4 DEF NeverDown, Tells
  <2>6. /\ u[i] = u[i - 1] + d[i] /\ e[i] = e[i - 1] + (c[2 * i] - c[2 * i - 1])
        /\ d[i] \in Int /\ 1000 * d[i] <= c[2 * i] - c[2 * i - 1]
        /\ 1000 * d[i] > (c[2 * i] - c[2 * i - 1]) - 1000
    BY <2>2 DEF Tells
  <2>7. CASE i - 1 = 0
    <3>1. u[i] = d[i] /\ e[i] = c[2 * i] - c[2 * i - 1] /\ i = 1 /\ 2 * i - 1 = 1
      BY <2>2, <2>5, <2>6, <2>7 DEF Tells
    <3> QED
      BY <2>2, <2>5, <2>6, <3>1
  <2>8. CASE i - 1 # 0
    <3>1. 1000 * u[i - 1] <= c[2 * (i - 1)] - c[1] /\ 1000 * u[i - 1] > e[i - 1] - 1000 * (i - 1)
      BY <2>3, <2>8
    <3>2. 2 * (i - 1) \in 1..(2 * n - 1) /\ 2 * (i - 1) + 1 = 2 * i - 1
      BY <2>2, <2>8
    <3>3. c[2 * (i - 1)] \in Int /\ c[2 * (i - 1)] <= c[2 * i - 1]
      <4>1. c[2 * (i - 1)] <= c[2 * (i - 1) + 1]
        BY <3>2 DEF NeverDown
      <4>2. 2 * (i - 1) \in 1..(2 * n)
        BY <3>2
      <4> QED
        BY <3>2, <4>1, <4>2 DEF NeverDown
    <3> QED
      BY <2>2, <2>5, <2>6, <3>1, <3>3
  <2> QED
    BY <2>7, <2>8
<1>2. ASSUME NEW i \in 1..n PROVE Between(i)
  <2>1. i \in Nat /\ i \notin T
    BY <1>1
  <2> QED
    BY <2>1
<1> QED
  BY <1>2

\* The steps of a trace never go down (SpansInv).
StepsInOrder == \A i \in 1..(Len(trace) - 1) : trace[i].step <= trace[i + 1].step

\* What a trace is made of.
LEMMA TraceSteps ==
  ASSUME trace \in Seq(Span)
  PROVE  /\ Len(trace) \in Nat /\ DOMAIN trace = 1..Len(trace)
         /\ \A i \in 1..Len(trace) : trace[i].step \in Nat
<1>1. \A i \in 1..Len(trace) : trace[i] \in Span
  OBVIOUS
<1>2. \A x \in Span : x.step \in Nat
  BY DEF Span
<1> QED
  BY <1>1, <1>2

\* The courses of the clock, in microseconds.
Clocks == [1..(2 * Len(trace)) -> Int]

LEMMA ClockIs ==
  ASSUME trace \in Seq(Span), NEW clock \in Clocks
  PROVE  \A i \in 1..Len(trace) :
           /\ StartOf(clock, i) = clock[2 * i - 1] /\ StartOf(clock, i) \in Int
           /\ EndOf(clock, i) = clock[2 * i] /\ EndOf(clock, i) \in Int
<1> SUFFICES ASSUME NEW i \in 1..Len(trace)
             PROVE  clock[2 * i - 1] \in Int /\ clock[2 * i] \in Int
  BY DEF StartOf, EndOf
<1>1. 2 * i - 1 \in 1..(2 * Len(trace)) /\ 2 * i \in 1..(2 * Len(trace))
  BY TraceSteps
<1> QED
  BY <1>1 DEF Clocks

\* With any readings of the clock a trace is a list of timed spans.
LEMMA TimedListed ==
  ASSUME trace \in Seq(Span), NEW clock \in Clocks
  PROVE  /\ Listed(Timed(clock), Len(trace))
         /\ \A i \in 1..Len(trace) :
              /\ Timed(clock)[i].span = trace[i]
              /\ Timed(clock)[i].timestamp_ms = Ms(StartOf(clock, i))
              /\ Timed(clock)[i].duration_ms = Ms(EndOf(clock, i) - StartOf(clock, i))
<1>1. DOMAIN trace = 1..Len(trace) /\ \A i \in 1..Len(trace) : trace[i].step \in Nat
  BY TraceSteps
<1>2. \A i \in 1..Len(trace) : /\ Ms(StartOf(clock, i)) \in Int
                               /\ Ms(EndOf(clock, i) - StartOf(clock, i)) \in Int
  <2> SUFFICES ASSUME NEW i \in 1..Len(trace)
               PROVE  /\ Ms(StartOf(clock, i)) \in Int
                      /\ Ms(EndOf(clock, i) - StartOf(clock, i)) \in Int
    OBVIOUS
  <2>1. StartOf(clock, i) \in Int /\ EndOf(clock, i) - StartOf(clock, i) \in Int
    BY ClockIs
  <2> DEFINE begun == StartOf(clock, i)
             took == EndOf(clock, i) - StartOf(clock, i)
  <2> HIDE DEF begun, took
  <2>2. Ms(begun) \in Int /\ Ms(took) \in Int
    BY <2>1, MsIs DEF begun, took
  <2> QED
    BY <2>2 DEF begun, took
<1> QED
  BY <1>1, <1>2 DEF Timed, Listed

\* A clock that does not go back orders all its readings.
LEMMA ClockGoesUp ==
  ASSUME trace \in Seq(Span), NEW clock \in Clocks, NeverBack(clock)
  PROVE  /\ NeverDown(clock, 2 * Len(trace))
         /\ \A i, j \in 1..Len(trace) : i <= j => StartOf(clock, i) <= StartOf(clock, j)
         /\ \A i \in 1..Len(trace) : StartOf(clock, i) <= EndOf(clock, i)
<1> DEFINE n == 2 * Len(trace)
<1>1. Len(trace) \in Nat /\ n \in Nat
  BY TraceSteps
<1>2. NeverDown(clock, n)
  BY <1>1 DEF NeverBack, NeverDown, Clocks
<1>3. \A i, j \in 1..n : i <= j => clock[i] <= clock[j]
  <2> HIDE DEF n
  <2> QED
    BY <1>1, <1>2, NeverDownAtAll
<1>4. ASSUME NEW i \in 1..Len(trace), NEW j \in 1..Len(trace), i <= j
      PROVE  StartOf(clock, i) <= StartOf(clock, j)
  <2>1. 2 * i - 1 \in 1..n /\ 2 * j - 1 \in 1..n /\ 2 * i - 1 <= 2 * j - 1
    BY <1>1, <1>4
  <2> HIDE DEF n
  <2> QED
    BY <1>3, <2>1 DEF StartOf
<1>5. ASSUME NEW i \in 1..Len(trace)
      PROVE  StartOf(clock, i) <= EndOf(clock, i)
  <2>1. 2 * i - 1 \in 1..n /\ 2 * i \in 1..n /\ 2 * i - 1 <= 2 * i
    BY <1>1
  <2> HIDE DEF n
  <2> QED
    BY <1>3, <2>1 DEF StartOf, EndOf
<1> QED
  BY <1>2, <1>4, <1>5

\* While the clock does not go back, the spans are timed in their order.
LEMMA TimedInOrder ==
  ASSUME trace \in Seq(Span), StepsInOrder, NEW clock \in Clocks, NeverBack(clock)
  PROVE  \A i, j \in 1..Len(trace) : i < j => Before(Timed(clock)[i], Timed(clock)[j])
<1> DEFINE n == Len(trace)
           s == Timed(clock)
           f == [i \in 1..n |-> trace[i].step]
<1>1. n \in Nat /\ \A i \in 1..n : trace[i].step \in Nat
  BY TraceSteps
<1>2. NeverDown(f, n)
  BY <1>1 DEF StepsInOrder, NeverDown
<1>3. \A i, j \in 1..n : i <= j => f[i] <= f[j]
  <2> HIDE DEF f, n
  <2> QED
    BY <1>1, <1>2, NeverDownAtAll
<1>4. \A i, j \in 1..n : i <= j => trace[i].step <= trace[j].step
  BY <1>3
<1>5. \A i, j \in 1..n : i <= j => StartOf(clock, i) <= StartOf(clock, j)
  BY ClockGoesUp
<1>6. \A i \in 1..n : StartOf(clock, i) \in Int
  BY ClockIs
<1>7. /\ Listed(s, n)
      /\ \A i \in 1..n : s[i].span = trace[i] /\ s[i].timestamp_ms = Ms(StartOf(clock, i))
  BY TimedListed
<1> HIDE DEF n, s
<1>8. ASSUME NEW i \in 1..n, NEW j \in 1..n, i < j PROVE Before(s[i], s[j])
  <2>1. /\ s[i].span.step \in Nat /\ s[j].span.step \in Nat
        /\ s[i].timestamp_ms \in Int /\ s[j].timestamp_ms \in Int
        /\ s[i].place = i /\ s[j].place = j
    BY <1>7 DEF Listed
  <2>2. i <= j
    BY <1>1, <1>8
  <2>3. s[i].span.step <= s[j].span.step
    BY <1>4, <1>7, <2>2
  <2>4. s[i].timestamp_ms <= s[j].timestamp_ms
    BY <1>5, <1>6, <1>7, <2>2, MsKeepsOrder
  <2> QED
    BY <1>8, <2>1, <2>3, <2>4 DEF Before
<1> QED
  BY <1>8 DEF n, s

\* A trace whose steps never go down is retold, whatever the clock did.
LEMMA TraceIsRetold ==
  ASSUME trace \in Seq(Span), trace # <<>>, StepsInOrder,
         NEW clock \in Clocks
  PROVE  Retells(clock)
<1> DEFINE n == Len(trace)
           s == Timed(clock)
           d == [i \in 1..n |-> s[i].duration_ms]
           x == [i \in 1..n |-> EndOf(clock, i) - StartOf(clock, i)]
           u == Cumulative(Sorted(s), n)
           w == Cumulative(s, n)
           e == InHandlers(clock)
           replay == Replay(clock)
<1>1. /\ n \in Nat \ {0} /\ DOMAIN trace = 1..n
      /\ \A i \in 1..n : trace[i].step \in Nat
  BY TraceSteps
<1>2. /\ Listed(s, n)
      /\ \A i \in 1..n : s[i].span = trace[i] /\ d[i] = s[i].duration_ms /\ d[i] \in Int
      /\ \A i \in 1..n : d[i] = Ms(x[i])
  BY TimedListed DEF Listed
<1>3. PICK p : Rearranges(p, s, n)
  <2> HIDE DEF s, n
  <2> QED
    BY <1>1, <1>2, SortedRearranges
<1>4. replay = [k \in 1..n |-> [span |-> Sorted(s)[k].span, cumulative_duration_ms |-> u[k]]]
  BY <1>1 DEF Replay
<1>5. NeverBack(clock) => \A i, j \in 1..n : i < j => Before(s[i], s[j])
  BY TimedInOrder
<1>6. /\ w[0] = 0 /\ \A k \in 0..n : w[k] \in Int
      /\ \A k \in 1..n : w[k] = w[k - 1] + d[k]
  <2>1. \A k \in 1..n : s[k].duration_ms \in Int
    BY <1>2
  <2> HIDE DEF s, n
  <2>2. /\ w[0] = 0 /\ \A k \in 0..n : w[k] \in Int
        /\ \A k \in 1..n : w[k] = w[k - 1] + s[k].duration_ms
    BY <1>1, <2>1, CumulativeIs
  <2> QED
    BY <1>2, <2>2
<1>7. /\ \A i \in 1..n : x[i] = clock[2 * i] - clock[2 * i - 1] /\ x[i] \in Int
      /\ NeverBack(clock) => NeverDown(clock, 2 * n) /\ \A i \in 1..n : x[i] >= 0
  BY ClockIs, ClockGoesUp
<1>8. /\ e[0] = 0 /\ \A k \in 0..n : e[k] \in Int
      /\ \A k \in 1..n : e[k] = e[k - 1] + x[k]
  <2>1. e = UpTo(x, n)
    BY DEF InHandlers
  <2> HIDE DEF e, x, n
  <2> QED
    BY <1>1, <1>7, <2>1, UpToIs
<1> HIDE DEF n, s, replay, d, x, w, e
<1>9. /\ p \in [1..n -> 1..n] /\ Sorted(s) = [k \in 1..n |-> s[p[k]]]
      /\ \A k, m \in 1..n : p[k] = p[m] => k = m
      /\ \A i \in 1..n : \E k \in 1..n : p[k] = i
      /\ \A k \in 1..n : Cardinality(Earlier(s, s[p[k]])) = k - 1
  BY <1>3 DEF Rearranges
<1>10. \A k \in 1..n : /\ p[k] \in 1..n /\ Sorted(s)[k].span = trace[p[k]]
                       /\ Sorted(s)[k].duration_ms = d[p[k]]
                       /\ Sorted(s)[k].duration_ms \in Int
  <2> SUFFICES ASSUME NEW k \in 1..n
               PROVE  /\ p[k] \in 1..n /\ Sorted(s)[k].span = trace[p[k]]
                      /\ Sorted(s)[k].duration_ms = d[p[k]]
                      /\ Sorted(s)[k].duration_ms \in Int
    OBVIOUS
  <2>2. p[k] \in 1..n /\ Sorted(s)[k] = s[p[k]]
    BY <1>9
  <2>3. s[p[k]].span = trace[p[k]] /\ s[p[k]].duration_ms = d[p[k]] /\ d[p[k]] \in Int
    BY <1>2, <2>2
  <2> QED
    BY <2>2, <2>3
<1>11. /\ u[0] = 0 /\ \A k \in 0..n : u[k] \in Int
       /\ \A k \in 1..n : u[k] = u[k - 1] + Sorted(s)[k].duration_ms
  BY <1>1, <1>10, CumulativeIs
<1> HIDE DEF u
<1>12. Walks(u, d, p, n)
  <2>1. \A k \in 1..n : u[k] = u[k - 1] + d[p[k]]
    BY <1>10, <1>11
  <2> QED
    BY <1>1, <1>2, <1>9, <1>11, <2>1 DEF Walks
<1>13. u[n] = w[n]
  <2> HIDE DEF Walks
  <2> QED
    BY <1>1, <1>12, <1>6, WalkTakesAll
<1>14. \A k \in 1..n : /\ replay[k].span = trace[p[k]]
                       /\ replay[k] = [span |-> trace[p[k]], cumulative_duration_ms |-> u[k]]
  BY <1>4, <1>10
<1>15. ASSUME NEW k \in 1..(n - 1)
       PROVE  replay[k].span.step <= replay[k + 1].span.step
  <2>1. k \in 1..n /\ k + 1 \in 1..n
    BY <1>1
  <2> DEFINE i == p[k]
             j == p[k + 1]
  <2>2. i \in 1..n /\ j \in 1..n
    BY <1>10, <2>1
  <2>3. Cardinality(Earlier(s, s[i])) = k - 1 /\ Cardinality(Earlier(s, s[j])) = (k + 1) - 1
    BY <1>9, <2>1
  <2>4. i # j
    BY <2>3
  <2>5. replay[k].span = s[i].span /\ replay[k + 1].span = s[j].span
    BY <1>2, <1>14, <2>1, <2>2
  <2> HIDE DEF i, j
  <2>6. ~Before(s[j], s[i])
    BY <1>1, <1>2, <2>2, <2>3, RanksGoUp
  <2>7. Before(s[i], s[j])
    BY <1>1, <1>2, <2>2, <2>4, <2>6, BeforeOrders
  <2>8. s[i].span.step \in Nat /\ s[j].span.step \in Nat
    BY <1>2, <2>2 DEF Listed
  <2> QED
    BY <2>5, <2>7, <2>8 DEF Before
<1>16. {replay[i].span : i \in 1..n} = {trace[i] : i \in 1..n}
  <2> DEFINE shown == {replay[i].span : i \in 1..n}
             stored == {trace[i] : i \in 1..n}
  <2>1. \A k \in 1..n : p[k] \in 1..n /\ replay[k].span = trace[p[k]]
    BY <1>10, <1>14
  <2>2. ASSUME NEW i \in 1..n PROVE \E k \in 1..n : replay[k].span = trace[i]
    <3>1. PICK k \in 1..n : p[k] = i
      BY <1>9
    <3> QED
      BY <2>1, <3>1
  <2>3. \A k \in 1..n : replay[k].span \in stored
    BY <2>1
  <2>4. \A i \in 1..n : trace[i] \in shown
    BY <2>2
  <2>5. shown \subseteq stored /\ stored \subseteq shown
    BY <2>3, <2>4, Zenon
  <2> QED
    BY <2>5, Zenon
<1>17. ASSUME NEW k \in 1..n PROVE replay[k].cumulative_duration_ms = u[k]
  <2>1. replay[k] = [span |-> trace[p[k]], cumulative_duration_ms |-> u[k]]
    BY <1>14, Zenon
  <2> QED
    BY <2>1
<1>18. ASSUME NeverBack(clock)
       PROVE  /\ \A i \in 1..n : /\ replay[i].span = trace[i]
                                 /\ 1000 * u[i] <= clock[2 * i] - clock[1]
                                 /\ 1000 * u[i] > e[i] - 1000 * i
              /\ \A i \in 1..(n - 1) : u[i] <= u[i + 1]
  <2>1. \A k \in 1..n : p[k] = k
    <3>1. \A i, j \in 1..n : i < j => Before(s[i], s[j])
      BY <1>5, <1>18
    <3>2. n \in Nat /\ Listed(s, n)
      BY <1>1, <1>2
    <3> QED
      BY <1>3, <3>1, <3>2, InOrderStays
  <2>2. \A k \in 1..n : u[k] = u[k - 1] + d[k]
    BY <1>10, <1>11, <2>1
  <2>3. ASSUME NEW k \in 1..n
        PROVE  d[k] >= 0 /\ 1000 * d[k] <= x[k] /\ 1000 * d[k] > x[k] - 1000
    <3>1. x[k] \in Int /\ x[k] >= 0 /\ d[k] = Ms(x[k])
      BY <1>2, <1>18, <1>7
    <3>2. Ms(x[k]) \in Int /\ Ms(x[k]) >= 0
          /\ 1000 * Ms(x[k]) <= x[k] /\ 1000 * Ms(x[k]) > x[k] - 1000
      <4> DEFINE t == x[k]
      <4>1. t \in Int /\ t >= 0
        BY <3>1
      <4> HIDE DEF t
      <4>2. Ms(t) \in Int /\ Ms(t) >= 0 /\ 1000 * Ms(t) <= t /\ 1000 * Ms(t) > t - 1000
        BY <4>1 DEF Ms
      <4> QED
        BY <4>2 DEF t
    <3>3. Ms(x[k]) = d[k]
      BY <3>1
    <3> QED
      BY <3>2, <3>3
  <2>4. \A k \in 1..n :
          /\ u[k] = u[k - 1] + d[k] /\ e[k] = e[k - 1] + (clock[2 * k] - clock[2 * k - 1])
          /\ d[k] \in Int /\ 1000 * d[k] <= clock[2 * k] - clock[2 * k - 1]
          /\ 1000 * d[k] > (clock[2 * k] - clock[2 * k - 1]) - 1000
    <3> SUFFICES ASSUME NEW k \in 1..n
                 PROVE  /\ u[k] = u[k - 1] + d[k]
                        /\ e[k] = e[k - 1] + (clock[2 * k] - clock[2 * k - 1])
                        /\ d[k] \in Int /\ 1000 * d[k] <= clock[2 * k] - clock[2 * k - 1]
                        /\ 1000 * d[k] > (clock[2 * k] - clock[2 * k - 1]) - 1000
      OBVIOUS
    <3>1. x[k] = clock[2 * k] - clock[2 * k - 1] /\ e[k] = e[k - 1] + x[k]
      BY <1>7, <1>8
    <3>2. d[k] \in Int /\ 1000 * d[k] <= x[k] /\ 1000 * d[k] > x[k] - 1000
      BY <1>2, <2>3
    <3> QED
      BY <2>2, <3>1, <3>2
  <2>5. \A i \in 1..n : /\ 1000 * u[i] <= clock[2 * i] - clock[1]
                        /\ 1000 * u[i] > e[i] - 1000 * i
    <3>1. n \in Nat /\ NeverDown(clock, 2 * n) /\ u[0] = 0 /\ e[0] = 0
      BY <1>1, <1>11, <1>18, <1>7, <1>8
    <3>2. \A k \in 0..n : u[k] \in Int /\ e[k] \in Int
      BY <1>11, <1>8
    <3>3. Tells(u, d, e, clock, n)
      BY <2>4, <3>1, <3>2 DEF Tells
    <3> QED
      BY <3>1, <3>3, ToldBetween
  <2>6. ASSUME NEW i \in 1..(n - 1) PROVE u[i] <= u[i + 1]
    <3>1. i + 1 \in 1..n /\ (i + 1) - 1 = i /\ i \in 0..n
      BY <1>1
    <3>2. u[i + 1] = u[i] + d[i + 1] /\ d[i + 1] >= 0 /\ d[i + 1] \in Int /\ u[i] \in Int
      BY <1>2, <1>11, <2>2, <2>3, <3>1
    <3> QED
      BY <3>2
  <2>7. \A i \in 1..n : replay[i].span = trace[i]
    BY <1>14, <2>1
  <2> QED
    BY <2>5, <2>6, <2>7
<1>19. StartOf(clock, 1) = clock[1] /\ \A i \in 1..n : EndOf(clock, i) = clock[2 * i]
  BY <1>1 DEF StartOf, EndOf
<1>20. n \in 1..n /\ \A i \in 1..(n - 1) : i \in 1..n /\ i + 1 \in 1..n
  BY <1>1
<1>21. replay[n].cumulative_duration_ms = Cumulative(s, n)[n]
  BY <1>13, <1>17, <1>20 DEF w
<1>22. NeverBack(clock) =>
         /\ \A i \in 1..n :
              /\ replay[i].span = trace[i]
              /\ 1000 * replay[i].cumulative_duration_ms <= EndOf(clock, i) - StartOf(clock, 1)
              /\ 1000 * replay[i].cumulative_duration_ms > e[i] - 1000 * i
         /\ \A i \in 1..(n - 1) :
              replay[i].cumulative_duration_ms <= replay[i + 1].cumulative_duration_ms
  <2> SUFFICES ASSUME NeverBack(clock)
               PROVE  /\ \A i \in 1..n :
                           /\ replay[i].span = trace[i]
                           /\ 1000 * replay[i].cumulative_duration_ms
                                <= EndOf(clock, i) - StartOf(clock, 1)
                           /\ 1000 * replay[i].cumulative_duration_ms > e[i] - 1000 * i
                      /\ \A i \in 1..(n - 1) :
                           replay[i].cumulative_duration_ms
                             <= replay[i + 1].cumulative_duration_ms
    OBVIOUS
  <2>1. ASSUME NEW i \in 1..n
        PROVE  /\ replay[i].span = trace[i]
               /\ 1000 * replay[i].cumulative_duration_ms <= EndOf(clock, i) - StartOf(clock, 1)
               /\ 1000 * replay[i].cumulative_duration_ms > e[i] - 1000 * i
    <3>1. replay[i].cumulative_duration_ms = u[i]
      BY <1>17
    <3>2. EndOf(clock, i) = clock[2 * i] /\ StartOf(clock, 1) = clock[1]
      BY <1>19
    <3>3. /\ replay[i].span = trace[i] /\ 1000 * u[i] <= clock[2 * i] - clock[1]
          /\ 1000 * u[i] > e[i] - 1000 * i
      BY <1>18
    <3> QED
      BY <3>1, <3>2, <3>3
  <2>2. ASSUME NEW i \in 1..(n - 1)
        PROVE  replay[i].cumulative_duration_ms <= replay[i + 1].cumulative_duration_ms
    <3>1. i \in 1..n /\ i + 1 \in 1..n
      BY <1>20
    <3>2. replay[i].cumulative_duration_ms = u[i] /\ replay[i + 1].cumulative_duration_ms = u[i + 1]
      BY <1>17, <3>1
    <3>3. u[i] <= u[i + 1]
      BY <1>18
    <3> QED
      BY <3>2, <3>3
  <2> QED
    BY <2>1, <2>2
<1> QED
  BY <1>15, <1>16, <1>21, <1>22 DEF Retells, replay, n, s, e

\* ReplayRetells for every course of the clock.
RetellsAlways ==
  Found => \A clock \in Clocks : Retells(clock)

\* Whatever the clock did, a replay shows every span of the stored trace, no step
\* after a later one, and counts each stored duration once; while the clock does
\* not go back it is the run, and its running time lies between what the handlers
\* took, less a millisecond each, and the time since the run began (replay_trace).
THEOREM ReplayIsTheRun == Spec => [](ReplayRetells /\ RetellsAlways)
<1>1. ASSUME TypeOK, SpansInv, StoredInv PROVE RetellsAlways
  <2> SUFFICES ASSUME trace # <<>>, NEW clock \in Clocks
               PROVE  Retells(clock)
    BY DEF RetellsAlways, Found
  <2>1. trace = spans /\ spans \in Seq(Span)
    BY <1>1 DEF StoredInv, TypeOK, LoopTypeOK
  <2>2. StepsInOrder
    BY <1>1, <2>1 DEF SpansInv, StepsInOrder
  <2> QED
    BY <2>1, <2>2, TraceIsRetold
<1>2. TypeOK /\ StoredInv /\ trace # <<>> => Readings \subseteq Clocks
  <2> SUFFICES ASSUME TypeOK, StoredInv, trace # <<>>
               PROVE  Readings \subseteq Clocks
    OBVIOUS
  <2>1. Len(trace) \in Nat
    BY DEF StoredInv, TypeOK, LoopTypeOK
  <2> QED
    BY <2>1 DEF Readings, Clocks
<1>3. TypeOK /\ SpansInv /\ StoredInv => ReplayRetells /\ RetellsAlways
  BY <1>1, <1>2 DEF ReplayRetells, RetellsAlways, Found
<1> QED
  BY <1>3, TraceInvariant, TypeCorrect, PTL

------------------------------------------------------------------------------
\* Every step brings the run nearer to its end.

\* The responses the step limit still allows; the first is requested anyway.
RoundsLeft == (IF MaxSteps > 1 THEN MaxSteps ELSE 1) - steps

\* The way from one response to the next, and from the last state to the result.
PlaceOf ==
  [s \in AgentState |->
     CASE s = "START" -> 13
       [] s = "LOAD_MEMORY" -> 12
       [] s = "BUILD_CONTEXT" -> 11
       [] s = "PROCESS_RESPONSE" -> 10
       [] s = "EXECUTE_TOOL" -> 9
       [] s = "OBSERVE_RESULT" -> 8
       [] s = "WRITE_MEMORY" -> 7
       [] s = "CHECK_TERMINATION" -> 6
       [] s = "CALL_LLM" -> 5
       [] OTHER -> 4]

Place ==
  CASE stage = "loop" -> PlaceOf[state]
    [] stage = "answer" -> 3
    [] stage = "audit" -> 2
    [] stage = "cleanup" -> 1
    [] OTHER -> 0

\* What the handler of the current state may still await or pass.
Left ==
  CASE state \in {"LOAD_MEMORY", "WRITE_MEMORY"} -> 1 - iter
    [] state = "CALL_LLM" -> LLM_MAX_RETRIES - iter
    [] state = "EXECUTE_TOOL" -> Len(response.calls) + 1 - iter
    [] state = "OBSERVE_RESULT" -> Len(results) - iter
    [] OTHER -> 0

Rank == <<RoundsLeft, Place, Left>>
Ranks == [1..3 -> Nat]

\* A rank is lower if the first of its numbers that differs is smaller.
Nearer == LexProductOrdering(OpToRel(<, Nat), Nat, 3)

\* A handler does not go on past its last await (cf. LoopTypeOK).
IterInv ==
  /\ state \in {"LOAD_MEMORY", "WRITE_MEMORY"} => iter <= 1
  /\ state = "OBSERVE_RESULT" => iter <= Len(results)

\* What one handler does: the LLM responds, the state moves on, or the handler
\* passes one of a number of awaits that is settled.
LEMMA ExecuteAdvances ==
  ASSUME TypeOK, Execute
  PROVE  \/ state = "CALL_LLM" /\ state' = "PROCESS_RESPONSE" /\ iter' = 0 /\ steps' = steps + 1
         \/ PlaceOf[state'] < PlaceOf[state] /\ iter' = 0 /\ steps' = steps
         \/ /\ state' = state /\ iter' = iter + 1 /\ steps' = steps
            /\ \/ state \in {"LOAD_MEMORY", "WRITE_MEMORY"} /\ iter = 0
               \/ state = "CALL_LLM" /\ iter < LLM_MAX_RETRIES
               \/ state = "EXECUTE_TOOL" /\ iter <= Len(response.calls) /\ UNCHANGED response
               \/ state = "OBSERVE_RESULT" /\ iter < Len(results) /\ UNCHANGED results
<1>0. state \in AgentState /\ state' \in AgentState \union {state'}
  BY DEF TypeOK, LoopTypeOK
<1> USE DEF Goto, GotoAt, Again, FailWith, Raise, PlaceOf, AgentState
<1>1. CASE Start \/ LoadMemory \/ BuildContext
  BY <1>1 DEF Start, LoadMemory, LoadSession, LoadFacts, LoadFailed, BuildContext, budgetVars
<1>2. CASE CallLLM \/ ProcessResponse
  BY <1>2 DEF CallLLM, LLMResponds, LLMStatusError, LLMOtherError, ProcessResponse, Charge,
     budgetVars
<1>3. CASE BeginTools \/ RefuseCall \/ InvokeTool
  <2>1. iter \in Nat /\ Len(response.calls) \in Nat /\ iter <= Len(response.calls) + 1
        /\ state = "EXECUTE_TOOL" /\ UNCHANGED <<response, steps>>
        /\ iter <= Len(response.calls)
    BY <1>3 DEF BeginTools, RefuseCall, InvokeTool, AtCall, TypeOK, LoopTypeOK, ConvTypeOK,
       Response, budgetVars
  <2>2. \/ state' = state /\ iter' = iter + 1
        \/ state' = "FAIL" /\ iter' = 0
    BY <1>3 DEF BeginTools, RefuseCall, InvokeTool
  <2> QED
    BY <2>1, <2>2
<1>4. CASE FinishTools
  BY <1>4 DEF FinishTools, AfterTools, FailTools, budgetVars
<1>5. CASE Observe \/ WriteMemory
  BY <1>5 DEF Observe, ObserveResult, FinishObserve, WriteMemory, WriteUserTurn, WriteFact,
     NothingToWrite, AfterWrite, budgetVars, convVars
<1>6. CASE CheckTermination
  BY <1>6 DEF CheckTermination, budgetVars
<1> QED
  BY <1>1, <1>2, <1>3, <1>4, <1>5, <1>6 DEF Execute, ExecuteTool

\* No step takes a handler past its last await.
LEMMA IterNext == TypeOK /\ TypeOK' /\ IterInv /\ [Next]_vars => IterInv'
<1> SUFFICES ASSUME TypeOK, TypeOK', IterInv, [Next]_vars PROVE IterInv'
  OBVIOUS
<1>1. CASE Execute
  <2>1. Len(results) \in Nat /\ Len(results') \in Nat /\ iter \in Nat
    BY DEF TypeOK, LoopTypeOK, ConvTypeOK
  <2>2. \/ iter' = 0
        \/ /\ state' = state /\ iter' = iter + 1
           /\ state \in {"LOAD_MEMORY", "WRITE_MEMORY"} => iter = 0
           /\ state = "OBSERVE_RESULT" => iter < Len(results) /\ UNCHANGED results
    BY <1>1, ExecuteAdvances
  <2> QED
    BY <2>1, <2>2 DEF IterInv
<1>2. CASE ~Execute
  <2>1. UNCHANGED <<state, iter, results>>
    BY <1>2 DEF Next, RunLoop, PostRun, LeaveLoop, StoreAnswer, WriteAudit,
       DeleteWorkingMemory, Clock, TimeRunsOut, Ended, vars, ctxVars, postLoopVars, loopVars,
       convVars
  <2> QED
    BY <2>1 DEF IterInv
<1> QED
  BY <1>1, <1>2

\* None of the three numbers is ever below zero.
LEMMA RankIsRank == TypeOK /\ IterInv /\ StepsBounded => Rank \in Ranks
<1> SUFFICES ASSUME TypeOK, IterInv, StepsBounded PROVE Rank \in Ranks
  OBVIOUS
<1>1. /\ iter \in Nat /\ steps \in Nat /\ state \in AgentState /\ stage \in Stage
      /\ Len(results) \in Nat /\ Len(response.calls) \in Nat
      /\ state = "CALL_LLM" => iter <= LLM_MAX_RETRIES
      /\ state = "EXECUTE_TOOL" => iter <= Len(response.calls) + 1
  BY DEF TypeOK, LoopTypeOK, ConvTypeOK, BudgetTypeOK, StageTypeOK, Response
<1>2. RoundsLeft \in Nat
  BY <1>1, BudgetAssumption DEF StepsBounded, RoundsLeft
<1>3. Place \in Nat
  BY <1>1 DEF Place, PlaceOf, Stage, AgentState
<1>4. Left \in Nat
  BY <1>1 DEF Left, IterInv, LLM_MAX_RETRIES
<1> QED
  BY <1>2, <1>3, <1>4 DEF Rank, Ranks

\* How a rank gets lower.
LEMMA LowerRank ==
  ASSUME NEW a \in Ranks, NEW b \in Ranks,
         \/ a[1] < b[1]
         \/ a[1] = b[1] /\ a[2] < b[2]
         \/ a[1] = b[1] /\ a[2] = b[2] /\ a[3] < b[3]
  PROVE  <<a, b>> \in Nearer
<1>1. /\ a[1] \in Nat /\ a[2] \in Nat /\ a[3] \in Nat
      /\ b[1] \in Nat /\ b[2] \in Nat /\ b[3] \in Nat
  BY DEF Ranks
<1>2. \A m, n \in Nat : m < n => <<m, n>> \in OpToRel(<, Nat)
  BY DEF OpToRel
<1>3. \E j \in 1..3 : /\ \A i \in 1..(j - 1) : a[i] = b[i]
                      /\ <<a[j], b[j]>> \in OpToRel(<, Nat)
  <2>1. CASE a[1] < b[1]
    <3>1. 1 \in 1..3 /\ \A i \in 1..(1 - 1) : a[i] = b[i]
      BY <2>1
    <3>2. <<a[1], b[1]>> \in OpToRel(<, Nat)
      BY <1>1, <1>2, <2>1
    <3> QED
      BY <3>1, <3>2, Zenon
  <2>2. CASE a[1] = b[1] /\ a[2] < b[2]
    <3>1. 2 \in 1..3 /\ \A i \in 1..(2 - 1) : a[i] = b[i]
      BY <2>2
    <3>2. <<a[2], b[2]>> \in OpToRel(<, Nat)
      BY <1>1, <1>2, <2>2
    <3> QED
      BY <3>1, <3>2, Zenon
  <2>3. CASE a[1] = b[1] /\ a[2] = b[2] /\ a[3] < b[3]
    <3>1. 3 \in 1..3 /\ \A i \in 1..(3 - 1) : a[i] = b[i]
      BY <2>3
    <3>2. <<a[3], b[3]>> \in OpToRel(<, Nat)
      BY <1>1, <1>2, <2>3
    <3> QED
      BY <3>1, <3>2, Zenon
  <2> QED
    BY <2>1, <2>2, <2>3
<1> QED
  BY <1>3 DEF Nearer, LexProductOrdering, Ranks

\* A step of the loop, or one of those after it, lowers the rank: by a response
\* less to come, by a place nearer to the end, or by an await less to pass.
LEMMA StepsDescend ==
  ASSUME TypeOK, Rank \in Ranks, (Rank \in Ranks)', RunLoop \/ PostRun
  PROVE  <<Rank', Rank>> \in Nearer
<1>1. Rank \in Ranks /\ Rank' \in Ranks
  OBVIOUS
<1>2. /\ Rank[1] = RoundsLeft /\ Rank[2] = Place /\ Rank[3] = Left
      /\ Rank'[1] = RoundsLeft' /\ Rank'[2] = Place' /\ Rank'[3] = Left'
  BY DEF Rank
<1>3. /\ steps \in Nat /\ iter \in Nat /\ Len(results) \in Nat /\ Len(response.calls) \in Nat
  BY DEF TypeOK, LoopTypeOK, ConvTypeOK, BudgetTypeOK, Response
<1>4. CASE RunLoop
  <2>1. Execute /\ stage = "loop" /\ stage' = "loop"
    BY <1>4 DEF RunLoop, engineVars
  <2>2. Place = PlaceOf[state] /\ Place' = PlaceOf[state']
    BY <2>1 DEF Place
  <2>3. CASE steps' = steps + 1
    <3>1. RoundsLeft' < RoundsLeft
      BY <1>3, <2>3, BudgetAssumption DEF RoundsLeft
    <3> QED
      BY <1>1, <1>2, <3>1, LowerRank
  <2>4. CASE PlaceOf[state'] < PlaceOf[state] /\ steps' = steps
    <3>1. RoundsLeft' = RoundsLeft /\ Place' < Place
      BY <2>2, <2>4 DEF RoundsLeft
    <3> QED
      BY <1>1, <1>2, <3>1, LowerRank
  <2>5. CASE /\ state' = state /\ iter' = iter + 1 /\ steps' = steps
             /\ \/ state \in {"LOAD_MEMORY", "WRITE_MEMORY"} /\ iter = 0
                \/ state = "CALL_LLM" /\ iter < LLM_MAX_RETRIES
                \/ state = "EXECUTE_TOOL" /\ iter <= Len(response.calls) /\ UNCHANGED response
                \/ state = "OBSERVE_RESULT" /\ iter < Len(results) /\ UNCHANGED results
    <3>1. RoundsLeft' = RoundsLeft /\ Place' = Place
      BY <2>2, <2>5 DEF RoundsLeft
    <3>2. Left' < Left
      BY <1>3, <2>5 DEF Left, LLM_MAX_RETRIES
    <3> QED
      BY <1>1, <1>2, <3>1, <3>2, LowerRank
  <2> QED
    BY <2>1, <2>3, <2>4, <2>5, ExecuteAdvances
<1>5. CASE PostRun
  <2>1. RoundsLeft' = RoundsLeft
    BY <1>5 DEF PostRun, LeaveLoop, StoreAnswer, WriteAudit, DeleteWorkingMemory, ctxVars,
       postLoopVars, budgetVars, RoundsLeft
  <2>2. CASE LeaveLoop
    <3>1. stage = "loop" /\ stage' = "answer" /\ state \in TERMINAL_STATES
      BY <2>2 DEF LeaveLoop
    <3> QED
      BY <3>1, <2>1, <1>1, <1>2, LowerRank DEF Place, PlaceOf, TERMINAL_STATES, AgentState
  <2>3. CASE StoreAnswer \/ WriteAudit \/ DeleteWorkingMemory
    <3>1. \/ stage = "answer" /\ stage' \in {"audit", "raised"}
          \/ stage = "audit" /\ stage' \in {"cleanup", "raised"}
          \/ stage = "cleanup" /\ stage' \in {"returned", "raised"}
      BY <2>3 DEF StoreAnswer, WriteAudit, DeleteWorkingMemory, Proceed
    <3>2. Place' < Place
      BY <3>1 DEF Place
    <3> QED
      BY <3>2, <2>1, <1>1, <1>2, LowerRank
  <2> QED
    BY <1>5, <2>2, <2>3 DEF PostRun
<1> QED
  BY <1>4, <1>5

\* Whatever the LLM, the tools and the memory service do, each step of a run
\* lowers its rank, and no rank can be lowered for ever: a run takes finitely
\* many steps (StepRunner.run's loop, max_steps, the retries of each handler).
\* That it takes them is what fairness adds to Terminates.
THEOREM EveryStepDescends ==
  /\ IsWellFoundedOn(Nearer, Ranks)
  /\ Spec => [][RunLoop \/ PostRun => <<Rank', Rank>> \in Nearer]_vars
<1>1. IsWellFoundedOn(Nearer, Ranks)
  BY NatLessThanWellFounded, WFLexProductOrdering DEF Nearer, Ranks
<1>2. EngineInit => IterInv
  BY DEF EngineInit, Init, IterInv
<1>3. TypeOK /\ Rank \in Ranks /\ (Rank \in Ranks)' /\ [Next]_vars
        => [RunLoop \/ PostRun => <<Rank', Rank>> \in Nearer]_vars
  BY StepsDescend
<1>4. Spec => [][RunLoop \/ PostRun => <<Rank', Rank>> \in Nearer]_vars
  BY <1>2, <1>3, IterNext, RankIsRank, StepLimitHolds, TypeCorrect, PTL DEF Spec
<1> QED
  BY <1>1, <1>4

------------------------------------------------------------------------------
(* One run of the agent implements RunContract.                               *)
\* A response came before everything that follows from one.
Answered == {"PROCESS_RESPONSE", "EXECUTE_TOOL", "OBSERVE_RESULT", "WRITE_MEMORY",
             "CHECK_TERMINATION", "RESPOND", "ESCALATE"}

AskedFirst == state \in Answered => steps > 0

LEMMA OnlyResponsesCount ==
  ASSUME Execute
  PROVE  \/ LLMResponds
         \/ /\ UNCHANGED budgetVars
            /\ state' = "PROCESS_RESPONSE" => state = "PROCESS_RESPONSE"
<1> USE DEF Goto, GotoAt, Again, FailWith, Raise
<1>1. CASE Start \/ LoadMemory \/ BuildContext
  BY <1>1 DEF Start, LoadMemory, LoadSession, LoadFacts, LoadFailed, BuildContext
<1>2. CASE LLMStatusError \/ LLMOtherError \/ ProcessResponse
  BY <1>2 DEF LLMStatusError, LLMOtherError, ProcessResponse
<1>3. CASE ExecuteTool
  BY <1>3 DEF ExecuteTool, BeginTools, RefuseCall, InvokeTool, AtCall, FinishTools, AfterTools,
     FailTools
<1>4. CASE Observe \/ WriteMemory
  BY <1>4 DEF Observe, ObserveResult, FinishObserve, WriteMemory, WriteUserTurn, WriteFact,
     NothingToWrite, AfterWrite
<1>5. CASE CheckTermination
  BY <1>5 DEF CheckTermination
<1> QED
  BY <1>1, <1>2, <1>3, <1>4, <1>5 DEF Execute, CallLLM

LEMMA AskedFirstNext == TypeOK /\ AskedFirst /\ [Next]_vars => AskedFirst'
<1> SUFFICES ASSUME TypeOK, AskedFirst, [Next]_vars PROVE AskedFirst'
  OBVIOUS
<1>1. CASE Execute /\ LLMResponds
  BY <1>1 DEF AskedFirst, LLMResponds, Charge, TypeOK, BudgetTypeOK
<1>2. CASE /\ Execute /\ UNCHANGED budgetVars
           /\ state' = "PROCESS_RESPONSE" => state = "PROCESS_RESPONSE"
  <2>1. state' \in Answered => state \in Answered
    BY <1>2, ExecuteMoves DEF Answered, ValidTransition, TRANSITIONS, AgentState
  <2> QED
    BY <1>2, <2>1 DEF AskedFirst, budgetVars
<1>3. CASE UNCHANGED <<state, answer, failure, toolVars, budgetVars>>
  BY <1>3 DEF AskedFirst, budgetVars
<1> QED
  BY <1>1, <1>2, <1>3, OnlyExecuteMoves, OnlyResponsesCount

------------------------------------------------------------------------------
\* The refinement.  What a step of the loop needs to be one of the contract's.
RefinementInv ==
  TypeOK /\ BudgetInv /\ EachCallRunsAtMostOnce /\ ToolBoundary /\ EscalationEndsRun
         /\ AskedFirst

LEMMA RefinementInvHolds == Spec => []RefinementInv
<1>1. EngineInit => AskedFirst /\ BudgetInv
  BY BudgetInit DEF EngineInit, Init, AskedFirst, Answered
<1> QED
  BY <1>1, TypeCorrect, CallsRunAtMostOnce, ToolsStayInBounds, EscalationIsFinal, BudgetNext,
     AskedFirstNext, PTL DEF Spec, RefinementInv

\* The contract's hand-over is the flag of the run.
LEMMA HandOver ==
  ASSUME RefinementInv
  PROVE  Contract!HandedOver <=> forceEscalate
BY DEF RefinementInv, ToolBoundary, EscalationEndsRun, Contract!HandedOver

\* The verdict of the state a step leads to.
LEMMA NextVerdict ==
  ASSUME state' \in TERMINAL_STATES
  PROVE  /\ TerminalStatus' \in Contract!Verdict \ {"none"}
         /\ TerminalStatus' = "completed" => state' = "RESPOND"
         /\ TerminalStatus' = "escalated" => state' = "ESCALATE"
         /\ state' = "FAIL" => TerminalStatus' \in Contract!FailureVerdict
BY DEF TerminalStatus, Contract!Verdict, Contract!FailureVerdict, TERMINAL_STATES

LEMMA ContractInit == EngineInit => Contract!CInit
BY DEF EngineInit, Init, Contract!CInit, ContractPhase, TERMINAL_STATES

\* A step of the loop that runs no tool and requests no response settles the
\* run or is invisible.
LEMMA QuietStep ==
  ASSUME RefinementInv, RefinementInv', Execute, state \notin TERMINAL_STATES, stage = "loop",
         UNCHANGED <<stage, steps, invoked>>
  PROVE  [Contract!CNext]_(Contract!cvars)
<1>1. CASE state' \notin TERMINAL_STATES
  BY <1>1 DEF Contract!cvars, ContractPhase
<1>2. CASE state' \in TERMINAL_STATES
  <2> DEFINE v == TerminalStatus'
  <2>1. ContractPhase = "running" /\ ContractPhase' = "settled"
    BY <1>2 DEF ContractPhase
  <2>2. /\ v \in Contract!Verdict \ {"none"}
        /\ v = "completed" => state' = "RESPOND"
        /\ v = "escalated" => state' = "ESCALATE"
    BY <1>2, NextVerdict
  <2>3. Contract!HandedOver <=> forceEscalate'
    <3>1. Contract!HandedOver' <=> forceEscalate'
      BY DEF RefinementInv, ToolBoundary, EscalationEndsRun, Contract!HandedOver
    <3> QED
      BY <3>1 DEF Contract!HandedOver
  <2>4. state' = "RESPOND" => steps > 0 /\ ~forceEscalate'
    BY DEF RefinementInv, AskedFirst, Answered, EscalationEndsRun
  <2>5. state' = "ESCALATE" => forceEscalate'
    BY DEF RefinementInv, EscalationEndsRun
  <2>6. Contract!Settle(v)
    BY <1>2, <2>1, <2>2, <2>3, <2>4, <2>5 DEF Contract!Settle
  <2> QED
    BY <2>2, <2>6 DEF Contract!CNext
<1> QED
  BY <1>1, <1>2

\* A response is asked for by a run that is not over its limits and has not
\* been handed over.
LEMMA AskStep ==
  ASSUME RefinementInv, LLMResponds, stage' = stage
  PROVE  Contract!Ask
<1>1. state = "CALL_LLM" /\ state' = "PROCESS_RESPONSE" /\ steps' = steps + 1
      /\ UNCHANGED toolVars
  BY DEF LLMResponds, GotoAt, Charge
<1>2. ~Contract!HandedOver
  BY <1>1, HandOver DEF RefinementInv, EscalationEndsRun
<1>3. steps = 0 \/ steps < MaxSteps
  BY <1>1 DEF RefinementInv, TypeOK, BudgetTypeOK, BudgetInv, NoCallOverBudget
<1> QED
  BY <1>1, <1>2, <1>3 DEF Contract!Ask, ContractPhase, TERMINAL_STATES, toolVars

\* A tool is run after a response, for the first time, and within bounds.
LEMMA PerformStep ==
  ASSUME RefinementInv, RefinementInv', InvokeTool, stage = "loop", stage' = stage
  PROVE  Contract!CNext
<1>1. /\ CurrentCall \in Calls /\ CurrentCall \notin seen /\ Available(CurrentCall.tool)
      /\ invoked' = [invoked EXCEPT ![CurrentCall] = @ + 1]
  BY InvokeStep DEF RefinementInv
<1>2. invoked \in [Calls -> Nat] /\ invoked[CurrentCall] = 0
  BY <1>1 DEF RefinementInv, TypeOK, ToolTypeOK, EachCallRunsAtMostOnce
<1>3. state = "EXECUTE_TOOL" /\ steps > 0 /\ steps' = steps
  BY DEF InvokeTool, AtCall, RefinementInv, AskedFirst, Answered, budgetVars
<1>4. state' = state \/ state' = "FAIL"
  BY DEF InvokeTool, Raise, FailWith, Again, Goto, GotoAt
<1>5. state' = "FAIL" => TerminalStatus' \in Contract!FailureVerdict
  BY NextVerdict DEF TERMINAL_STATES
<1>6. Contract!Perform(CurrentCall)
  BY <1>1, <1>2, <1>3, <1>4, <1>5 DEF Contract!Perform, ContractPhase, TERMINAL_STATES
<1> QED
  BY <1>1, <1>6 DEF Contract!CNext, Available

\* After the loop the verdict is settled and no count moves; a run closes by
\* returning or by raising.
LEMMA PostRunStep ==
  ASSUME PostRun \/ Clock \/ UNCHANGED vars
  PROVE  [Contract!CNext]_(Contract!cvars)
<1>1. UNCHANGED <<state, failure, steps, invoked>>
  BY DEF PostRun, LeaveLoop, StoreAnswer, WriteAudit, DeleteWorkingMemory, Clock, TimeRunsOut,
     vars, ctxVars, postLoopVars, loopVars, toolVars, budgetVars
<1>2. TerminalStatus' = TerminalStatus
  BY <1>1 DEF TerminalStatus
<1>3. stage' = stage \/ stage \notin {"returned", "raised"}
  BY DEF PostRun, LeaveLoop, StoreAnswer, WriteAudit, DeleteWorkingMemory, Clock, vars, engineVars
<1> QED
  BY <1>1, <1>2, <1>3 DEF Contract!CNext, Contract!Close, Contract!cvars, ContractPhase

LEMMA ContractStep ==
  ASSUME RefinementInv, RefinementInv', [Next]_vars
  PROVE  [Contract!CNext]_(Contract!cvars)
<1>1. CASE RunLoop
  <2>1. state \notin TERMINAL_STATES /\ stage = "loop" /\ stage' = stage /\ Execute
    BY <1>1 DEF RunLoop, engineVars
  <2>2. CASE LLMResponds
    BY <2>1, <2>2, AskStep DEF Contract!CNext
  <2>3. CASE InvokeTool
    BY <2>1, <2>3, PerformStep
  <2>4. CASE ~LLMResponds /\ ~InvokeTool
    <3>1. steps' = steps
      BY <2>1, <2>4, OnlyResponsesCount DEF budgetVars
    <3>2. invoked' = invoked
      BY <2>4, ToolStep
    <3> QED
      BY <2>1, <3>1, <3>2, QuietStep
  <2> QED
    BY <2>2, <2>3, <2>4
<1>2. CASE PostRun \/ Clock \/ UNCHANGED vars
  BY <1>2, PostRunStep
<1> QED
  BY <1>1, <1>2 DEF Next, Ended

\* A run of the agent, hidden behind its counts, its calls and its verdict, is
\* a behaviour of RunContract.
THEOREM RunKeepsContract == Spec => ImplementsContract
BY ContractInit, RefinementInvHolds, ContractStep, PTL DEF Spec, ImplementsContract, Contract!CSpec
=============================================================================
