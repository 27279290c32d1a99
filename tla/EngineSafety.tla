---------------------------- MODULE EngineSafety -----------------------------
(* Safety theorems about one run of the agent: the guards in front of the     *)
(* executor, escalation, the budget and the verdict.  Each invariant is       *)
(* proved inductive relative to type correctness.                             *)
EXTENDS EngineProofs, FiniteSetTheorems

------------------------------------------------------------------------------
\* The guards in front of the executor.  Only InvokeTool touches `invoked' and
\* `seen', so both properties are inductive as they stand.

LEMMA ToolStep ==
  ASSUME [Next]_vars
  PROVE  InvokeTool \/ UNCHANGED <<invoked, seen>>
<1>1. CASE RunLoop
  <2>1. CASE ExecuteTool
    BY <2>1 DEF ExecuteTool, BeginTools, RefuseCall, FinishTools, toolVars
  <2>2. CASE Start \/ LoadMemory \/ BuildContext \/ CallLLM \/ ProcessResponse
    BY <2>2 DEF Start, LoadMemory, LoadSession, LoadFacts, BuildContext, CallLLM, LLMResponds,
       LLMStatusError, LLMOtherError, ProcessResponse, toolVars
  <2>3. CASE Observe \/ WriteMemory \/ CheckTermination
    BY <2>3 DEF Observe, ObserveResult, FinishObserve, WriteMemory, WriteUserTurn, WriteFact,
       NothingToWrite, CheckTermination, toolVars
  <2> QED
    BY <1>1, <2>1, <2>2, <2>3 DEF RunLoop, Execute
<1>2. CASE PostRun
  BY <1>2 DEF PostRun, LeaveLoop, StoreAnswer, WriteAudit, DeleteWorkingMemory, ctxVars,
     postLoopVars, toolVars
<1>3. CASE Clock \/ UNCHANGED vars
  BY <1>3 DEF Clock, TimeRunsOut, vars, ctxVars, toolVars
<1> QED
  BY <1>1, <1>2, <1>3 DEF Next, Ended

\* What InvokeTool does to the two.
LEMMA InvokeStep ==
  ASSUME TypeOK, InvokeTool
  PROVE  /\ CurrentCall \in Calls /\ CurrentCall \notin seen /\ Available(CurrentCall.tool)
         /\ seen' = seen \cup {CurrentCall}
         /\ invoked' = [invoked EXCEPT ![CurrentCall] = @ + 1]
         /\ forceEscalate' = (forceEscalate \/ Escalates(CurrentCall.tool))
<1>1. CurrentCall \in Calls
  BY DEF InvokeTool, AtCall, CurrentCall, TypeOK, ConvTypeOK, Response
<1> QED
  BY <1>1 DEF InvokeTool, RegisterCall

\* The duplicate guard of _execute_tool holds across rounds: in no run does the
\* executor run a call twice.
THEOREM CallsRunAtMostOnce == Spec => []EachCallRunsAtMostOnce
<1>1. EngineInit => EachCallRunsAtMostOnce
  BY DEF EngineInit, Init, EachCallRunsAtMostOnce
<1>2. ASSUME TypeOK, EachCallRunsAtMostOnce, [Next]_vars
      PROVE  EachCallRunsAtMostOnce'
  <2>1. invoked \in [Calls -> Nat]
    BY <1>2 DEF TypeOK, ToolTypeOK
  <2>2. CASE InvokeTool
    BY <1>2, <2>1, <2>2, InvokeStep DEF EachCallRunsAtMostOnce
  <2>3. CASE UNCHANGED <<invoked, seen>>
    BY <1>2, <2>3 DEF EachCallRunsAtMostOnce
  <2> QED
    BY <1>2, <2>2, <2>3, ToolStep
<1> QED
  BY <1>1, <1>2, TypeCorrect, PTL DEF Spec

\* No run executes a tool that is not registered or not in the agent's list
\* (the first guard of _execute_tool).
THEOREM ToolsStayInBounds == Spec => []ToolBoundary
<1>1. EngineInit => ToolBoundary
  BY DEF EngineInit, Init, ToolBoundary
<1>2. ASSUME TypeOK, ToolBoundary, [Next]_vars
      PROVE  ToolBoundary'
  <2>1. invoked \in [Calls -> Nat]
    BY <1>2 DEF TypeOK, ToolTypeOK
  <2>2. CASE InvokeTool
    BY <1>2, <2>1, <2>2, InvokeStep DEF ToolBoundary, Available
  <2>3. CASE UNCHANGED <<invoked, seen>>
    BY <1>2, <2>3 DEF ToolBoundary
  <2> QED
    BY <1>2, <2>2, <2>3, ToolStep
<1> QED
  BY <1>1, <1>2, TypeCorrect, PTL DEF Spec

------------------------------------------------------------------------------
\* The budget.  The test comes after a response, so the invariant says where a
\* run can be before its first response and that the limits were tested on the
\* way to every later one.
BudgetInv ==
  /\ state \in {"START", "LOAD_MEMORY", "BUILD_CONTEXT"} => steps = 0
  /\ NoCallOverBudget
  /\ StepsBounded

LEMMA UnderBudget ==
  ASSUME BudgetTypeOK, Exceeded(steps, tokens, cost, late) = {}
  PROVE  steps < MaxSteps /\ tokens < MaxTokens /\ cost < MaxCost
BY BudgetAssumption DEF Exceeded, BudgetTypeOK

\* A step that leaves the counters alone and does not go to CALL_LLM, or back to
\* the states before it, keeps the invariant.
LEMMA BudgetKept ==
  ASSUME BudgetInv, UNCHANGED budgetVars,
         \/ state' = state
         \/ state' \notin {"START", "LOAD_MEMORY", "BUILD_CONTEXT", "CALL_LLM"}
         \/ steps = 0
  PROVE  BudgetInv'
BY DEF BudgetInv, NoCallOverBudget, StepsBounded, budgetVars

LEMMA BudgetInit == EngineInit => BudgetInv
BY DEF EngineInit, Init, BudgetInv, NoCallOverBudget, StepsBounded

LEMMA BudgetExecute ==
  ASSUME TypeOK, BudgetInv, Execute
  PROVE  BudgetInv'
<1>1. BudgetTypeOK
  BY DEF TypeOK
<1>2. CASE Start \/ LoadMemory \/ BuildContext
  <2>1. state \in {"START", "LOAD_MEMORY", "BUILD_CONTEXT"} /\ UNCHANGED budgetVars
    BY <1>2 DEF Start, LoadMemory, LoadSession, LoadFacts, BuildContext
  <2>2. steps = 0
    BY <2>1 DEF BudgetInv
  <2> QED
    BY <2>1, <2>2, BudgetKept
<1>3. CASE LLMResponds
  <2>1. state = "CALL_LLM" /\ state' = "PROCESS_RESPONSE" /\ steps' = steps + 1
    BY <1>3 DEF LLMResponds, GotoAt, Charge
  <2>2. steps = 0 \/ steps < MaxSteps
    BY <1>1, <2>1 DEF BudgetInv, NoCallOverBudget, BudgetTypeOK
  <2>3. StepsBounded'
    BY <1>1, <2>1, <2>2, BudgetAssumption DEF StepsBounded, BudgetTypeOK
  <2> QED
    BY <2>1, <2>3 DEF BudgetInv, NoCallOverBudget
<1>4. CASE LLMStatusError \/ LLMOtherError
  BY <1>4, BudgetKept DEF LLMStatusError, LLMOtherError, Again, FailWith, Goto, GotoAt
<1>5. CASE ProcessResponse
  <2>1. state' \in {"EXECUTE_TOOL", "RESPOND", "FAIL"} /\ UNCHANGED budgetVars
    BY <1>5 DEF ProcessResponse, FailWith, Goto, GotoAt
  <2> QED
    BY <2>1, BudgetKept
<1>6. CASE ExecuteTool
  <2>1. state' \in {state, "FAIL", "ESCALATE", "OBSERVE_RESULT"} /\ UNCHANGED budgetVars
    BY <1>6 DEF ExecuteTool, BeginTools, RefuseCall, InvokeTool, FinishTools, AfterTools,
       FailTools, Raise, Again, FailWith, Goto, GotoAt
  <2> QED
    BY <2>1, BudgetKept
<1>7. CASE Observe \/ WriteMemory
  <2>1. state' \in {state, "FAIL", "WRITE_MEMORY", "CHECK_TERMINATION"} /\ UNCHANGED budgetVars
    <3>1. CASE Observe
      BY <3>1 DEF Observe, ObserveResult, FinishObserve, Raise, Again, FailWith, Goto, GotoAt
    <3>2. CASE WriteMemory
      BY <3>2 DEF WriteMemory, WriteUserTurn, WriteFact, NothingToWrite, AfterWrite, Raise,
         Again, FailWith, Goto, GotoAt
    <3> QED
      BY <1>7, <3>1, <3>2
  <2> QED
    BY <2>1, BudgetKept
<1>8. CASE CheckTermination
  <2>1. UNCHANGED budgetVars
    BY <1>8 DEF CheckTermination
  <2>2. \/ state' \in {"ESCALATE", "FAIL"}
        \/ state' = "CALL_LLM" /\ Exceeded(steps, tokens, cost, late) = {}
    BY <1>8 DEF CheckTermination, FailWith, Goto, GotoAt
  <2>3. CASE state' \in {"ESCALATE", "FAIL"}
    BY <2>1, <2>3, BudgetKept
  <2>4. CASE state' = "CALL_LLM" /\ Exceeded(steps, tokens, cost, late) = {}
    BY <1>1, <2>1, <2>4, UnderBudget DEF BudgetInv, NoCallOverBudget, StepsBounded, budgetVars
  <2> QED
    BY <2>2, <2>3, <2>4
<1> QED
  BY <1>2, <1>3, <1>4, <1>5, <1>6, <1>7, <1>8 DEF Execute, CallLLM

LEMMA BudgetNext == TypeOK /\ BudgetInv /\ [Next]_vars => BudgetInv'
<1> SUFFICES ASSUME TypeOK, BudgetInv, [Next]_vars PROVE BudgetInv'
  OBVIOUS
<1>1. CASE RunLoop
  BY <1>1, BudgetExecute DEF RunLoop
<1>2. CASE PostRun
  BY <1>2, BudgetKept DEF PostRun, LeaveLoop, StoreAnswer, WriteAudit, DeleteWorkingMemory,
     ctxVars, postLoopVars, loopVars
<1>3. CASE Clock \/ UNCHANGED vars
  BY <1>3, BudgetKept DEF Clock, TimeRunsOut, vars, ctxVars, loopVars
<1> QED
  BY <1>1, <1>2, <1>3 DEF Next, Ended

\* A run asks the LLM for at most max_steps responses, or for one when the limit
\* is below 1 (TerminationChecker.check, BudgetTracker.is_exceeded).
THEOREM StepLimitHolds == Spec => []StepsBounded
<1>1. BudgetInv => StepsBounded
  BY DEF BudgetInv
<1> QED
  BY <1>1, BudgetInit, BudgetNext, TypeCorrect, PTL DEF Spec

\* No response after the first is requested with a step, token or cost limit
\* reached: whatever happens between the test and the request, the counters do
\* not move.
THEOREM BudgetHolds == Spec => []NoCallOverBudget
<1>1. BudgetInv => NoCallOverBudget
  BY DEF BudgetInv
<1> QED
  BY <1>1, BudgetInit, BudgetNext, TypeCorrect, PTL DEF Spec

------------------------------------------------------------------------------
\* Escalation.  The flag is set by the executor only, in EXECUTE_TOOL, and
\* AfterTools reads it before it leaves that state.

LEMMA EscalationExecute ==
  ASSUME TypeOK, EscalationEndsRun, Execute, state \notin TERMINAL_STATES
  PROVE  EscalationEndsRun'
<1>1. invoked \in [Calls -> Nat] /\ forceEscalate \in BOOLEAN
  BY DEF TypeOK, ToolTypeOK
<1>2. forceEscalate => state = "EXECUTE_TOOL"
  BY DEF EscalationEndsRun, TERMINAL_STATES
<1>3. CASE InvokeTool
  <2>1. state = "EXECUTE_TOOL"
    BY <1>3 DEF InvokeTool, AtCall
  <2>2. \/ state' = "EXECUTE_TOOL"
        \/ state' = "FAIL" /\ failure'.cause = "unhandled"
    BY <1>3, <2>1 DEF InvokeTool, Raise, Again, FailWith, Goto, GotoAt
  <2>3. \A c \in Calls : invoked'[c] > 0 <=> invoked[c] > 0 \/ c = CurrentCall
    BY <1>1, <1>3, InvokeStep
  <2>4. CurrentCall \in Calls /\ forceEscalate' = (forceEscalate \/ Escalates(CurrentCall.tool))
    BY <1>3, InvokeStep
  <2>5. (\E c \in Calls : invoked'[c] > 0 /\ Escalates(c.tool))
        <=> (\E c \in Calls : invoked[c] > 0 /\ Escalates(c.tool)) \/ Escalates(CurrentCall.tool)
    BY <2>3, <2>4
  <2>6. forceEscalate' <=> \E c \in Calls : invoked'[c] > 0 /\ Escalates(c.tool)
    BY <2>4, <2>5 DEF EscalationEndsRun
  <2> QED
    BY <2>2, <2>6 DEF EscalationEndsRun
<1>4. CASE BeginTools \/ RefuseCall
  <2>1. state' = state /\ UNCHANGED <<toolVars, failure>>
    BY <1>4 DEF BeginTools, RefuseCall, Again
  <2> QED
    BY <2>1 DEF EscalationEndsRun, toolVars
<1>5. CASE FinishTools
  <2>1. UNCHANGED toolVars
    BY <1>5 DEF FinishTools
  <2>2. IF forceEscalate THEN state' = "ESCALATE" ELSE state' \in {"FAIL", "OBSERVE_RESULT"}
    BY <1>5 DEF FinishTools, AfterTools, FailTools, FailWith, Goto, GotoAt
  <2> QED
    BY <2>1, <2>2 DEF EscalationEndsRun, toolVars
<1>6. CASE ~ExecuteTool
  <2>1. state # "EXECUTE_TOOL" /\ UNCHANGED toolVars
    <3>1. CASE Start \/ LoadMemory \/ BuildContext \/ CallLLM \/ ProcessResponse
      BY <3>1 DEF Start, LoadMemory, LoadSession, LoadFacts, BuildContext, CallLLM, LLMResponds,
         LLMStatusError, LLMOtherError, ProcessResponse
    <3>2. CASE Observe \/ WriteMemory \/ CheckTermination
      BY <3>2 DEF Observe, ObserveResult, FinishObserve, WriteMemory, WriteUserTurn, WriteFact,
         NothingToWrite, CheckTermination
    <3> QED
      BY <1>6, <3>1, <3>2 DEF Execute
  <2>2. ~forceEscalate
    BY <1>2, <2>1
  <2>3. state' # "ESCALATE"
    <3>1. CASE Start \/ LoadMemory \/ BuildContext \/ CallLLM \/ ProcessResponse
      BY <3>1 DEF Start, LoadMemory, LoadSession, LoadFacts, LoadFailed, BuildContext, CallLLM,
         LLMResponds, LLMStatusError, LLMOtherError, ProcessResponse, TERMINAL_STATES, Raise,
         Again, FailWith, Goto, GotoAt
    <3>2. CASE Observe \/ WriteMemory \/ CheckTermination
      BY <2>2, <3>2 DEF Observe, ObserveResult, FinishObserve, WriteMemory, WriteUserTurn,
         WriteFact, NothingToWrite, AfterWrite, CheckTermination, TERMINAL_STATES, Raise, Again,
         FailWith, Goto, GotoAt
    <3> QED
      BY <1>6, <3>1, <3>2 DEF Execute
  <2> QED
    BY <2>1, <2>2, <2>3 DEF EscalationEndsRun, toolVars
<1> QED
  BY <1>3, <1>4, <1>5, <1>6 DEF ExecuteTool

LEMMA EscalationNext == TypeOK /\ EscalationEndsRun /\ [Next]_vars => EscalationEndsRun'
<1> SUFFICES ASSUME TypeOK, EscalationEndsRun, [Next]_vars PROVE EscalationEndsRun'
  OBVIOUS
<1>1. CASE RunLoop
  BY <1>1, EscalationExecute DEF RunLoop
<1>2. CASE UNCHANGED <<state, failure, toolVars>>
  BY <1>2 DEF EscalationEndsRun, toolVars
<1>3. CASE PostRun
  BY <1>2, <1>3 DEF PostRun, LeaveLoop, StoreAnswer, WriteAudit, DeleteWorkingMemory,
     ctxVars, postLoopVars, loopVars
<1>4. CASE Clock \/ UNCHANGED vars
  BY <1>2, <1>4 DEF Clock, TimeRunsOut, vars, ctxVars, loopVars
<1> QED
  BY <1>1, <1>3, <1>4 DEF Next, Ended

\* Once a tool with permission "escalate" has run, whatever the calls around it
\* did, the run ends in ESCALATE or on an exception before the next LLM call,
\* and no run escalates without one (_execute_tool, TerminationChecker.check).
THEOREM EscalationIsFinal == Spec => []EscalationEndsRun
<1>1. EngineInit => EscalationEndsRun
  BY DEF EngineInit, Init, EscalationEndsRun
<1> QED
  BY <1>1, EscalationNext, TypeCorrect, PTL DEF Spec

------------------------------------------------------------------------------
\* The verdict.  The answer is set on the way to RESPOND only, the failure on
\* the way to FAIL only, and a budget failure always quotes a limit.
VerdictInv ==
  /\ answer # "none" <=> state = "RESPOND"
  /\ failure # NoFailure <=> state = "FAIL"
  /\ failure.cause = "budget" => failure.text # {}

LEMMA VerdictInit == EngineInit => VerdictInv
BY DEF EngineInit, Init, VerdictInv, NoFailure

LEMMA VerdictFailWith ==
  ASSUME VerdictInv, state \notin TERMINAL_STATES, NEW cause \in Cause \ {"none"}, NEW text,
         FailWith(cause, text), cause = "budget" => text # {}, answer' = answer
  PROVE  VerdictInv'
BY DEF VerdictInv, TERMINAL_STATES, FailWith, Goto, GotoAt, NoFailure

LEMMA VerdictRaise ==
  ASSUME VerdictInv, state \notin TERMINAL_STATES, Raise, answer' = answer
  PROVE  VerdictInv'
BY VerdictFailWith DEF Raise, Cause

LEMMA VerdictKept ==
  ASSUME VerdictInv, state \notin TERMINAL_STATES, state' \notin {"RESPOND", "FAIL"},
         UNCHANGED <<answer, failure>>
  PROVE  VerdictInv'
BY DEF VerdictInv, TERMINAL_STATES

LEMMA VerdictExecute ==
  ASSUME VerdictInv, Execute, state \notin TERMINAL_STATES
  PROVE  VerdictInv'
<1> USE DEF Goto, GotoAt, Again
<1>1. CASE Start \/ BuildContext \/ LLMResponds \/ BeginTools \/ RefuseCall \/ FinishObserve
           \/ NothingToWrite
  <2>1. state' \notin {"RESPOND", "FAIL"} /\ UNCHANGED <<answer, failure>>
    BY <1>1 DEF Start, BuildContext, LLMResponds, BeginTools, RefuseCall, AtCall, FinishObserve,
       NothingToWrite
  <2> QED
    BY <2>1, VerdictKept
<1>2. CASE LoadMemory
  <2>1. /\ answer' = answer
        /\ \/ state' \notin {"RESPOND", "FAIL"} /\ UNCHANGED failure
           \/ Raise
           \/ \E text \in ErrorTexts : FailWith("memory_unavailable", text)
    BY <1>2 DEF LoadMemory, LoadSession, LoadFacts, LoadFailed
  <2> QED
    BY <2>1, VerdictKept, VerdictRaise, VerdictFailWith DEF Cause
<1>3. CASE LLMStatusError \/ LLMOtherError
  <2>1. /\ answer' = answer
        /\ \/ state' \notin {"RESPOND", "FAIL"} /\ UNCHANGED failure
           \/ \E text \in ErrorTexts : FailWith("llm_status_error", text)
           \/ \E text \in ErrorTexts : FailWith("llm_error", text)
    BY <1>3 DEF LLMStatusError, LLMOtherError
  <2> QED
    BY <2>1, VerdictKept, VerdictFailWith DEF Cause
<1>4. CASE ProcessResponse
  <2>1. \/ state' = "EXECUTE_TOOL" /\ UNCHANGED <<answer, failure>>
        \/ state' = "RESPOND" /\ answer' # "none" /\ UNCHANGED failure
        \/ FailWith("stop_reason", {response.stop} \cap Limit) /\ UNCHANGED answer
    BY <1>4 DEF ProcessResponse
  <2>2. CASE state' = "RESPOND" /\ answer' # "none" /\ UNCHANGED failure
    BY <2>2 DEF VerdictInv, TERMINAL_STATES
  <2> QED
    BY <2>1, <2>2, VerdictKept, VerdictFailWith DEF Cause
<1>5. CASE InvokeTool \/ FinishTools
  <2>1. /\ answer' = answer
        /\ \/ state' \notin {"RESPOND", "FAIL"} /\ UNCHANGED failure
           \/ Raise
           \/ FailTools
    BY <1>5 DEF InvokeTool, AtCall, FinishTools, AfterTools
  <2> QED
    BY <2>1, VerdictKept, VerdictRaise, VerdictFailWith DEF FailTools, Cause
<1>6. CASE ObserveResult \/ WriteUserTurn \/ WriteFact
  <2>1. /\ answer' = answer
        /\ \/ state' \notin {"RESPOND", "FAIL"} /\ UNCHANGED failure
           \/ Raise
    BY <1>6 DEF ObserveResult, WriteUserTurn, WriteFact, AfterWrite
  <2> QED
    BY <2>1, VerdictKept, VerdictRaise
<1>7. CASE CheckTermination
  <2>1. /\ answer' = answer
        /\ \/ state' \notin {"RESPOND", "FAIL"} /\ UNCHANGED failure
           \/ /\ Exceeded(steps, tokens, cost, late) # {}
              /\ FailWith("budget", Exceeded(steps, tokens, cost, late))
           \/ FailWith("state_loop", {})
    BY <1>7 DEF CheckTermination
  <2> QED
    BY <2>1, VerdictKept, VerdictFailWith DEF Cause
<1> QED
  BY <1>1, <1>2, <1>3, <1>4, <1>5, <1>6, <1>7 DEF Execute, CallLLM, ExecuteTool, Observe,
     WriteMemory

LEMMA VerdictNext == VerdictInv /\ [Next]_vars => VerdictInv'
<1> SUFFICES ASSUME VerdictInv, [Next]_vars PROVE VerdictInv'
  OBVIOUS
<1>1. CASE RunLoop
  BY <1>1, VerdictExecute DEF RunLoop
<1>2. CASE UNCHANGED <<state, answer, failure>>
  BY <1>2 DEF VerdictInv
<1>3. CASE PostRun
  BY <1>2, <1>3 DEF PostRun, LeaveLoop, StoreAnswer, WriteAudit, DeleteWorkingMemory,
     ctxVars, postLoopVars, loopVars
<1>4. CASE Clock \/ UNCHANGED vars
  BY <1>2, <1>4 DEF Clock, TimeRunsOut, vars, ctxVars, loopVars
<1> QED
  BY <1>1, <1>3, <1>4 DEF Next, Ended

\* The status that _terminal_status reads off the words of the failure reason
\* agrees with how the run ended, whatever words an exception's text holds.
THEOREM VerdictIsSound == Spec => []VerdictSound
<1>1. TypeOK /\ VerdictInv => VerdictSound
  <2> SUFFICES ASSUME TypeOK, VerdictInv, state \in TERMINAL_STATES PROVE VerdictSound
    BY DEF VerdictSound
  <2>1. failure.text \subseteq Limit
    BY DEF TypeOK, ToolTypeOK
  <2>2. state = "RESPOND" <=> TerminalStatus = "completed"
    BY DEF TerminalStatus
  <2>3. state \in {"RESPOND", "ESCALATE"} <=> TerminalStatus \in {"completed", "escalated"}
    BY DEF TerminalStatus
  <2>4. failure.cause = "budget" => TerminalStatus \in {"budget_exceeded", "timeout"}
    BY <2>1 DEF TerminalStatus, VerdictInv, Limit, NoFailure
  <2> QED
    BY <2>2, <2>3, <2>4 DEF VerdictSound, VerdictInv, TERMINAL_STATES
<1> QED
  BY <1>1, VerdictInit, VerdictNext, TypeCorrect, PTL DEF Spec

------------------------------------------------------------------------------
\* Working memory.  A tool result waits in `results' from the call until
\* OBSERVE_RESULT has appended it; written and waiting together never exceed the
\* calls made, and match them as long as the service answers every request.
Unwritten ==
  IF state = "EXECUTE_TOOL" /\ iter > 0 THEN Len(results)
  ELSE IF state = "OBSERVE_RESULT" THEN Len(results) - iter
  ELSE 0

WorkingInv ==
  /\ IsFiniteSet(seen)
  /\ state = "OBSERVE_RESULT" => iter <= Len(results)
  /\ stage # "loop" => state \in TERMINAL_STATES
  /\ working + Unwritten <= Cardinality(seen)
  /\ Replies = {"ok"} /\ state \notin TERMINAL_STATES
       => working + Unwritten = Cardinality(seen)

LEMMA WorkingInit == EngineInit => WorkingInv
BY FS_EmptySet DEF EngineInit, Init, WorkingInv, Unwritten

LEMMA WorkingTypes ==
  ASSUME TypeOK, WorkingInv
  PROVE  /\ Len(results) \in Nat /\ iter \in Nat /\ working \in Nat
         /\ Unwritten \in Nat /\ Cardinality(seen) \in Nat
<1>1. Len(results) \in Nat /\ iter \in Nat /\ working \in Nat
  BY DEF TypeOK, ConvTypeOK, LoopTypeOK, StoreTypeOK
<1>2. Unwritten \in Nat
  BY <1>1 DEF Unwritten, WorkingInv
<1> QED
  BY <1>1, <1>2, FS_CardinalityType DEF WorkingInv

\* A step of the loop that neither calls a tool nor writes a result.
LEMMA WorkingQuiet ==
  ASSUME TypeOK, WorkingInv, state \notin TERMINAL_STATES, UNCHANGED <<seen, working, stage>>,
         Unwritten = 0, state' \notin {"EXECUTE_TOOL", "OBSERVE_RESULT"} \/ iter' = 0,
         state' = "OBSERVE_RESULT" => state = "EXECUTE_TOOL"
  PROVE  state' # "OBSERVE_RESULT" => WorkingInv'
BY WorkingTypes DEF WorkingInv, Unwritten

LEMMA WorkingExecute ==
  ASSUME TypeOK, WorkingInv, Execute, state \notin TERMINAL_STATES, UNCHANGED engineVars
  PROVE  WorkingInv'
<1> USE DEF Goto, GotoAt, Again
<1>1. stage = "loop" /\ stage' = "loop"
  BY DEF WorkingInv, engineVars
<1>2. CASE Start \/ LoadMemory \/ BuildContext \/ CallLLM \/ ProcessResponse
  <2>1. /\ Unwritten = 0 /\ UNCHANGED <<seen, working>>
        /\ state' # "OBSERVE_RESULT" /\ (state' = "EXECUTE_TOOL" => iter' = 0)
    BY <1>2 DEF Start, LoadMemory, LoadSession, LoadFacts, LoadFailed, BuildContext, CallLLM,
       LLMResponds, LLMStatusError, LLMOtherError, ProcessResponse, toolVars, storeVars, Unwritten,
       Raise, FailWith
  <2> QED
    BY <1>1, <2>1, WorkingQuiet
<1>3. CASE WriteMemory \/ CheckTermination
  <2>1. /\ Unwritten = 0 /\ UNCHANGED <<seen, working>>
        /\ state' \notin {"EXECUTE_TOOL", "OBSERVE_RESULT"}
    BY <1>3 DEF WriteMemory, WriteUserTurn, WriteFact, NothingToWrite, AfterWrite,
       CheckTermination, toolVars, storeVars, Unwritten, Raise, FailWith
  <2> QED
    BY <1>1, <2>1, WorkingQuiet
<1>4. CASE BeginTools
  <2>1. /\ state = "EXECUTE_TOOL" /\ state' = state /\ iter' = 1 /\ results' = <<>>
        /\ UNCHANGED <<seen, working>> /\ Unwritten = 0 /\ Unwritten' = 0
    BY <1>4 DEF BeginTools, toolVars, storeVars, Unwritten
  <2> QED
    BY <1>1, <2>1 DEF WorkingInv
<1>5. CASE RefuseCall
  <2>1. /\ state = "EXECUTE_TOOL" /\ state' = state /\ iter > 0 /\ iter' > 0
        /\ UNCHANGED <<seen, working, results>>
    BY <1>5, WorkingTypes DEF RefuseCall, AtCall, toolVars, storeVars
  <2> QED
    BY <1>1, <2>1 DEF WorkingInv, Unwritten
<1>6. CASE InvokeTool
  <2>1. /\ state = "EXECUTE_TOOL" /\ iter > 0 /\ UNCHANGED working
        /\ state' = "FAIL" \/ (state' = state /\ iter' = iter + 1)
    BY <1>6 DEF InvokeTool, AtCall, Raise, FailWith, storeVars
  <2>2. CurrentCall \notin seen /\ seen' = seen \cup {CurrentCall}
    BY <1>6, InvokeStep
  <2>3. IsFiniteSet(seen') /\ Cardinality(seen') = Cardinality(seen) + 1
    BY <2>2, FS_AddElement DEF WorkingInv
  <2>4. Len(results') = Len(results) + 1
    BY <1>6 DEF InvokeTool, TypeOK, ConvTypeOK
  <2>5. Unwritten = Len(results) /\ (state' = "FAIL" => Unwritten' = 0)
        /\ (state' = state => Unwritten' = Len(results) + 1)
    BY <2>1, <2>4, WorkingTypes DEF Unwritten
  <2> QED
    BY <1>1, <2>1, <2>3, <2>5, WorkingTypes DEF WorkingInv, TERMINAL_STATES
<1>7. CASE FinishTools
  <2>1. /\ state = "EXECUTE_TOOL" /\ iter > 0 /\ iter' = 0
        /\ state' \in {"ESCALATE", "FAIL", "OBSERVE_RESULT"}
        /\ UNCHANGED <<seen, working, results>>
    BY <1>7, WorkingTypes DEF FinishTools, AfterTools, FailTools, FailWith, toolVars, storeVars
  <2>2. Unwritten = Len(results) /\ Unwritten' \in {0, Len(results)}
        /\ (state' = "OBSERVE_RESULT" => Unwritten' = Len(results))
    BY <2>1, WorkingTypes DEF Unwritten
  <2> QED
    BY <1>1, <2>1, <2>2, WorkingTypes DEF WorkingInv, TERMINAL_STATES
<1>8. CASE ObserveResult
  <2>1. /\ state = "OBSERVE_RESULT" /\ iter < Len(results) /\ UNCHANGED <<seen, results>>
        /\ \/ state' = state /\ iter' = iter + 1
           \/ state' = "FAIL"
        /\ working' \in {working, working + 1}
    BY <1>8 DEF ObserveResult, Raise, FailWith, toolVars, convVars
  <2>2. Replies = {"ok"} => working' = working + 1 /\ state' = state
    BY <1>8 DEF ObserveResult, Applied, OtherError
  <2>3. Unwritten = Len(results) - iter
        /\ (state' = state => Unwritten' = Unwritten - 1)
        /\ (state' = "FAIL" => Unwritten' = 0)
    BY <2>1, WorkingTypes DEF Unwritten
  <2> QED
    BY <1>1, <2>1, <2>2, <2>3, WorkingTypes DEF WorkingInv, TERMINAL_STATES
<1>9. CASE FinishObserve
  <2>1. /\ Unwritten = 0 /\ UNCHANGED <<seen, working>> /\ state' = "WRITE_MEMORY"
    BY <1>9, WorkingTypes DEF FinishObserve, toolVars, storeVars, Unwritten
  <2> QED
    BY <1>1, <2>1, WorkingQuiet
<1> QED
  BY <1>2, <1>3, <1>4, <1>5, <1>6, <1>7, <1>8, <1>9 DEF Execute, ExecuteTool, Observe

LEMMA WorkingNext == TypeOK /\ WorkingInv /\ [Next]_vars => WorkingInv'
<1> SUFFICES ASSUME TypeOK, WorkingInv, [Next]_vars PROVE WorkingInv'
  OBVIOUS
<1>1. CASE RunLoop
  BY <1>1, WorkingExecute DEF RunLoop
<1>2. CASE PostRun
  <2>1. /\ state \in TERMINAL_STATES /\ UNCHANGED <<state, iter, results, seen>>
        /\ working' \in {0, working}
    BY <1>2 DEF PostRun, LeaveLoop, StoreAnswer, WriteAudit, DeleteWorkingMemory, ctxVars,
       postLoopVars, loopVars, convVars, toolVars, storeVars, WorkingInv
  <2> QED
    BY <2>1, WorkingTypes DEF WorkingInv, Unwritten, TERMINAL_STATES
<1>3. CASE Clock \/ UNCHANGED vars
  BY <1>3 DEF Clock, TimeRunsOut, vars, ctxVars, engineVars, loopVars, convVars, toolVars,
     storeVars, WorkingInv, Unwritten
<1> QED
  BY <1>1, <1>2, <1>3 DEF Next, Ended

\* Working memory never records more than the run did, and with a memory service
\* that answers, the LLM is never called before every result is recorded
\* (_observe_result).
THEOREM ResultsAreRecorded == Spec => []WorkingMemoryComplete
<1>1. TypeOK /\ WorkingInv => WorkingMemoryComplete
  <2> SUFFICES ASSUME TypeOK, WorkingInv PROVE WorkingMemoryComplete
    OBVIOUS
  <2>1. state = "CALL_LLM" => Unwritten = 0 /\ state \notin TERMINAL_STATES
    BY DEF Unwritten, TERMINAL_STATES
  <2> QED
    BY <2>1, WorkingTypes DEF WorkingMemoryComplete, WorkingInv
<1> QED
  BY <1>1, WorkingInit, WorkingNext, TypeCorrect, PTL DEF Spec

=============================================================================
