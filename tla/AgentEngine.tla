---------------------------- MODULE AgentEngine ------------------------------
(* One call of AgentEngine.run (engine/orchestrator/engine.py): the loop that *)
(* drives StepRunner until a terminal state, then the post-run steps: the     *)
(* answer into the session, the audit record, the deletion of the working     *)
(* memory, the trace and the result.                                          *)
EXTENDS StepRunner

CONSTANTS
  InitSessions,   \* what the session may hold when the run starts
  InitFacts       \* how many copies of the input's fact the store may hold

ASSUME EngineAssumption ==
  /\ InitSessions \subseteq Seq({"user", "assistant"})
  /\ InitFacts \subseteq Nat

VARIABLES
  stage,    \* where run() is
  audit,    \* the statuses written to the run's audit session
  trace     \* the spans of the stored trace; <<>> before store_trace

Stage == {"loop", "answer", "audit", "cleanup", "returned", "raised"}

Status == {"completed", "escalated", "failed", "budget_exceeded", "timeout"}

engineVars == <<stage, audit, trace>>
vars == <<ctxVars, engineVars>>

\* Mutant of TerminalStatus: the cost limit is forgotten.
TerminalStatusNoCost ==
  IF state = "RESPOND" THEN "completed"
  ELSE IF state = "ESCALATE" THEN "escalated"
  ELSE IF failure.text \cap {"max_steps", "max_tokens"} # {} THEN "budget_exceeded"
  ELSE IF "timeout" \in failure.text THEN "timeout"
  ELSE "failed"

\* _terminal_status: the verdict is read off the words of the failure reason.
TerminalStatus ==
  IF state = "RESPOND" THEN "completed"
  ELSE IF state = "ESCALATE" THEN "escalated"
  ELSE IF failure.text \cap {"max_steps", "max_tokens", "max_cost_usd"} # {}
  THEN "budget_exceeded"
  ELSE IF "timeout" \in failure.text THEN "timeout"
  ELSE "failed"

EngineInit ==
  /\ Init
  /\ session \in InitSessions /\ facts \in InitFacts
  /\ stage = "loop" /\ audit = <<>> /\ trace = <<>>

RunLoop ==
  /\ stage = "loop" /\ state \notin TERMINAL_STATES
  /\ Execute
  /\ UNCHANGED engineVars

LeaveLoop ==
  /\ stage = "loop" /\ state \in TERMINAL_STATES
  /\ stage' = "answer"
  /\ UNCHANGED <<ctxVars, audit, trace>>

\* Mutant of Proceed: the except clause does not name the 503 exception.
ProceedUnlessDown(r, next) ==
  stage' = IF OtherError(r) \/ Unavailable(r) THEN "raised" ELSE next

\* What the run does after one post-run memory call: an exception no clause
\* names leaves run().
Proceed(r, next) == stage' = IF OtherError(r) THEN "raised" ELSE next

postLoopVars == <<loopVars, convVars, answer, failure, toolVars, budgetVars, late, factKnown, facts>>

\* An empty answer is falsy: it is not stored.
StoreAnswer ==
  /\ stage = "answer"
  /\ IF answer = "text"
     THEN \E r \in Replies :
            /\ session' = IF Applied(r) THEN Append(session, "assistant") ELSE session
            /\ Proceed(r, "audit")
     ELSE stage' = "audit" /\ UNCHANGED session
  /\ UNCHANGED <<postLoopVars, working, audit, trace>>

WriteAudit ==
  /\ stage = "audit"
  /\ \E r \in Replies :
       /\ audit' = IF Applied(r) THEN Append(audit, TerminalStatus) ELSE audit
       /\ Proceed(r, "cleanup")
  /\ UNCHANGED <<postLoopVars, session, working, trace>>

\* The last memory call; with it out of the way the trace is stored and the
\* result returned.
DeleteWorkingMemory ==
  /\ stage = "cleanup"
  /\ \E r \in Replies :
       /\ working' = IF Applied(r) THEN 0 ELSE working
       /\ trace' = IF OtherError(r) THEN trace ELSE spans
       /\ Proceed(r, "returned")
  /\ UNCHANGED <<postLoopVars, session, audit>>

PostRun == LeaveLoop \/ StoreAnswer \/ WriteAudit \/ DeleteWorkingMemory

Clock == TimeRunsOut /\ UNCHANGED engineVars

Ended == stage \in {"returned", "raised"} /\ UNCHANGED vars

Next == RunLoop \/ PostRun \/ Clock \/ Ended

\* Every await of the run is bounded (tool timeouts, the HTTP clients' own
\* timeouts, finite back-off), so the run's own steps are weakly fair.
Spec == EngineInit /\ [][Next]_vars /\ WF_vars(RunLoop \/ PostRun)

------------------------------------------------------------------------------
Span == [from : AgentState, to : AgentState, step : Nat]
Role == {"user", "assistant"}
CallId == Nat \X Nat
MessageType == [role : Role, kind : {"prior", "input", "tool_use", "tool_result", "text"},
                ids : Seq(CallId)]

LoopTypeOK ==
  /\ state \in AgentState /\ iter \in Nat
  /\ state = "CALL_LLM" => iter <= LLM_MAX_RETRIES
  /\ state = "EXECUTE_TOOL" => iter <= Len(response.calls) + 1
  /\ history \in Seq(AgentState) /\ spans \in Seq(Span)

ConvTypeOK ==
  /\ messages \in Seq(MessageType) /\ response \in Response
  /\ blocks \in Seq(CallId)
  /\ results \in Seq([tool : Registered, outcome : Outcome])
  /\ answer \in {"none", "empty", "text"}

ToolTypeOK ==
  /\ failure \in [cause : Cause, text : SUBSET Limit]
  /\ forceEscalate \in BOOLEAN /\ seen \subseteq Calls /\ invoked \in [Calls -> Nat]

BudgetTypeOK == steps \in Nat /\ tokens \in Nat /\ cost \in Nat /\ late \in BOOLEAN

StoreTypeOK ==
  /\ factKnown \in BOOLEAN /\ facts \in Nat /\ working \in Nat
  /\ session \in Seq(Role)

StageTypeOK == stage \in Stage /\ audit \in Seq(Status) /\ trace \in Seq(Span)

\* Every variable has the values the code can give it, and `iter' stays within
\* the loop of the handler that uses it.
TypeOK ==
  LoopTypeOK /\ ConvTypeOK /\ ToolTypeOK /\ BudgetTypeOK /\ StoreTypeOK /\ StageTypeOK

\* The conversation handed to the LLM is well formed: every tool_use of an
\* assistant turn is answered, in order, by the tool results of the next
\* message, whatever was refused, duplicated or failed (_execute_tool).
EveryCallAnswered ==
  state = "CALL_LLM" =>
    \A i \in 1..Len(messages) :
      messages[i].kind = "tool_use" =>
        /\ i < Len(messages)
        /\ messages[i + 1].kind = "tool_result"
        /\ messages[i + 1].ids = messages[i].ids

\* However LOAD_MEMORY ended (loaded, empty, unreachable half way), the user's
\* input is in the conversation exactly once, after the earlier turns and
\* before everything this run said (_load_memory, ContextBuilder.initialise).
InputAskedOnce ==
  state = "CALL_LLM" =>
    \E i \in 1..Len(messages) :
      /\ messages[i].kind = "input"
      /\ \A j \in 1..(i - 1) : messages[j].kind = "prior"
      /\ \A j \in (i + 1)..Len(messages) : messages[j].kind \notin {"prior", "input"}

\* A tool with side effects is not run twice with the same input, even when the
\* LLM repeats the call in one response or rounds later (duplicate guard).
EachCallRunsAtMostOnce ==
  \A c \in Calls : /\ invoked[c] <= 1
                   /\ invoked[c] = 1 <=> c \in seen

\* Nothing outside the agent's list, or outside the registry, reaches the
\* executor (the first guard of _execute_tool).
ToolBoundary ==
  \A c \in Calls : invoked[c] > 0 => c.tool \in Registered \cap Allowed

\* Once an escalation tool has run, the run ends in ESCALATE (or fails on an
\* exception) in the same EXECUTE_TOOL; and nothing else ends in ESCALATE.
EscalationEndsRun ==
  /\ forceEscalate <=> \E c \in Calls : invoked[c] > 0 /\ Escalates(c.tool)
  /\ forceEscalate => \/ state \in {"EXECUTE_TOOL", "ESCALATE"}
                      \/ state = "FAIL" /\ failure.cause = "unhandled"
  /\ state = "ESCALATE" => forceEscalate

\* No response after the first is requested with a limit already reached, so a
\* run overspends by at most one response.  Time is not included: it may run
\* out right after the check.
NoCallOverBudget ==
  state = "CALL_LLM" /\ steps > 0 =>
    steps < MaxSteps /\ tokens < MaxTokens /\ cost < MaxCost

\* The step limit holds with the one exception of a limit below 1.
StepsBounded == steps <= MaxSteps \/ steps <= 1

\* The states of a run repeat with period 6, and the guard looks for periods 1
\* to 5: check_state_loop never returns True.
LoopGuardSilent == ~CheckStateLoop(history)

\* The table in state_machine.py, which no code consults, describes every step
\* of the loop except the failures.
StepsFollowTable ==
  [][state' # state => ValidTransition(state, state') \/ state' = "FAIL"]_vars

\* The verdict agrees with the run: an answer exactly when it completed, a
\* failure reason exactly when it failed, and a run stopped by its budget is
\* never reported as an ordinary failure.
VerdictSound ==
  state \in TERMINAL_STATES =>
    /\ TerminalStatus = "completed" <=> answer # "none"
    /\ TerminalStatus \in {"completed", "escalated"} <=> failure = NoFailure
    /\ failure.cause = "budget" => TerminalStatus \in {"budget_exceeded", "timeout"}

\* The stored trace retells the run: its spans form one chain from START to the
\* terminal state, and the k-th LLM response is the span of step k, which is
\* what the replay orders by (execute's span, store_trace).
TraceTellsTheRun ==
  stage = "returned" =>
    /\ trace[1].from = "START" /\ trace[Len(trace)].to = state
    /\ \A i \in 1..(Len(trace) - 1) :
         trace[i].to = trace[i + 1].from /\ trace[i].step <= trace[i + 1].step
    /\ \A k \in 1..steps :
         \E i \in 1..Len(trace) :
           /\ trace[i] = [from |-> "CALL_LLM", to |-> "PROCESS_RESPONSE", step |-> k]
           /\ \A j \in 1..Len(trace) : trace[j].to = "PROCESS_RESPONSE" /\ j # i
                                        => trace[j].step # k

\* Working memory never holds more records than tools were run; with a healthy
\* memory service it holds one for each, whenever the LLM is called.
WorkingMemoryComplete ==
  /\ working <= Cardinality(seen)
  /\ state = "CALL_LLM" /\ Replies = {"ok"} => working = Cardinality(seen)

\* Every run ends, whatever the LLM, the tools and the memory service do.
Terminates == <>(stage \in {"returned", "raised"})

\* With a memory service that is merely down or unreachable, every run returns
\* a result and stores its trace.
Returns == <>(stage = "returned" /\ trace # <<>>)

\* The run keeps its contract.
ContractPhase ==
  IF state \notin TERMINAL_STATES THEN "running"
  ELSE IF stage \in {"returned", "raised"} THEN "closed" ELSE "settled"

Contract == INSTANCE RunContract WITH
  Permitted  <- {c \in Calls : c.tool \in Registered \cap Allowed},
  Escalating <- {c \in Calls : c.tool \in Registered \cap Allowed /\ Escalates(c.tool)},
  phase      <- ContractPhase,
  asked      <- steps,
  runs       <- invoked,
  verdict    <- IF state \in TERMINAL_STATES THEN TerminalStatus ELSE "none"

ImplementsContract == Contract!CSpec
=============================================================================
