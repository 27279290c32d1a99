----------------------------- MODULE StepRunner ------------------------------
(* The agent loop of one run: StepRunner.execute and its handlers             *)
(* (engine/orchestrator/step_runner.py), with the TerminationChecker, the     *)
(* loop guard, the budget and the context builder they call.  One action per  *)
(* handler, or per await of a handler that awaits in a loop, so that the      *)
(* clock and the memory service may change between two awaits.                *)
EXTENDS AgentStates, Budget, LoopGuard, Tools, MemoryClient, FiniteSets

CONSTANTS
  Calls,          \* the tool calls (tool and input) an LLM response may hold
  Responses,      \* the responses the LLM may give
  Usages,         \* the token use and cost one response may add
  ErrorTexts,     \* the limit words an exception's text may happen to hold
  InputHasFact,   \* whether the user's input states a fact worth storing
  LastN           \* the window of session messages loaded (50 in the code)

Call == [tool : ToolName, input : STRING]

StopReason == {"tool_use", "end_turn", "max_tokens", "other"}

\* text is the first text block of an end_turn response: "none" without one.
Response == [stop : StopReason, calls : Seq(Calls), text : {"none", "empty", "text"}]

ASSUME StepRunnerAssumption ==
  /\ Calls \subseteq Call
  /\ Responses \subseteq Response
  /\ \A r \in Responses : r.stop = "tool_use" => r.calls # <<>>
  /\ Usages \subseteq [tokens : Nat, cost : Nat]
  /\ ErrorTexts \subseteq SUBSET Limit
  /\ InputHasFact \in BOOLEAN
  /\ LastN \in Nat \ {0}

LLM_MAX_RETRIES == 3    \* LLM_RETRY.max_retries

VARIABLES
  \* the loop: the current state, the progress of its handler, the two logs
  state, iter, history, spans,
  \* ctx.messages, ctx.last_llm_response, tool_results_content, last_tool_results
  messages, response, blocks, results,
  \* ctx.final_answer, failure_reason, force_escalate, seen_tool_calls
  answer, failure, forceEscalate, seen,
  \* BudgetTracker; late: timeout_seconds have passed
  steps, tokens, cost, late,
  \* ctx.user_facts holds the input's fact
  factKnown,
  \* Layer 2: the session's roles, copies of the fact, working records of the run
  session, facts, working,
  \* history variable: how often the executor ran each call
  invoked

loopVars   == <<state, iter, history, spans>>
convVars   == <<messages, response, blocks, results>>
toolVars   == <<forceEscalate, seen, invoked>>
budgetVars == <<steps, tokens, cost>>
storeVars  == <<session, facts, working>>
ctxVars == <<loopVars, convVars, answer, failure, toolVars, budgetVars, late,
             factKnown, storeVars>>

------------------------------------------------------------------------------
\* Messages carry what the properties tell apart: who speaks, what kind of
\* content, and the tool_use ids it holds (step of the response, position).
Message(role, kind, ids) == [role |-> role, kind |-> kind, ids |-> ids]

InputMessage == Message("user", "input", <<>>)

\* SessionMemory.load: the last LastN messages, oldest first.
Prior == LET n == IF Len(session) <= LastN THEN Len(session) ELSE LastN
         IN  [i \in 1..n |-> Message(session[Len(session) - n + i], "prior", <<>>)]

CallIds == [i \in 1..Len(response.calls) |-> <<steps, i>>]

\* Mutant of Compressed: the tail is sliced one message short.
CompressedShort(ms) ==
  IF Len(ms) <= 6 THEN {ms}
  ELSE {<<ms[1]>> \o SubSeq(ms, k, Len(ms) - 1) : k \in 2..(Len(ms) - 5)}

\* ContextCompressor.compress: of more than 6 messages the first and the last
\* 6 stay, and how many of the others are dropped depends on their size.
Compressed(ms) ==
  IF Len(ms) <= 6 THEN {ms}
  ELSE {<<ms[1]>> \o SubSeq(ms, k, Len(ms)) : k \in 2..(Len(ms) - 5)}

NoFailure == [cause |-> "none", text |-> {}]
Cause == {"none", "unhandled", "memory_unavailable", "llm_status_error",
          "llm_error", "stop_reason", "tool_error", "budget", "state_loop"}

NoResponse == [stop |-> "other", calls |-> <<>>, text |-> "none"]

Init ==
  /\ state = "START" /\ iter = 0 /\ history = <<"START">> /\ spans = <<>>
  /\ messages = <<>> /\ response = NoResponse /\ blocks = <<>> /\ results = <<>>
  /\ answer = "none" /\ failure = NoFailure
  /\ forceEscalate = FALSE /\ seen = {} /\ invoked = [c \in Calls |-> 0]
  /\ steps = 0 /\ tokens = 0 /\ cost = 0 /\ late \in BOOLEAN
  /\ factKnown = FALSE /\ working = 0

\* Mutant of GotoAt: the span is built before the handler ran.
GotoLogsEarly(next, step) ==
  /\ state' = next
  /\ iter' = 0
  /\ spans' = Append(spans, [from |-> state, to |-> next, step |-> steps])
  /\ history' = IF next \in TERMINAL_STATES THEN history ELSE Append(history, next)

\* The end of execute and the start of the next one: the transition is logged
\* as a span with the steps taken by then, and a state that is not terminal
\* enters the history.
GotoAt(next, step) ==
  /\ state' = next
  /\ iter' = 0
  /\ spans' = Append(spans, [from |-> state, to |-> next, step |-> step])
  /\ history' = IF next \in TERMINAL_STATES THEN history ELSE Append(history, next)

Goto(next) == GotoAt(next, steps)

\* The handler goes on: its next await, call, result or attempt.
Again == iter' = iter + 1 /\ UNCHANGED <<state, history, spans>>

FailWith(cause, text) ==
  /\ failure' = [cause |-> cause, text |-> text]
  /\ Goto("FAIL")

\* execute's except clause: any exception a handler lets out fails the run.
Raise == \E text \in ErrorTexts : FailWith("unhandled", text)

Start ==
  /\ state = "START"
  /\ Goto("LOAD_MEMORY")
  /\ UNCHANGED <<convVars, answer, failure, toolVars, budgetVars, late, factKnown, storeVars>>

------------------------------------------------------------------------------
\* LOAD_MEMORY: the session first, then the user's facts.  An unreachable
\* service leaves what was loaded so far.
LoadFailed(r) ==
  \/ Unreachable(r) /\ Goto("BUILD_CONTEXT") /\ UNCHANGED failure
  \/ Unavailable(r) /\ \E text \in ErrorTexts : FailWith("memory_unavailable", text)
  \/ OtherError(r) /\ Raise

LoadSession ==
  /\ state = "LOAD_MEMORY" /\ iter = 0
  /\ \E r \in Replies :
       IF r = "ok"
       THEN /\ messages' = IF Prior = <<>> THEN messages ELSE Append(Prior, InputMessage)
            /\ Again /\ UNCHANGED failure
       ELSE LoadFailed(r) /\ UNCHANGED messages
  /\ UNCHANGED <<response, blocks, results, answer, toolVars, budgetVars, late, factKnown, storeVars>>

LoadFacts ==
  /\ state = "LOAD_MEMORY" /\ iter = 1
  /\ \E r \in Replies :
       IF r = "ok"
       THEN factKnown' = (facts > 0) /\ Goto("BUILD_CONTEXT") /\ UNCHANGED failure
       ELSE LoadFailed(r) /\ UNCHANGED factKnown
  /\ UNCHANGED <<convVars, answer, toolVars, budgetVars, late, storeVars>>

\* Mutant of Seeded: the input is appended to whatever was loaded.
SeededAlways == Append(messages, InputMessage)

\* ContextBuilder.initialise: LOAD_MEMORY has appended the input to what it
\* loaded; without earlier messages the conversation starts here.
Seeded == IF messages = <<>> THEN <<InputMessage>> ELSE messages

\* The one place that compresses, before any token was used.
BuildContext ==
  /\ state = "BUILD_CONTEXT"
  /\ messages' \in IF NearTokenLimit(tokens) THEN Compressed(Seeded) ELSE {Seeded}
  /\ Goto("CALL_LLM")
  /\ UNCHANGED <<response, blocks, results, answer, failure, toolVars, budgetVars, late,
                 factKnown, storeVars>>

------------------------------------------------------------------------------
\* CALL_LLM: iter is `attempt' in the source, from 0.

\* add_tokens and increment_step.
Charge(u) ==
  /\ tokens' = tokens + u.tokens
  /\ cost' = cost + u.cost
  /\ steps' = steps + 1

LLMResponds ==
  /\ state = "CALL_LLM"
  /\ response' \in Responses
  /\ \E u \in Usages : Charge(u)
  /\ GotoAt("PROCESS_RESPONSE", steps + 1)
  /\ UNCHANGED <<messages, blocks, results, answer, failure, toolVars, late, factKnown, storeVars>>

\* Mutants of LLMStatusError: one retry too many; the last attempt starts the
\* count again.
LLMStatusErrorOnceMore ==
  /\ state = "CALL_LLM"
  /\ IF iter <= LLM_MAX_RETRIES
     THEN Again /\ UNCHANGED failure
     ELSE \E text \in ErrorTexts : FailWith("llm_status_error", text)
  /\ UNCHANGED <<convVars, answer, toolVars, budgetVars, late, factKnown, storeVars>>

LLMStatusErrorForever ==
  /\ state = "CALL_LLM"
  /\ iter' = (iter + 1) % (LLM_MAX_RETRIES + 1)
  /\ UNCHANGED <<state, history, spans, failure, convVars, answer, toolVars, budgetVars, late,
                 factKnown, storeVars>>

LLMStatusError ==
  /\ state = "CALL_LLM"
  /\ IF iter < LLM_MAX_RETRIES
     THEN Again /\ UNCHANGED failure
     ELSE \E text \in ErrorTexts : FailWith("llm_status_error", text)
  /\ UNCHANGED <<convVars, answer, toolVars, budgetVars, late, factKnown, storeVars>>

LLMOtherError ==
  /\ state = "CALL_LLM"
  /\ \E text \in ErrorTexts : FailWith("llm_error", text)
  /\ UNCHANGED <<convVars, answer, toolVars, budgetVars, late, factKnown, storeVars>>

\* PROCESS_RESPONSE.  The failure text quotes the stop reason.
ProcessResponse ==
  /\ state = "PROCESS_RESPONSE"
  /\ \/ /\ response.stop = "tool_use"
        /\ messages' = Append(messages, Message("assistant", "tool_use", CallIds))
        /\ Goto("EXECUTE_TOOL")
        /\ UNCHANGED <<answer, failure>>
     \/ /\ response.stop = "end_turn"
        /\ messages' = Append(messages, Message("assistant", "text", <<>>))
        /\ answer' = IF response.text = "text" THEN "text" ELSE "empty"
        /\ Goto("RESPOND")
        /\ UNCHANGED failure
     \/ /\ response.stop \notin {"tool_use", "end_turn"}
        /\ FailWith("stop_reason", {response.stop} \cap Limit)
        /\ UNCHANGED <<messages, answer>>
  /\ UNCHANGED <<response, blocks, results, toolVars, budgetVars, late, factKnown, storeVars>>

------------------------------------------------------------------------------
\* EXECUTE_TOOL: iter is the position of the call in the response; 0 stands
\* for the entry of the handler.
BeginTools ==
  /\ state = "EXECUTE_TOOL" /\ iter = 0
  /\ blocks' = <<>> /\ results' = <<>>
  /\ Again
  /\ UNCHANGED <<messages, response, answer, failure, toolVars, budgetVars, late, factKnown, storeVars>>

CurrentCall == response.calls[iter]
AtCall == state = "EXECUTE_TOOL" /\ iter \in 1..Len(response.calls)
AnswerCall == blocks' = Append(blocks, <<steps, iter>>)

\* Mutant of RefuseCall: `continue' without an error block.
RefuseCallSilently ==
  /\ AtCall
  /\ ~Available(CurrentCall.tool) \/ CurrentCall \in seen
  /\ Again
  /\ UNCHANGED <<convVars, answer, failure, toolVars, budgetVars, late, factKnown, storeVars>>

\* A call to an unavailable tool, or one already made, gets an error block.
RefuseCall ==
  /\ AtCall
  /\ ~Available(CurrentCall.tool) \/ CurrentCall \in seen
  /\ AnswerCall
  /\ Again
  /\ UNCHANGED <<messages, response, results, answer, failure, toolVars, budgetVars, late,
                 factKnown, storeVars>>

\* Mutant of RegisterCall: only successful calls are remembered.
RegisterSuccess(call, outcome) ==
  seen' = IF outcome = "ok" THEN seen \cup {call} ELSE seen

RegisterCall(call, outcome) == seen' = seen \cup {call}

\* The executor runs the call.  Encoding its output comes last and may raise.
InvokeTool ==
  /\ AtCall
  /\ Available(CurrentCall.tool) /\ CurrentCall \notin seen
  /\ LET call == CurrentCall IN
       \E o \in Outcomes(call.tool) :
         /\ results' = Append(results, [tool |-> call.tool, outcome |-> o])
         /\ RegisterCall(call, o)
         /\ invoked' = [invoked EXCEPT ![call] = @ + 1]
         /\ forceEscalate' = (forceEscalate \/ Escalates(call.tool))
         /\ IF o = "ok" /\ ToolDef[call.tool].raw_output
            THEN Raise /\ UNCHANGED blocks
            ELSE AnswerCall /\ Again /\ UNCHANGED failure
  /\ UNCHANGED <<messages, response, answer, budgetVars, late, factKnown, storeVars>>

ToolsFailed == \E i \in 1..Len(results) : FatalResult(results[i])
FailTools == \E text \in ErrorTexts : FailWith("tool_error", text)

\* Mutant of AfterTools: a fatal result is looked for before an escalation.
AfterToolsFatalFirst ==
  IF ToolsFailed THEN FailTools
  ELSE Goto(IF forceEscalate THEN "ESCALATE" ELSE "OBSERVE_RESULT") /\ UNCHANGED failure

\* What follows the calls: escalation, then a fatal result, then the next state.
AfterTools ==
  IF forceEscalate THEN Goto("ESCALATE") /\ UNCHANGED failure
  ELSE IF ToolsFailed THEN FailTools
  ELSE Goto("OBSERVE_RESULT") /\ UNCHANGED failure

FinishTools ==
  /\ state = "EXECUTE_TOOL" /\ iter = Len(response.calls) + 1
  /\ messages' = Append(messages, Message("user", "tool_result", blocks))
  /\ AfterTools
  /\ UNCHANGED <<response, blocks, results, answer, toolVars, budgetVars, late, factKnown, storeVars>>

------------------------------------------------------------------------------
\* OBSERVE_RESULT: one append to working memory per result; iter counts them.
ObserveResult ==
  /\ state = "OBSERVE_RESULT" /\ iter < Len(results)
  /\ \E r \in Replies :
       /\ working' = IF Applied(r) THEN working + 1 ELSE working
       /\ IF OtherError(r) THEN Raise ELSE Again /\ UNCHANGED failure
  /\ UNCHANGED <<convVars, answer, toolVars, budgetVars, late, factKnown, session, facts>>

\* Mutants of FinishObserve: the last result is skipped; the memory writes are.
FinishObserveEarly ==
  /\ state = "OBSERVE_RESULT" /\ iter + 1 >= Len(results)
  /\ Goto("WRITE_MEMORY")
  /\ UNCHANGED <<convVars, answer, failure, toolVars, budgetVars, late, factKnown, storeVars>>

FinishObserveSkipsWrite ==
  /\ state = "OBSERVE_RESULT" /\ iter = Len(results)
  /\ Goto("CHECK_TERMINATION")
  /\ UNCHANGED <<convVars, answer, failure, toolVars, budgetVars, late, factKnown, storeVars>>

FinishObserve ==
  /\ state = "OBSERVE_RESULT" /\ iter = Len(results)
  /\ Goto("WRITE_MEMORY")
  /\ UNCHANGED <<convVars, answer, failure, toolVars, budgetVars, late, factKnown, storeVars>>

\* WRITE_MEMORY: only at step 1, the user's turn and then the fact in it.  A
\* tolerated failure of the first write skips the second.
AfterWrite(r, then) ==
  \/ r = "ok" /\ then /\ UNCHANGED failure
  \/ Tolerated(r) /\ Goto("CHECK_TERMINATION") /\ UNCHANGED failure
  \/ OtherError(r) /\ Raise

WriteUserTurn ==
  /\ state = "WRITE_MEMORY" /\ iter = 0 /\ steps = 1
  /\ \E r \in Replies :
       /\ session' = IF Applied(r) THEN Append(session, "user") ELSE session
       /\ AfterWrite(r, Again)
  /\ UNCHANGED <<convVars, answer, toolVars, budgetVars, late, factKnown, facts, working>>

WriteFact ==
  /\ state = "WRITE_MEMORY" /\ iter = 1 /\ InputHasFact /\ ~factKnown
  /\ \E r \in Replies :
       /\ facts' = IF Applied(r) THEN facts + 1 ELSE facts
       /\ AfterWrite(r, Goto("CHECK_TERMINATION"))
  /\ UNCHANGED <<convVars, answer, toolVars, budgetVars, late, factKnown, session, working>>

NothingToWrite ==
  /\ state = "WRITE_MEMORY"
  /\ steps # 1 \/ (iter = 1 /\ (~InputHasFact \/ factKnown))
  /\ Goto("CHECK_TERMINATION")
  /\ UNCHANGED <<convVars, answer, failure, toolVars, budgetVars, late, factKnown, storeVars>>

------------------------------------------------------------------------------
\* TerminationChecker.check: escalation, then the budget, then the loop guard.
CheckTermination ==
  /\ state = "CHECK_TERMINATION"
  /\ LET exceeded == Exceeded(steps, tokens, cost, late) IN
       IF forceEscalate THEN Goto("ESCALATE") /\ UNCHANGED failure
       ELSE IF exceeded # {} THEN FailWith("budget", exceeded)
       ELSE IF CheckStateLoop(history) THEN FailWith("state_loop", {})
       ELSE Goto("CALL_LLM") /\ UNCHANGED failure
  /\ UNCHANGED <<convVars, answer, toolVars, budgetVars, late, factKnown, storeVars>>

\* The wall clock passes timeout_seconds.  No handler looks at it but
\* CHECK_TERMINATION.
TimeRunsOut ==
  /\ ~late
  /\ late' = TRUE
  /\ UNCHANGED <<loopVars, convVars, answer, failure, toolVars, budgetVars, factKnown, storeVars>>

LoadMemory == LoadSession \/ LoadFacts
CallLLM == LLMResponds \/ LLMStatusError \/ LLMOtherError
ExecuteTool == BeginTools \/ RefuseCall \/ InvokeTool \/ FinishTools
Observe == ObserveResult \/ FinishObserve
WriteMemory == WriteUserTurn \/ WriteFact \/ NothingToWrite

\* _dispatch: the handler of the current state.
Execute ==
  \/ Start \/ LoadMemory \/ BuildContext \/ CallLLM \/ ProcessResponse
  \/ ExecuteTool \/ Observe \/ WriteMemory \/ CheckTermination
=============================================================================
