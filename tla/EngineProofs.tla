---------------------------- MODULE EngineProofs -----------------------------
(* Theorems about one run of the agent, for every registry, budget, LLM and   *)
(* memory service the constants allow.                                        *)
EXTENDS AgentEngine, SequenceTheorems, TLAPS

------------------------------------------------------------------------------
\* Helpers on the sequences the model builds.

LEMMA CallIdsType ==
  ASSUME response \in Response, steps \in Nat
  PROVE  CallIds \in Seq(CallId)
<1>1. response.calls \in Seq(Calls)
  BY DEF Response
<1>2. Len(response.calls) \in Nat
  BY <1>1
<1> QED
  BY <1>2 DEF CallIds, CallId

LEMMA PriorType ==
  ASSUME session \in Seq(Role)
  PROVE  Prior \in Seq(MessageType)
<1> DEFINE n == IF Len(session) <= LastN THEN Len(session) ELSE LastN
<1>1. n \in Nat /\ n <= Len(session)
  BY StepRunnerAssumption
<1>2. ASSUME NEW i \in 1..n
      PROVE  Message(session[Len(session) - n + i], "prior", <<>>) \in MessageType
  <2>1. Len(session) - n + i \in 1..Len(session)
    BY <1>1
  <2>2. session[Len(session) - n + i] \in Role
    BY <2>1
  <2> QED
    BY <2>2 DEF Message, MessageType
<1> QED
  BY <1>1, <1>2 DEF Prior

LEMMA CompressedType ==
  ASSUME NEW ms \in Seq(MessageType), NEW cs \in Compressed(ms)
  PROVE  cs \in Seq(MessageType)
<1>1. CASE Len(ms) <= 6
  BY <1>1 DEF Compressed
<1>2. CASE ~(Len(ms) <= 6)
  <2>1. PICK k \in 2..(Len(ms) - 5) : cs = <<ms[1]>> \o SubSeq(ms, k, Len(ms))
    BY <1>2 DEF Compressed
  <2>2. ms[1] \in MessageType
    BY <1>2
  <2>3. SubSeq(ms, k, Len(ms)) \in Seq(MessageType)
    BY <1>2, SubSeqProperties
  <2>4. <<ms[1]>> \in Seq(MessageType)
    BY <2>2
  <2> QED
    BY <2>1, <2>3, <2>4, ConcatProperties
<1> QED
  BY <1>1, <1>2

------------------------------------------------------------------------------
\* Type correctness.  The loop variables first: a handler either leaves for the
\* next state or goes on.

LEMMA GotoAtType ==
  ASSUME LoopTypeOK, ConvTypeOK', NEW next \in AgentState, NEW step \in Nat, GotoAt(next, step)
  PROVE  LoopTypeOK'
<1>1. [from |-> state, to |-> next, step |-> step] \in Span
  BY DEF LoopTypeOK, Span
<1>2. spans' \in Seq(Span)
  BY <1>1 DEF LoopTypeOK, GotoAt
<1>3. history' \in Seq(AgentState)
  BY DEF LoopTypeOK, GotoAt
<1>4. Len(response.calls)' \in Nat
  BY DEF ConvTypeOK, Response
<1> QED
  BY <1>2, <1>3, <1>4 DEF LoopTypeOK, GotoAt, LLM_MAX_RETRIES

LEMMA GotoType ==
  ASSUME LoopTypeOK, BudgetTypeOK, ConvTypeOK', NEW next \in AgentState, Goto(next)
  PROVE  LoopTypeOK'
BY GotoAtType DEF BudgetTypeOK, Goto

LEMMA FailWithType ==
  ASSUME LoopTypeOK, BudgetTypeOK, ConvTypeOK',
         NEW cause \in Cause, NEW text \in SUBSET Limit, FailWith(cause, text)
  PROVE  LoopTypeOK' /\ failure' \in [cause : Cause, text : SUBSET Limit]
BY GotoType DEF FailWith, AgentState

LEMMA RaiseType ==
  ASSUME LoopTypeOK, BudgetTypeOK, ConvTypeOK', Raise
  PROVE  LoopTypeOK' /\ failure' \in [cause : Cause, text : SUBSET Limit]
<1>1. PICK text \in ErrorTexts : FailWith("unhandled", text)
  BY DEF Raise
<1>2. text \in SUBSET Limit
  BY StepRunnerAssumption
<1> QED
  BY <1>1, <1>2, FailWithType DEF Cause

LEMMA AgainType ==
  ASSUME LoopTypeOK, ConvTypeOK, response' = response, Again,
         state = "CALL_LLM" => iter < LLM_MAX_RETRIES,
         state = "EXECUTE_TOOL" => iter <= Len(response.calls)
  PROVE  LoopTypeOK'
<1>1. Len(response.calls) \in Nat
  BY DEF ConvTypeOK, Response
<1> QED
  BY <1>1 DEF LoopTypeOK, Again, LLM_MAX_RETRIES

LEMMA TypeStart ==
  ASSUME TypeOK, Start, StageTypeOK'
  PROVE  TypeOK'
<1> USE DEF TypeOK
<1>1. ConvTypeOK' /\ ToolTypeOK' /\ BudgetTypeOK' /\ StoreTypeOK'
  BY DEF Start, ConvTypeOK, ToolTypeOK, BudgetTypeOK, StoreTypeOK, convVars, toolVars, budgetVars, storeVars
<1>2. LoopTypeOK'
  BY <1>1, GotoType DEF Start, AgentState
<1> QED
  BY <1>1, <1>2

LEMMA LoadFailedType ==
  ASSUME LoopTypeOK, BudgetTypeOK, ConvTypeOK', NEW r \in Replies, LoadFailed(r),
         failure \in [cause : Cause, text : SUBSET Limit]
  PROVE  LoopTypeOK' /\ failure' \in [cause : Cause, text : SUBSET Limit]
<1>1. CASE Goto("BUILD_CONTEXT") /\ UNCHANGED failure
  BY <1>1, GotoType DEF AgentState
<1>2. CASE \E text \in ErrorTexts : FailWith("memory_unavailable", text)
  BY <1>2, FailWithType, StepRunnerAssumption DEF Cause
<1>3. CASE Raise
  BY <1>3, RaiseType
<1> QED
  BY <1>1, <1>2, <1>3 DEF LoadFailed

LEMMA TypeLoadSession ==
  ASSUME TypeOK, LoadSession, StageTypeOK'
  PROVE  TypeOK'
<1> USE DEF TypeOK
<1>1. BudgetTypeOK' /\ StoreTypeOK'
  BY DEF LoadSession, BudgetTypeOK, StoreTypeOK, budgetVars, storeVars
<1>2. PICK r \in Replies :
        IF r = "ok"
        THEN /\ messages' = IF Prior = <<>> THEN messages ELSE Append(Prior, InputMessage)
             /\ Again /\ UNCHANGED failure
        ELSE LoadFailed(r) /\ UNCHANGED messages
  BY DEF LoadSession
<1>3. ConvTypeOK'
  <2>1. Prior \in Seq(MessageType)
    BY PriorType DEF StoreTypeOK
  <2>2. InputMessage \in MessageType
    BY DEF InputMessage, Message, MessageType, Role
  <2>3. Append(Prior, InputMessage) \in Seq(MessageType)
    BY <2>1, <2>2
  <2>4. messages' \in {messages, Append(Prior, InputMessage)}
    BY <1>2
  <2>5. messages' \in Seq(MessageType)
    BY <2>3, <2>4 DEF ConvTypeOK
  <2> QED
    BY <2>5 DEF LoadSession, ConvTypeOK
<1>4. LoopTypeOK' /\ failure' \in [cause : Cause, text : SUBSET Limit]
  <2>1. CASE Again /\ UNCHANGED failure
    BY <2>1, AgainType DEF LoadSession, ToolTypeOK
  <2>2. CASE LoadFailed(r)
    BY <1>3, <2>2, LoadFailedType DEF ToolTypeOK
  <2> QED
    BY <1>2, <2>1, <2>2
<1>5. ToolTypeOK'
  BY <1>4 DEF LoadSession, ToolTypeOK, toolVars
<1> QED
  BY <1>1, <1>3, <1>4, <1>5

LEMMA TypeLoadFacts ==
  ASSUME TypeOK, LoadFacts, StageTypeOK'
  PROVE  TypeOK'
<1> USE DEF TypeOK
<1>1. BudgetTypeOK' /\ ConvTypeOK'
  BY DEF LoadFacts, BudgetTypeOK, ConvTypeOK, budgetVars, convVars
<1>2. PICK r \in Replies :
        IF r = "ok"
        THEN factKnown' = (facts > 0) /\ Goto("BUILD_CONTEXT") /\ UNCHANGED failure
        ELSE LoadFailed(r) /\ UNCHANGED factKnown
  BY DEF LoadFacts
<1>3. StoreTypeOK'
  <2>1. (facts > 0) \in BOOLEAN
    BY DEF StoreTypeOK
  <2>2. factKnown' \in BOOLEAN
    BY <1>2, <2>1 DEF StoreTypeOK
  <2> QED
    BY <2>2 DEF LoadFacts, StoreTypeOK, storeVars
<1>4. LoopTypeOK' /\ failure' \in [cause : Cause, text : SUBSET Limit]
  <2>1. CASE Goto("BUILD_CONTEXT") /\ UNCHANGED failure
    BY <1>1, <2>1, GotoType DEF AgentState, ToolTypeOK
  <2>2. CASE LoadFailed(r)
    BY <1>1, <2>2, LoadFailedType DEF ToolTypeOK
  <2> QED
    BY <1>2, <2>1, <2>2
<1>5. ToolTypeOK'
  BY <1>4 DEF LoadFacts, ToolTypeOK, toolVars
<1> QED
  BY <1>1, <1>3, <1>4, <1>5

LEMMA TypeBuildContext ==
  ASSUME TypeOK, BuildContext, StageTypeOK'
  PROVE  TypeOK'
<1> USE DEF TypeOK
<1>1. BudgetTypeOK' /\ StoreTypeOK' /\ ToolTypeOK'
  BY DEF BuildContext, BudgetTypeOK, StoreTypeOK, ToolTypeOK, budgetVars, storeVars, toolVars
<1>2. Seeded \in Seq(MessageType)
  <2>1. InputMessage \in MessageType
    BY DEF InputMessage, Message, MessageType, Role
  <2>2. <<InputMessage>> \in Seq(MessageType)
    BY <2>1
  <2> QED
    BY <2>2 DEF Seeded, ConvTypeOK
<1>3. messages' \in Seq(MessageType)
  BY <1>2, CompressedType DEF BuildContext
<1>4. ConvTypeOK'
  BY <1>3 DEF BuildContext, ConvTypeOK
<1>5. LoopTypeOK'
  BY <1>4, GotoType DEF BuildContext, AgentState
<1> QED
  BY <1>1, <1>4, <1>5

LEMMA TypeLLMResponds ==
  ASSUME TypeOK, LLMResponds, StageTypeOK'
  PROVE  TypeOK'
<1> USE DEF TypeOK
<1>1. StoreTypeOK' /\ ToolTypeOK'
  BY DEF LLMResponds, StoreTypeOK, ToolTypeOK, storeVars, toolVars
<1>2. BudgetTypeOK'
  BY StepRunnerAssumption DEF LLMResponds, Charge, BudgetTypeOK
<1>3. ConvTypeOK'
  BY StepRunnerAssumption DEF LLMResponds, ConvTypeOK
<1>4. LoopTypeOK'
  BY <1>3, GotoAtType DEF LLMResponds, AgentState, BudgetTypeOK
<1> QED
  BY <1>1, <1>2, <1>3, <1>4

LEMMA TypeLLMStatusError ==
  ASSUME TypeOK, LLMStatusError, StageTypeOK'
  PROVE  TypeOK'
<1> USE DEF TypeOK
<1>1. ConvTypeOK' /\ BudgetTypeOK' /\ StoreTypeOK'
  BY DEF LLMStatusError, ConvTypeOK, BudgetTypeOK, StoreTypeOK, convVars, budgetVars, storeVars
<1>2. LoopTypeOK' /\ failure' \in [cause : Cause, text : SUBSET Limit]
  <2>1. CASE iter < LLM_MAX_RETRIES
    BY <2>1, AgainType DEF LLMStatusError, ToolTypeOK, convVars
  <2>2. CASE ~(iter < LLM_MAX_RETRIES)
    BY <1>1, <2>2, FailWithType, StepRunnerAssumption DEF LLMStatusError, Cause
  <2> QED
    BY <2>1, <2>2
<1>3. ToolTypeOK'
  BY <1>2 DEF LLMStatusError, ToolTypeOK, toolVars
<1> QED
  BY <1>1, <1>2, <1>3

LEMMA TypeLLMOtherError ==
  ASSUME TypeOK, LLMOtherError, StageTypeOK'
  PROVE  TypeOK'
<1> USE DEF TypeOK
<1>1. ConvTypeOK' /\ BudgetTypeOK' /\ StoreTypeOK'
  BY DEF LLMOtherError, ConvTypeOK, BudgetTypeOK, StoreTypeOK, convVars, budgetVars, storeVars
<1>2. LoopTypeOK' /\ failure' \in [cause : Cause, text : SUBSET Limit]
  BY <1>1, FailWithType, StepRunnerAssumption DEF LLMOtherError, Cause
<1>3. ToolTypeOK'
  BY <1>2 DEF LLMOtherError, ToolTypeOK, toolVars
<1> QED
  BY <1>1, <1>2, <1>3

LEMMA TypeProcessResponse ==
  ASSUME TypeOK, ProcessResponse, StageTypeOK'
  PROVE  TypeOK'
<1> USE DEF TypeOK
<1>1. BudgetTypeOK' /\ StoreTypeOK'
  BY DEF ProcessResponse, BudgetTypeOK, StoreTypeOK, budgetVars, storeVars
<1>2. CallIds \in Seq(CallId)
  BY CallIdsType DEF ConvTypeOK, BudgetTypeOK
<1>3. Message("assistant", "tool_use", CallIds) \in MessageType
      /\ Message("assistant", "text", <<>>) \in MessageType
  BY <1>2 DEF Message, MessageType, Role
<1>4. messages' \in Seq(MessageType) /\ answer' \in {"none", "empty", "text"}
  <2>1. Append(messages, Message("assistant", "tool_use", CallIds)) \in Seq(MessageType)
    BY <1>3 DEF ConvTypeOK
  <2>2. Append(messages, Message("assistant", "text", <<>>)) \in Seq(MessageType)
    BY <1>3 DEF ConvTypeOK
  <2>3. /\ \/ messages' = messages
           \/ messages' = Append(messages, Message("assistant", "tool_use", CallIds))
           \/ messages' = Append(messages, Message("assistant", "text", <<>>))
        /\ answer' \in {answer, "text", "empty"}
    BY DEF ProcessResponse
  <2> QED
    BY <2>1, <2>2, <2>3 DEF ConvTypeOK
<1>5. ConvTypeOK'
  BY <1>4 DEF ProcessResponse, ConvTypeOK
<1>6. LoopTypeOK' /\ failure' \in [cause : Cause, text : SUBSET Limit]
  <2>1. CASE Goto("EXECUTE_TOOL") /\ UNCHANGED failure
    BY <1>5, <2>1, GotoType DEF AgentState, ToolTypeOK
  <2>2. CASE Goto("RESPOND") /\ UNCHANGED failure
    BY <1>5, <2>2, GotoType DEF AgentState, ToolTypeOK
  <2>3. CASE FailWith("stop_reason", {response.stop} \cap Limit)
    BY <1>5, <2>3, FailWithType DEF Cause
  <2> QED
    BY <2>1, <2>2, <2>3 DEF ProcessResponse
<1>7. ToolTypeOK'
  BY <1>6 DEF ProcessResponse, ToolTypeOK, toolVars
<1> QED
  BY <1>1, <1>5, <1>6, <1>7

LEMMA TypeBeginTools ==
  ASSUME TypeOK, BeginTools, StageTypeOK'
  PROVE  TypeOK'
<1> USE DEF TypeOK
<1>1. BudgetTypeOK' /\ StoreTypeOK' /\ ToolTypeOK'
  BY DEF BeginTools, BudgetTypeOK, StoreTypeOK, ToolTypeOK, budgetVars, storeVars, toolVars
<1>2. ConvTypeOK'
  BY DEF BeginTools, ConvTypeOK
<1>3. Len(response.calls) \in Nat
  BY DEF ConvTypeOK, Response
<1>4. LoopTypeOK'
  BY <1>3, AgainType DEF BeginTools
<1> QED
  BY <1>1, <1>2, <1>4

LEMMA TypeRefuseCall ==
  ASSUME TypeOK, RefuseCall, StageTypeOK'
  PROVE  TypeOK'
<1> USE DEF TypeOK
<1>1. BudgetTypeOK' /\ StoreTypeOK' /\ ToolTypeOK'
  BY DEF RefuseCall, BudgetTypeOK, StoreTypeOK, ToolTypeOK, budgetVars, storeVars, toolVars
<1>2. <<steps, iter>> \in CallId
  BY DEF CallId, LoopTypeOK, BudgetTypeOK
<1>3. ConvTypeOK'
  BY <1>2 DEF RefuseCall, AnswerCall, ConvTypeOK
<1>4. LoopTypeOK'
  BY AgainType DEF RefuseCall, AtCall
<1> QED
  BY <1>1, <1>3, <1>4

LEMMA TypeInvoke ==
  ASSUME TypeOK, InvokeTool, StageTypeOK'
  PROVE  TypeOK'
<1> USE DEF TypeOK
<1>1. BudgetTypeOK' /\ StoreTypeOK'
  BY DEF InvokeTool, BudgetTypeOK, StoreTypeOK, budgetVars, storeVars
<1>2. CurrentCall \in Calls /\ CurrentCall.tool \in Registered
  BY StepRunnerAssumption DEF InvokeTool, AtCall, CurrentCall, Available, ConvTypeOK, Response
<1>3. PICK o \in Outcomes(CurrentCall.tool) :
        /\ results' = Append(results, [tool |-> CurrentCall.tool, outcome |-> o])
        /\ RegisterCall(CurrentCall, o)
        /\ invoked' = [invoked EXCEPT ![CurrentCall] = @ + 1]
        /\ forceEscalate' = (forceEscalate \/ Escalates(CurrentCall.tool))
        /\ IF o = "ok" /\ ToolDef[CurrentCall.tool].raw_output
           THEN Raise /\ UNCHANGED blocks
           ELSE AnswerCall /\ Again /\ UNCHANGED failure
  BY DEF InvokeTool
<1>4. o \in Outcome
  BY DEF Outcomes, Outcome
<1>5. ConvTypeOK'
  <2>1. <<steps, iter>> \in CallId
    BY DEF CallId, LoopTypeOK, BudgetTypeOK
  <2>2. blocks' = blocks \/ AnswerCall
    BY <1>3, Zenon
  <2>3. blocks' \in Seq(CallId)
    <3>1. Append(blocks, <<steps, iter>>) \in Seq(CallId)
      BY <2>1 DEF ConvTypeOK
    <3> QED
      BY <2>2, <3>1 DEF ConvTypeOK, AnswerCall
  <2>4. results' \in Seq([tool : Registered, outcome : Outcome])
    BY <1>2, <1>3, <1>4 DEF ConvTypeOK
  <2> QED
    BY <2>3, <2>4 DEF InvokeTool, ConvTypeOK
<1>6. LoopTypeOK' /\ failure' \in [cause : Cause, text : SUBSET Limit]
  <2>1. CASE Raise
    BY <1>5, <2>1, RaiseType
  <2>2. CASE Again /\ UNCHANGED failure
    BY <2>2, AgainType DEF InvokeTool, AtCall, ToolTypeOK
  <2> QED
    BY <1>3, <2>1, <2>2
<1>7. ToolTypeOK'
  BY <1>2, <1>3, <1>6 DEF ToolTypeOK, RegisterCall
<1> QED
  BY <1>1, <1>5, <1>6, <1>7

LEMMA TypeFinishTools ==
  ASSUME TypeOK, FinishTools, StageTypeOK'
  PROVE  TypeOK'
<1> USE DEF TypeOK
<1>1. BudgetTypeOK' /\ StoreTypeOK'
  BY DEF FinishTools, BudgetTypeOK, StoreTypeOK, budgetVars, storeVars
<1>2. Message("user", "tool_result", blocks) \in MessageType
  BY DEF Message, MessageType, Role, ConvTypeOK
<1>3. ConvTypeOK'
  BY <1>2 DEF FinishTools, ConvTypeOK
<1>4. LoopTypeOK' /\ failure' \in [cause : Cause, text : SUBSET Limit]
  <2>1. CASE Goto("ESCALATE") /\ UNCHANGED failure
    BY <1>3, <2>1, GotoType DEF AgentState, ToolTypeOK
  <2>2. CASE FailTools
    BY <1>3, <2>2, FailWithType, StepRunnerAssumption DEF FailTools, Cause
  <2>3. CASE Goto("OBSERVE_RESULT") /\ UNCHANGED failure
    BY <1>3, <2>3, GotoType DEF AgentState, ToolTypeOK
  <2> QED
    BY <2>1, <2>2, <2>3 DEF FinishTools, AfterTools
<1>5. ToolTypeOK'
  BY <1>4 DEF FinishTools, ToolTypeOK, toolVars
<1> QED
  BY <1>1, <1>3, <1>4, <1>5

LEMMA TypeObserveResult ==
  ASSUME TypeOK, ObserveResult, StageTypeOK'
  PROVE  TypeOK'
<1> USE DEF TypeOK
<1>1. BudgetTypeOK' /\ ConvTypeOK'
  BY DEF ObserveResult, BudgetTypeOK, ConvTypeOK, budgetVars, convVars
<1>2. StoreTypeOK'
  BY DEF ObserveResult, StoreTypeOK
<1>3. LoopTypeOK' /\ failure' \in [cause : Cause, text : SUBSET Limit]
  <2>1. CASE Raise
    BY <1>1, <2>1, RaiseType
  <2>2. CASE Again /\ UNCHANGED failure
    BY <2>2, AgainType DEF ObserveResult, ToolTypeOK, convVars
  <2> QED
    BY <2>1, <2>2 DEF ObserveResult
<1>4. ToolTypeOK'
  BY <1>3 DEF ObserveResult, ToolTypeOK, toolVars
<1> QED
  BY <1>1, <1>2, <1>3, <1>4

LEMMA TypeFinishObserve ==
  ASSUME TypeOK, FinishObserve, StageTypeOK'
  PROVE  TypeOK'
<1> USE DEF TypeOK
<1>1. ConvTypeOK' /\ ToolTypeOK' /\ BudgetTypeOK' /\ StoreTypeOK'
  BY DEF FinishObserve, ConvTypeOK, ToolTypeOK, BudgetTypeOK, StoreTypeOK, convVars, toolVars, budgetVars, storeVars
<1>2. LoopTypeOK'
  BY <1>1, GotoType DEF FinishObserve, AgentState
<1> QED
  BY <1>1, <1>2

LEMMA TypeWriteUserTurn ==
  ASSUME TypeOK, WriteUserTurn, StageTypeOK'
  PROVE  TypeOK'
<1> USE DEF TypeOK
<1>1. BudgetTypeOK' /\ ConvTypeOK'
  BY DEF WriteUserTurn, BudgetTypeOK, ConvTypeOK, budgetVars, convVars
<1>2. StoreTypeOK'
  BY DEF WriteUserTurn, StoreTypeOK, Role
<1>3. LoopTypeOK' /\ failure' \in [cause : Cause, text : SUBSET Limit]
  <2>1. CASE Again /\ UNCHANGED failure
    BY <2>1, AgainType DEF WriteUserTurn, ToolTypeOK, convVars
  <2>2. CASE Goto("CHECK_TERMINATION") /\ UNCHANGED failure
    BY <1>1, <2>2, GotoType DEF AgentState, ToolTypeOK
  <2>3. CASE Raise
    BY <1>1, <2>3, RaiseType
  <2> QED
    BY <2>1, <2>2, <2>3 DEF WriteUserTurn, AfterWrite
<1>4. ToolTypeOK'
  BY <1>3 DEF WriteUserTurn, ToolTypeOK, toolVars
<1> QED
  BY <1>1, <1>2, <1>3, <1>4

LEMMA TypeWriteFact ==
  ASSUME TypeOK, WriteFact, StageTypeOK'
  PROVE  TypeOK'
<1> USE DEF TypeOK
<1>1. BudgetTypeOK' /\ ConvTypeOK'
  BY DEF WriteFact, BudgetTypeOK, ConvTypeOK, budgetVars, convVars
<1>2. StoreTypeOK'
  BY DEF WriteFact, StoreTypeOK
<1>3. LoopTypeOK' /\ failure' \in [cause : Cause, text : SUBSET Limit]
  <2>1. CASE Goto("CHECK_TERMINATION") /\ UNCHANGED failure
    BY <1>1, <2>1, GotoType DEF AgentState, ToolTypeOK
  <2>2. CASE Raise
    BY <1>1, <2>2, RaiseType
  <2> QED
    BY <2>1, <2>2 DEF WriteFact, AfterWrite
<1>4. ToolTypeOK'
  BY <1>3 DEF WriteFact, ToolTypeOK, toolVars
<1> QED
  BY <1>1, <1>2, <1>3, <1>4

LEMMA TypeNothingToWrite ==
  ASSUME TypeOK, NothingToWrite, StageTypeOK'
  PROVE  TypeOK'
<1> USE DEF TypeOK
<1>1. ConvTypeOK' /\ ToolTypeOK' /\ BudgetTypeOK' /\ StoreTypeOK'
  BY DEF NothingToWrite, ConvTypeOK, ToolTypeOK, BudgetTypeOK, StoreTypeOK, convVars, toolVars, budgetVars, storeVars
<1>2. LoopTypeOK'
  BY <1>1, GotoType DEF NothingToWrite, AgentState
<1> QED
  BY <1>1, <1>2

LEMMA TypeCheckTermination ==
  ASSUME TypeOK, CheckTermination, StageTypeOK'
  PROVE  TypeOK'
<1> USE DEF TypeOK
<1>1. BudgetTypeOK' /\ ConvTypeOK' /\ StoreTypeOK'
  BY DEF CheckTermination, BudgetTypeOK, ConvTypeOK, StoreTypeOK, budgetVars, convVars, storeVars
<1>2. LoopTypeOK' /\ failure' \in [cause : Cause, text : SUBSET Limit]
  <2>1. CASE Goto("ESCALATE") /\ UNCHANGED failure
    BY <1>1, <2>1, GotoType DEF AgentState, ToolTypeOK
  <2>2. CASE FailWith("budget", Exceeded(steps, tokens, cost, late))
    BY <1>1, <2>2, FailWithType DEF Cause, Exceeded, Limit
  <2>3. CASE FailWith("state_loop", {})
    BY <1>1, <2>3, FailWithType DEF Cause
  <2>4. CASE Goto("CALL_LLM") /\ UNCHANGED failure
    BY <1>1, <2>4, GotoType DEF AgentState, ToolTypeOK
  <2> QED
    BY <2>1, <2>2, <2>3, <2>4 DEF CheckTermination
<1>3. ToolTypeOK'
  BY <1>2 DEF CheckTermination, ToolTypeOK, toolVars
<1> QED
  BY <1>1, <1>2, <1>3


LEMMA TypeExecute ==
  ASSUME TypeOK, Execute, StageTypeOK'
  PROVE  TypeOK'
<1>1. CASE LoadMemory
  BY <1>1, TypeLoadSession, TypeLoadFacts DEF LoadMemory
<1>2. CASE CallLLM
  BY <1>2, TypeLLMResponds, TypeLLMStatusError, TypeLLMOtherError DEF CallLLM
<1>3. CASE ExecuteTool
  BY <1>3, TypeBeginTools, TypeRefuseCall, TypeInvoke, TypeFinishTools DEF ExecuteTool
<1>4. CASE Observe
  BY <1>4, TypeObserveResult, TypeFinishObserve DEF Observe
<1>5. CASE WriteMemory
  BY <1>5, TypeWriteUserTurn, TypeWriteFact, TypeNothingToWrite DEF WriteMemory
<1>6. CASE Start \/ BuildContext \/ ProcessResponse \/ CheckTermination
  BY <1>6, TypeStart, TypeBuildContext, TypeProcessResponse, TypeCheckTermination
<1> QED
  BY <1>1, <1>2, <1>3, <1>4, <1>5, <1>6 DEF Execute

LEMMA StatusType == TerminalStatus \in Status
BY DEF TerminalStatus, Status

\* The post-run steps change the stores and where run() is, nothing else.
LEMMA TypeAfterLoop ==
  ASSUME TypeOK, UNCHANGED postLoopVars, StageTypeOK',
         working' \in Nat, session' \in Seq(Role)
  PROVE  TypeOK'
BY DEF TypeOK, LoopTypeOK, ConvTypeOK, ToolTypeOK, BudgetTypeOK, StoreTypeOK, postLoopVars,
       loopVars, convVars, toolVars, budgetVars

LEMMA TypeStoreAnswer ==
  ASSUME TypeOK, StoreAnswer
  PROVE  TypeOK'
<1>1. session \in Seq(Role) /\ working \in Nat /\ StageTypeOK
  BY DEF TypeOK, StoreTypeOK
<1>2. Append(session, "assistant") \in Seq(Role)
  BY <1>1 DEF Role
<1>3. CASE answer = "text"
  <2>1. PICK r \in Replies :
          /\ session' = IF Applied(r) THEN Append(session, "assistant") ELSE session
          /\ Proceed(r, "audit")
    BY <1>3 DEF StoreAnswer
  <2>2. stage' \in Stage
    BY <2>1 DEF Proceed, Stage
  <2>3. session' \in Seq(Role)
    BY <1>1, <1>2, <2>1
  <2> QED
    BY <1>1, <2>2, <2>3, TypeAfterLoop DEF StoreAnswer, StageTypeOK
<1>4. CASE answer # "text"
  <2>1. stage' \in Stage /\ session' = session
    BY <1>4 DEF StoreAnswer, Stage
  <2> QED
    BY <1>1, <2>1, TypeAfterLoop DEF StoreAnswer, StageTypeOK
<1> QED
  BY <1>3, <1>4

LEMMA TypeWriteAudit ==
  ASSUME TypeOK, WriteAudit
  PROVE  TypeOK'
<1>1. session \in Seq(Role) /\ working \in Nat /\ StageTypeOK
  BY DEF TypeOK, StoreTypeOK
<1>2. Append(audit, TerminalStatus) \in Seq(Status)
  BY <1>1, StatusType DEF StageTypeOK
<1>3. PICK r \in Replies :
        /\ audit' = IF Applied(r) THEN Append(audit, TerminalStatus) ELSE audit
        /\ Proceed(r, "cleanup")
  BY DEF WriteAudit
<1>4. stage' \in Stage /\ audit' \in Seq(Status)
  BY <1>1, <1>2, <1>3 DEF Proceed, Stage, StageTypeOK
<1> QED
  BY <1>1, <1>4, TypeAfterLoop DEF WriteAudit, StageTypeOK

LEMMA TypeDeleteWorkingMemory ==
  ASSUME TypeOK, DeleteWorkingMemory
  PROVE  TypeOK'
<1>1. session \in Seq(Role) /\ working \in Nat /\ StageTypeOK /\ spans \in Seq(Span)
  BY DEF TypeOK, StoreTypeOK, LoopTypeOK
<1>2. PICK r \in Replies :
        /\ working' = IF Applied(r) THEN 0 ELSE working
        /\ trace' = IF OtherError(r) THEN trace ELSE spans
        /\ Proceed(r, "returned")
  BY DEF DeleteWorkingMemory
<1>3. stage' \in Stage /\ working' \in Nat /\ trace' \in Seq(Span)
  BY <1>1, <1>2 DEF Proceed, Stage, StageTypeOK
<1> QED
  BY <1>1, <1>3, TypeAfterLoop DEF DeleteWorkingMemory, StageTypeOK

LEMMA TypeUnchanged ==
  ASSUME TypeOK, UNCHANGED <<postLoopVars, session, working, audit, trace>>, stage' \in Stage
  PROVE  TypeOK'
BY TypeAfterLoop DEF TypeOK, StageTypeOK, StoreTypeOK

LEMMA TypeClock ==
  ASSUME TypeOK, Clock
  PROVE  TypeOK'
BY DEF TypeOK, LoopTypeOK, ConvTypeOK, ToolTypeOK, BudgetTypeOK, StoreTypeOK, StageTypeOK,
       Clock, TimeRunsOut, engineVars, loopVars, convVars, toolVars, budgetVars, storeVars

LEMMA TypeInit == EngineInit => TypeOK
<1> SUFFICES ASSUME EngineInit PROVE TypeOK
  OBVIOUS
<1>1. NoResponse \in Response
  BY DEF NoResponse, Response, StopReason
<1>2. LoopTypeOK
  BY <1>1 DEF EngineInit, Init, LoopTypeOK, AgentState, NoResponse
<1>3. ConvTypeOK
  BY <1>1 DEF EngineInit, Init, ConvTypeOK
<1>4. ToolTypeOK
  BY DEF EngineInit, Init, ToolTypeOK, NoFailure, Cause
<1>5. BudgetTypeOK /\ StoreTypeOK
  BY EngineAssumption DEF EngineInit, Init, BudgetTypeOK, StoreTypeOK, Role
<1>6. StageTypeOK
  BY DEF EngineInit, StageTypeOK, Stage
<1> QED
  BY <1>2, <1>3, <1>4, <1>5, <1>6 DEF TypeOK

LEMMA TypeNext == TypeOK /\ [Next]_vars => TypeOK'
<1> SUFFICES ASSUME TypeOK, [Next]_vars PROVE TypeOK'
  OBVIOUS
<1>1. StageTypeOK /\ stage \in Stage
  BY DEF TypeOK, StageTypeOK
<1>2. CASE RunLoop
  <2>1. StageTypeOK'
    BY <1>1, <1>2 DEF RunLoop, StageTypeOK, engineVars
  <2> QED
    BY <1>2, <2>1, TypeExecute DEF RunLoop
<1>3. CASE LeaveLoop
  BY <1>3, TypeUnchanged DEF LeaveLoop, Stage, ctxVars, postLoopVars, storeVars
<1>4. CASE StoreAnswer \/ WriteAudit \/ DeleteWorkingMemory
  BY <1>4, TypeStoreAnswer, TypeWriteAudit, TypeDeleteWorkingMemory
<1>5. CASE Clock
  BY <1>5, TypeClock
<1>6. CASE UNCHANGED vars
  BY <1>1, <1>6, TypeUnchanged DEF vars, ctxVars, engineVars, postLoopVars, storeVars
<1> QED
  BY <1>2, <1>3, <1>4, <1>5, <1>6 DEF Next, PostRun, Ended

\* In every run every variable keeps its type; in particular no handler runs
\* past the end of the loop it is in (StepRunner.execute, AgentEngine.run).
THEOREM TypeCorrect == Spec => []TypeOK
BY TypeInit, TypeNext, PTL DEF Spec

=============================================================================
