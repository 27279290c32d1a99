-------------------------- MODULE EngineConversation ---------------------------
(* The conversation a run hands to the LLM: every tool_use is answered.       *)
EXTENDS EngineMoves

Unasked == {"START", "LOAD_MEMORY", "BUILD_CONTEXT"}
Between == {"CALL_LLM", "PROCESS_RESPONSE", "OBSERVE_RESULT", "WRITE_MEMORY",
            "CHECK_TERMINATION"}

NoCalls(ms) == \A i \in 1..Len(ms) : ms[i].kind # "tool_use"

\* The calls of message i, if it holds any, are answered by the next message.
AnsweredAt(ms, i) ==
  ms[i].kind = "tool_use" =>
    i < Len(ms) /\ ms[i + 1].kind = "tool_result" /\ ms[i + 1].ids = ms[i].ids

AllAnswered(ms) == \A i \in 1..Len(ms) : AnsweredAt(ms, i)

\* Inside EXECUTE_TOOL the last message awaits its answer, which holds one block
\* for every call passed so far, whatever became of the call.
ConversationInv ==
  /\ state \in Unasked => NoCalls(messages)
  /\ state \in Between => AllAnswered(messages)
  /\ state = "EXECUTE_TOOL" =>
       /\ messages # <<>>
       /\ messages[Len(messages)] = Message("assistant", "tool_use", CallIds)
       /\ \A i \in 1..(Len(messages) - 1) : AnsweredAt(messages, i)
       /\ iter >= 1 => Len(blocks) = iter - 1
                       /\ \A i \in 1..Len(blocks) : blocks[i] = <<steps, i>>

------------------------------------------------------------------------------
\* What appending does to a conversation.

LEMMA AppendIndices ==
  ASSUME NEW ms \in Seq(MessageType), NEW m \in MessageType
  PROVE  /\ Append(ms, m) \in Seq(MessageType) /\ Len(Append(ms, m)) = Len(ms) + 1
         /\ \A i \in 1..Len(ms) : Append(ms, m)[i] = ms[i]
         /\ Append(ms, m)[Len(ms) + 1] = m /\ Len(ms) \in Nat
OBVIOUS

LEMMA AppendKeepsAnswers ==
  ASSUME NEW ms \in Seq(MessageType), NEW m \in MessageType, AllAnswered(ms)
  PROVE  \A i \in 1..Len(ms) : AnsweredAt(Append(ms, m), i)
<1>1. SUFFICES ASSUME NEW i \in 1..Len(ms), ms[i].kind = "tool_use"
               PROVE  /\ i < Len(Append(ms, m)) /\ Append(ms, m)[i + 1].kind = "tool_result"
                      /\ Append(ms, m)[i + 1].ids = ms[i].ids
  BY AppendIndices DEF AnsweredAt
<1>2. i < Len(ms) /\ ms[i + 1].kind = "tool_result" /\ ms[i + 1].ids = ms[i].ids
  BY <1>1 DEF AllAnswered, AnsweredAt
<1>3. Append(ms, m)[i + 1] = ms[i + 1] /\ Len(Append(ms, m)) = Len(ms) + 1
  BY <1>2, AppendIndices
<1> QED
  BY <1>1, <1>2, <1>3

LEMMA NoCallsAnswered ==
  ASSUME NEW ms \in Seq(MessageType), NoCalls(ms)
  PROVE  AllAnswered(ms)
BY DEF NoCalls, AllAnswered, AnsweredAt

LEMMA NoCallsAppend ==
  ASSUME NEW ms \in Seq(MessageType), NoCalls(ms), NEW m \in MessageType, m.kind # "tool_use"
  PROVE  NoCalls(Append(ms, m))
BY AppendIndices DEF NoCalls

LEMMA PriorNoCalls ==
  ASSUME session \in Seq(Role)
  PROVE  Prior \in Seq(MessageType) /\ NoCalls(Prior)
<1> DEFINE n == IF Len(session) <= LastN THEN Len(session) ELSE LastN
<1>1. n \in Nat
  BY StepRunnerAssumption
<1>2. Len(Prior) = n /\ \A i \in 1..n : Prior[i].kind = "prior"
  BY <1>1 DEF Prior, Message
<1> QED
  BY <1>2, PriorType DEF NoCalls

LEMMA CompressedNoCalls ==
  ASSUME NEW ms \in Seq(MessageType), NoCalls(ms), NEW cs \in Compressed(ms)
  PROVE  NoCalls(cs)
<1>1. CASE Len(ms) <= 6
  BY <1>1 DEF Compressed
<1>2. CASE ~(Len(ms) <= 6)
  <2>1. PICK k \in 2..(Len(ms) - 5) : cs = <<ms[1]>> \o SubSeq(ms, k, Len(ms))
    BY <1>2 DEF Compressed
  <2> DEFINE tail == SubSeq(ms, k, Len(ms))
  <2>2. /\ tail \in Seq(MessageType) /\ Len(tail) = Len(ms) - k + 1
        /\ \A i \in 1..Len(tail) : tail[i] = ms[k + i - 1]
    BY <1>2, SubSeqProperties
  <2>3. ms[1] \in MessageType /\ ms[1].kind # "tool_use"
    BY <1>2 DEF NoCalls
  <2>4. \A i \in 1..Len(tail) : tail[i].kind # "tool_use"
    BY <1>2, <2>2 DEF NoCalls
  <2> HIDE DEF tail
  <2>5. /\ Len(cs) = 1 + Len(tail) /\ cs[1] = ms[1]
        /\ \A i \in 2..Len(cs) : cs[i] = tail[i - 1]
    BY <2>1, <2>2, <2>3 DEF tail
  <2>6. ASSUME NEW i \in 1..Len(cs) PROVE cs[i].kind # "tool_use"
    <3>1. CASE i = 1
      BY <2>3, <2>5, <3>1
    <3>2. CASE i \in 2..Len(cs)
      <4>1. i - 1 \in 1..Len(tail)
        BY <2>2, <2>5, <3>2
      <4> QED
        BY <2>4, <2>5, <3>2, <4>1
    <3> QED
      BY <3>1, <3>2
  <2> QED
    BY <2>6 DEF NoCalls
<1> QED
  BY <1>1, <1>2

------------------------------------------------------------------------------
\* One lemma per part of the loop.

LEMMA InputType == InputMessage \in MessageType /\ InputMessage.kind # "tool_use"
BY DEF InputMessage, Message, MessageType, Role

\* Up to BUILD_CONTEXT the conversation holds what was loaded and the input.
LEMMA LoadKeeps ==
  ASSUME TypeOK, ConversationInv, Start \/ LoadMemory
  PROVE  ConversationInv'
<1> USE DEF Goto, GotoAt, Again, FailWith, Raise, Unasked, Between
<1>1. messages \in Seq(MessageType) /\ session \in Seq(Role) /\ NoCalls(messages)
  BY DEF TypeOK, ConvTypeOK, StoreTypeOK, ConversationInv, Start, LoadMemory, LoadSession, LoadFacts
<1>2. NoCalls(Append(Prior, InputMessage))
  BY <1>1, PriorNoCalls, NoCallsAppend, InputType
<1>3. messages' = messages \/ messages' = Append(Prior, InputMessage)
  BY DEF Start, LoadMemory, LoadSession, LoadFacts, convVars
<1>4. NoCalls(messages')
  BY <1>1, <1>2, <1>3
<1>5. state' \in Unasked \cup {"FAIL"}
  BY DEF Start, LoadMemory, LoadSession, LoadFacts, LoadFailed
<1>6. state' \notin Between /\ state' # "EXECUTE_TOOL"
  BY <1>5
<1> QED
  BY <1>4, <1>6 DEF ConversationInv, NoCalls

LEMMA BuildKeeps ==
  ASSUME TypeOK, ConversationInv, BuildContext
  PROVE  ConversationInv'
<1>1. messages \in Seq(MessageType) /\ NoCalls(messages)
  BY DEF TypeOK, ConvTypeOK, ConversationInv, BuildContext, Unasked
<1>2. Seeded \in Seq(MessageType) /\ NoCalls(Seeded)
  <2>1. <<InputMessage>> \in Seq(MessageType) /\ NoCalls(<<InputMessage>>)
    BY InputType DEF NoCalls
  <2> QED
    BY <1>1, <2>1 DEF Seeded
<1>3. messages' \in Compressed(Seeded) \/ messages' = Seeded
  BY DEF BuildContext
<1>4. messages' \in Seq(MessageType) /\ NoCalls(messages')
  BY <1>2, <1>3, CompressedType, CompressedNoCalls
<1>5. AllAnswered(messages')
  BY <1>4, NoCallsAnswered
<1>6. state' = "CALL_LLM"
  BY DEF BuildContext, Goto, GotoAt
<1> QED
  BY <1>5, <1>6 DEF ConversationInv, Unasked, AllAnswered, AnsweredAt

\* The handlers between two turns leave the conversation alone.
LEMMA BetweenKeeps ==
  ASSUME ConversationInv, CallLLM \/ Observe \/ WriteMemory \/ CheckTermination
  PROVE  ConversationInv'
<1> USE DEF Goto, GotoAt, Again, FailWith, Raise, Between
<1>1. CASE CallLLM
  <2>1. messages' = messages /\ state \in Between /\ state' \in Between \cup {"FAIL"}
    BY <1>1 DEF CallLLM, LLMResponds, LLMStatusError, LLMOtherError, convVars
  <2> QED
    BY <2>1 DEF ConversationInv, Unasked
<1>2. CASE Observe
  <2>1. messages' = messages /\ state \in Between /\ state' \in Between \cup {"FAIL"}
    BY <1>2 DEF Observe, ObserveResult, FinishObserve, convVars
  <2> QED
    BY <2>1 DEF ConversationInv, Unasked
<1>3. CASE WriteMemory
  <2>1. messages' = messages /\ state \in Between /\ state' \in Between \cup {"FAIL"}
    BY <1>3 DEF WriteMemory, WriteUserTurn, WriteFact, NothingToWrite, AfterWrite, convVars
  <2> QED
    BY <2>1 DEF ConversationInv, Unasked
<1>4. CASE CheckTermination
  <2>1. messages' = messages /\ state \in Between /\ state' \in Between \cup {"FAIL", "ESCALATE"}
    BY <1>4 DEF CheckTermination, convVars
  <2> QED
    BY <2>1 DEF ConversationInv, Unasked
<1> QED
  BY <1>1, <1>2, <1>3, <1>4

\* The assistant's turn is appended on the way to the tools.
LEMMA ProcessKeeps ==
  ASSUME TypeOK, ConversationInv, ProcessResponse
  PROVE  ConversationInv'
<1> DEFINE m == Message("assistant", "tool_use", CallIds)
<1>1. messages \in Seq(MessageType) /\ AllAnswered(messages)
  BY DEF TypeOK, ConvTypeOK, ConversationInv, ProcessResponse, Between
<1>2. m \in MessageType
  BY CallIdsType DEF TypeOK, ConvTypeOK, BudgetTypeOK, Message, MessageType, Role
<1>3. CASE messages' = Append(messages, m) /\ Goto("EXECUTE_TOOL")
  <2>1. state' = "EXECUTE_TOOL" /\ iter' = 0
    BY <1>3 DEF Goto, GotoAt
  <2>2. CallIds' = CallIds
    BY DEF ProcessResponse, CallIds, budgetVars
  <2>3. /\ Len(messages') = Len(messages) + 1 /\ messages'[Len(messages')] = m
        /\ messages' # <<>> /\ Len(messages) \in Nat
    BY <1>1, <1>2, <1>3, AppendIndices
  <2>4. \A i \in 1..(Len(messages') - 1) : AnsweredAt(messages', i)
    BY <1>1, <1>2, <1>3, <2>3, AppendKeepsAnswers
  <2> QED
    BY <2>1, <2>2, <2>3, <2>4 DEF ConversationInv, Unasked, Between, Message, AnsweredAt
<1>4. CASE Goto("RESPOND") \/ FailWith("stop_reason", {response.stop} \cap Limit)
  BY <1>4 DEF ConversationInv, Unasked, Between, FailWith, Goto, GotoAt
<1> QED
  BY <1>3, <1>4 DEF ProcessResponse

\* Every call is passed with one block, run or refused.
LEMMA CallKeeps ==
  ASSUME TypeOK, ConversationInv, BeginTools \/ RefuseCall \/ InvokeTool
  PROVE  ConversationInv'
<1>1. /\ state = "EXECUTE_TOOL" /\ UNCHANGED <<messages, response, steps>>
      /\ iter \in Nat /\ blocks \in Seq(CallId)
  BY DEF BeginTools, RefuseCall, InvokeTool, AtCall, TypeOK, LoopTypeOK, ConvTypeOK, budgetVars
<1>2. CallIds' = CallIds
  BY <1>1 DEF CallIds
<1>3. CASE state' = "FAIL"
  BY <1>3 DEF ConversationInv, Unasked, Between
<1>4. CASE BeginTools
  <2>1. state' = state /\ iter' = 1 /\ blocks' = <<>>
    BY <1>4 DEF BeginTools, Again
  <2>2. Len(blocks') = 0
    BY <2>1
  <2> QED
    BY <1>1, <1>2, <2>1, <2>2 DEF ConversationInv, Unasked, Between, Message, AnsweredAt
<1>5. CASE AnswerCall /\ Again /\ AtCall
  <2>1. state' = state /\ iter' = iter + 1 /\ iter >= 1 /\ blocks' = Append(blocks, <<steps, iter>>)
    BY <1>5 DEF Again, AtCall, AnswerCall
  <2>2. Len(blocks) = iter - 1 /\ \A i \in 1..Len(blocks) : blocks[i] = <<steps, i>>
    BY <1>1, <2>1 DEF ConversationInv
  <2>3. /\ Len(blocks') = iter /\ blocks'[iter] = <<steps, iter>>
        /\ \A i \in 1..(iter - 1) : blocks'[i] = <<steps, i>>
    BY <1>1, <2>1, <2>2
  <2>4. \A i \in 1..Len(blocks') : blocks'[i] = <<steps', i>>
    BY <1>1, <2>1, <2>3
  <2> QED
    BY <1>1, <1>2, <2>1, <2>3, <2>4 DEF ConversationInv, Unasked, Between, Message, AnsweredAt
<1>6. RefuseCall => AnswerCall /\ Again /\ AtCall
  BY DEF RefuseCall
<1>7. InvokeTool => state' = "FAIL" \/ (AnswerCall /\ Again /\ AtCall)
  BY DEF InvokeTool, Raise, FailWith, Goto, GotoAt
<1> QED
  BY <1>3, <1>4, <1>5, <1>6, <1>7

\* After the last call the blocks answer the response, one by one.
LEMMA FinishKeeps ==
  ASSUME TypeOK, ConversationInv, FinishTools
  PROVE  ConversationInv'
<1> DEFINE m == Message("user", "tool_result", blocks)
           n == Len(messages)
<1>1. /\ messages \in Seq(MessageType) /\ blocks \in Seq(CallId) /\ iter \in Nat
      /\ Len(response.calls) \in Nat /\ iter = Len(response.calls) + 1
      /\ messages' = Append(messages, m) /\ n \in Nat /\ n >= 1
      /\ messages[n] = Message("assistant", "tool_use", CallIds)
      /\ Len(blocks) = Len(response.calls) /\ \A i \in 1..Len(blocks) : blocks[i] = <<steps, i>>
  BY DEF FinishTools, TypeOK, LoopTypeOK, ConvTypeOK, Response, ConversationInv
<1>2. blocks = CallIds
  <2>1. CallIds \in Seq(CallId)
    BY CallIdsType DEF TypeOK, ConvTypeOK, BudgetTypeOK
  <2>2. PICK c \in Nat : c = Len(response.calls)
    BY <1>1
  <2>3. CallIds = [i \in 1..c |-> <<steps, i>>]
    BY <2>2 DEF CallIds
  <2>4. Len(CallIds) = c /\ \A i \in 1..c : CallIds[i] = <<steps, i>>
    BY <2>3
  <2> QED
    BY <1>1, <2>1, <2>2, <2>4, SeqEqual
<1>3. m \in MessageType /\ m.kind = "tool_result" /\ m.ids = CallIds
  BY <1>1, <1>2 DEF Message, MessageType, Role
<1>4. /\ Len(messages') = n + 1 /\ messages'[n + 1] = m
      /\ \A i \in 1..n : messages'[i] = messages[i]
  BY <1>1, <1>3, AppendIndices
<1>5. ASSUME NEW i \in 1..(n + 1) PROVE AnsweredAt(messages', i)
  <2>1. CASE i = n + 1
    BY <1>3, <1>4, <2>1 DEF AnsweredAt
  <2>2. CASE i = n
    BY <1>1, <1>3, <1>4, <2>2 DEF AnsweredAt, Message
  <2>3. CASE i \in 1..(n - 1)
    <3>1. AnsweredAt(messages, i) /\ i + 1 \in 1..n /\ i \in 1..n
      BY <1>1, <2>3 DEF ConversationInv, FinishTools
    <3> QED
      BY <1>1, <1>4, <3>1 DEF AnsweredAt
  <2> QED
    BY <1>1, <2>1, <2>2, <2>3
<1>6. AllAnswered(messages')
  BY <1>4, <1>5 DEF AllAnswered
<1>7. state' \in {"ESCALATE", "FAIL", "OBSERVE_RESULT"}
  BY DEF FinishTools, AfterTools, FailTools, FailWith, Goto, GotoAt
<1> QED
  BY <1>6, <1>7 DEF ConversationInv, Unasked, AllAnswered, AnsweredAt

LEMMA ConversationNext == TypeOK /\ ConversationInv /\ [Next]_vars => ConversationInv'
<1> SUFFICES ASSUME TypeOK, ConversationInv, [Next]_vars PROVE ConversationInv'
  OBVIOUS
<1>1. CASE Execute
  BY <1>1, LoadKeeps, BuildKeeps, BetweenKeeps, ProcessKeeps, CallKeeps, FinishKeeps
  DEF Execute, ExecuteTool
<1>2. CASE UNCHANGED <<state, iter, messages, response, blocks, steps>>
  <2>1. CallIds' = CallIds
    BY <1>2 DEF CallIds
  <2> QED
    BY <1>2, <2>1 DEF ConversationInv, NoCalls, AllAnswered, AnsweredAt, Message
<1>3. CASE ~Execute
  BY <1>2, <1>3 DEF Next, RunLoop, PostRun, LeaveLoop, StoreAnswer, WriteAudit,
     DeleteWorkingMemory, Clock, TimeRunsOut, Ended, vars, ctxVars, postLoopVars, loopVars,
     convVars, budgetVars
<1> QED
  BY <1>1, <1>3

\* At every LLM request each tool_use of the conversation is answered, in order,
\* by the next message: however many calls a response holds and whichever of
\* them were refused, repeated or failed (_execute_tool).
THEOREM CallsAreAnswered == Spec => []EveryCallAnswered
<1>1. EngineInit => ConversationInv
  BY DEF EngineInit, Init, ConversationInv, NoCalls, Between
<1>2. ConversationInv => EveryCallAnswered
  BY DEF ConversationInv, EveryCallAnswered, AllAnswered, AnsweredAt, Between
<1> QED
  BY <1>1, <1>2, ConversationNext, TypeCorrect, PTL DEF Spec

------------------------------------------------------------------------------
\* The input is asked once.

\* What was loaded, and the input last.
Opening(ms) ==
  /\ ms # <<>> /\ ms[Len(ms)].kind = "input"
  /\ \A j \in 1..(Len(ms) - 1) : ms[j].kind = "prior"

AskedAt(ms, i) ==
  /\ ms[i].kind = "input"
  /\ \A j \in 1..(i - 1) : ms[j].kind = "prior"
  /\ \A j \in (i + 1)..Len(ms) : ms[j].kind \notin {"prior", "input"}

AskedOnce(ms) == \E i \in 1..Len(ms) : AskedAt(ms, i)

\* Until BUILD_CONTEXT nothing is loaded, or the input follows what is; from
\* then on the run only adds to the conversation.
InputInv ==
  /\ state = "START" \/ (state = "LOAD_MEMORY" /\ iter = 0) => messages = <<>>
  /\ state \in {"LOAD_MEMORY", "BUILD_CONTEXT"} => messages = <<>> \/ Opening(messages)
  /\ state \in Between \cup {"EXECUTE_TOOL"} => AskedOnce(messages)

LEMMA OpeningAsks ==
  ASSUME NEW ms \in Seq(MessageType), Opening(ms)
  PROVE  AskedOnce(ms)
<1>1. Len(ms) \in 1..Len(ms)
  BY DEF Opening
<1>2. AskedAt(ms, Len(ms))
  BY <1>1 DEF Opening, AskedAt
<1> QED
  BY <1>1, <1>2 DEF AskedOnce

LEMMA AppendKeepsAsked ==
  ASSUME NEW ms \in Seq(MessageType), NEW m \in MessageType, m.kind \notin {"prior", "input"},
         AskedOnce(ms)
  PROVE  AskedOnce(Append(ms, m))
<1> PICK i \in 1..Len(ms) : AskedAt(ms, i)
  BY DEF AskedOnce
<1> DEFINE new == Append(ms, m)
<1>1. /\ Len(ms) \in Nat /\ Len(new) = Len(ms) + 1 /\ new[Len(ms) + 1] = m
      /\ \A j \in 1..Len(ms) : new[j] = ms[j]
  BY AppendIndices
<1> HIDE DEF new
<1>2. AskedAt(new, i) /\ i \in 1..Len(new)
  BY <1>1 DEF AskedAt
<1> QED
  BY <1>2 DEF AskedOnce, new

\* The loaded messages with the input after them.
LEMMA PriorOpens ==
  ASSUME session \in Seq(Role)
  PROVE  /\ Append(Prior, InputMessage) \in Seq(MessageType)
         /\ Opening(Append(Prior, InputMessage))
<1> DEFINE n == IF Len(session) <= LastN THEN Len(session) ELSE LastN
           new == Append(Prior, InputMessage)
<1>1. n \in Nat
  BY StepRunnerAssumption
<1>2. Len(Prior) = n /\ \A i \in 1..n : Prior[i].kind = "prior"
  BY <1>1 DEF Prior, Message
<1>3. Prior \in Seq(MessageType)
  BY PriorType
<1>4. InputMessage \in MessageType /\ InputMessage.kind = "input"
  BY InputType DEF InputMessage, Message
<1> HIDE DEF n
<1>5. /\ new \in Seq(MessageType) /\ Len(new) = n + 1 /\ new[n + 1] = InputMessage
      /\ \A i \in 1..n : new[i] = Prior[i]
  BY <1>2, <1>3, <1>4, AppendIndices
<1> HIDE DEF new
<1>6. new # <<>>
  BY <1>1, <1>5
<1>7. Opening(new)
  BY <1>1, <1>2, <1>4, <1>5, <1>6 DEF Opening
<1> QED
  BY <1>5, <1>7 DEF new

\* Compressing drops earlier turns only: the input is the last of the messages.
LEMMA CompressedAsks ==
  ASSUME NEW ms \in Seq(MessageType), Opening(ms), NEW cs \in Compressed(ms)
  PROVE  AskedOnce(cs)
<1>1. CASE Len(ms) <= 6
  BY <1>1, OpeningAsks DEF Compressed
<1>2. CASE ~(Len(ms) <= 6)
  <2>1. PICK k \in 2..(Len(ms) - 5) : cs = <<ms[1]>> \o SubSeq(ms, k, Len(ms))
    BY <1>2 DEF Compressed
  <2> DEFINE tail == SubSeq(ms, k, Len(ms))
             n == Len(ms) - k + 1
  <2>2. /\ tail \in Seq(MessageType) /\ Len(tail) = n
        /\ \A i \in 1..n : tail[i] = ms[k + i - 1]
    BY <1>2, SubSeqProperties
  <2>3. n \in Nat /\ n >= 6 /\ n < Len(ms) /\ k + n - 1 = Len(ms)
    BY <1>2
  <2>4. ms[1] \in MessageType /\ ms[1].kind = "prior"
    BY <1>2 DEF Opening
  <2> HIDE DEF tail, n
  <2>5. /\ Len(cs) = n + 1 /\ cs[1] = ms[1]
        /\ \A i \in 2..(n + 1) : cs[i] = tail[i - 1]
    BY <2>1, <2>2, <2>3, <2>4 DEF tail
  <2>6. ASSUME NEW i \in 2..(n + 1) PROVE cs[i] = ms[k + i - 2]
    <3>1. i - 1 \in 1..n /\ k + (i - 1) - 1 = k + i - 2
      BY <2>3
    <3>2. tail[i - 1] = ms[k + (i - 1) - 1]
      BY <2>2, <3>1
    <3> QED
      BY <2>5, <3>1, <3>2
  <2>7. cs[n + 1].kind = "input"
    <3>1. cs[n + 1] = ms[k + (n + 1) - 2]
      BY <2>3, <2>6
    <3>2. k + (n + 1) - 2 = Len(ms)
      BY <2>3
    <3> QED
      BY <3>1, <3>2 DEF Opening
  <2>8. \A i \in 1..n : cs[i].kind = "prior"
    <3> SUFFICES ASSUME NEW i \in 2..n PROVE cs[i].kind = "prior"
      BY <2>3, <2>4, <2>5
    <3>1. k + i - 2 \in 1..(Len(ms) - 1)
      BY <2>3
    <3> QED
      BY <2>3, <2>6, <3>1 DEF Opening
  <2>9. AskedAt(cs, n + 1)
    BY <2>3, <2>5, <2>7, <2>8 DEF AskedAt
  <2> QED
    BY <2>3, <2>5, <2>9 DEF AskedOnce
<1> QED
  BY <1>1, <1>2

LEMMA InputExecute ==
  ASSUME TypeOK, InputInv, Execute
  PROVE  InputInv'
<1> USE DEF Goto, GotoAt, Again, FailWith, Raise, Between
<1>0. messages \in Seq(MessageType) /\ session \in Seq(Role) /\ iter \in Nat
  BY DEF TypeOK, LoopTypeOK, ConvTypeOK, StoreTypeOK
<1>1. CASE Start
  BY <1>1 DEF Start, convVars, InputInv
<1>2. CASE LoadMemory
  <2>1. /\ state = "LOAD_MEMORY"
        /\ messages' = messages \/ messages' = Append(Prior, InputMessage)
    BY <1>2 DEF LoadMemory, LoadSession, LoadFacts, convVars
  <2>2. messages' = <<>> \/ Opening(messages')
    BY <1>0, <2>1, PriorOpens DEF InputInv
  <2>3. \/ state' = "LOAD_MEMORY" /\ iter' = iter + 1
        \/ state' \in {"BUILD_CONTEXT", "FAIL"}
    BY <1>2 DEF LoadMemory, LoadSession, LoadFacts, LoadFailed
  <2> QED
    BY <1>0, <2>2, <2>3 DEF InputInv, Opening
<1>3. CASE BuildContext
  <2>1. Seeded \in Seq(MessageType) /\ Opening(Seeded)
    <3>1. <<InputMessage>> \in Seq(MessageType) /\ Opening(<<InputMessage>>)
      BY InputType DEF Opening, InputMessage, Message
    <3> QED
      BY <1>0, <1>3, <3>1 DEF Seeded, InputInv, BuildContext
  <2>2. messages' \in Compressed(Seeded) \/ messages' = Seeded
    BY <1>3 DEF BuildContext
  <2>3. AskedOnce(messages')
    BY <2>1, <2>2, CompressedAsks, OpeningAsks
  <2> QED
    BY <1>3, <2>3 DEF BuildContext, InputInv, AskedOnce, AskedAt
<1>4. CASE \/ messages' = messages
           \/ \E m \in MessageType : m.kind \notin {"prior", "input"} /\ messages' = Append(messages, m)
  <2>1. CASE /\ state \in Between \cup {"EXECUTE_TOOL"}
             /\ state' \in Between \cup {"EXECUTE_TOOL"} \cup TERMINAL_STATES
    <3>1. AskedOnce(messages')
      BY <1>0, <1>4, <2>1, AppendKeepsAsked DEF InputInv
    <3> QED
      BY <2>1, <3>1 DEF InputInv, TERMINAL_STATES, AskedOnce, AskedAt
  <2>2. CASE CallLLM \/ ProcessResponse
    BY <2>1, <2>2 DEF CallLLM, LLMResponds, LLMStatusError, LLMOtherError, ProcessResponse, TERMINAL_STATES
  <2>3. CASE ExecuteTool
    BY <2>1, <2>3 DEF ExecuteTool, BeginTools, RefuseCall, InvokeTool, AtCall, FinishTools,
       AfterTools, FailTools, TERMINAL_STATES
  <2>4. CASE Observe \/ WriteMemory \/ CheckTermination
    BY <2>1, <2>4 DEF Observe, ObserveResult, FinishObserve, WriteMemory, WriteUserTurn, WriteFact,
       NothingToWrite, AfterWrite, CheckTermination, TERMINAL_STATES
  <2> QED
    BY <1>1, <1>2, <1>3, <2>2, <2>3, <2>4 DEF Execute
<1>5. CASE CallLLM \/ Observe \/ WriteMemory \/ CheckTermination
  BY <1>4, <1>5 DEF CallLLM, LLMResponds, LLMStatusError, LLMOtherError, Observe, ObserveResult,
     FinishObserve, WriteMemory, WriteUserTurn, WriteFact, NothingToWrite, CheckTermination, convVars
<1>6. CASE ProcessResponse
  <2>1. /\ Message("assistant", "tool_use", CallIds) \in MessageType
        /\ Message("assistant", "tool_use", CallIds).kind = "tool_use"
    BY CallIdsType DEF TypeOK, ConvTypeOK, BudgetTypeOK, Message, MessageType, Role
  <2>2. /\ Message("assistant", "text", <<>>) \in MessageType
        /\ Message("assistant", "text", <<>>).kind = "text"
    BY DEF Message, MessageType, Role
  <2>3. \/ messages' = messages
        \/ messages' = Append(messages, Message("assistant", "tool_use", CallIds))
        \/ messages' = Append(messages, Message("assistant", "text", <<>>))
    BY <1>6 DEF ProcessResponse
  <2> HIDE DEF Message
  <2> QED
    BY <1>4, <2>1, <2>2, <2>3
<1>7. CASE ExecuteTool
  <2>1. /\ Message("user", "tool_result", blocks) \in MessageType
        /\ Message("user", "tool_result", blocks).kind = "tool_result"
    BY DEF TypeOK, ConvTypeOK, Message, MessageType, Role
  <2>2. messages' = messages \/ messages' = Append(messages, Message("user", "tool_result", blocks))
    BY <1>7 DEF ExecuteTool, BeginTools, RefuseCall, InvokeTool, FinishTools
  <2> QED
    BY <1>4, <2>1, <2>2
<1> QED
  BY <1>1, <1>2, <1>3, <1>5, <1>6, <1>7 DEF Execute

\* Whatever LOAD_MEMORY could load, and whatever BUILD_CONTEXT dropped of it,
\* every LLM request holds the user's input once, after the earlier turns and
\* before the run's own (_load_memory, ContextBuilder, ContextCompressor).
THEOREM InputIsAskedOnce == Spec => []InputAskedOnce
<1>1. EngineInit => InputInv
  BY DEF EngineInit, Init, InputInv, Between
<1>2. ASSUME TypeOK, InputInv, [Next]_vars PROVE InputInv'
  <2>1. CASE Execute
    BY <1>2, <2>1, InputExecute
  <2>2. CASE ~Execute
    <3>1. UNCHANGED <<state, iter, messages>>
      BY <1>2, <2>2 DEF Next, RunLoop, PostRun, LeaveLoop, StoreAnswer, WriteAudit,
         DeleteWorkingMemory, Clock, TimeRunsOut, Ended, vars, ctxVars, postLoopVars, loopVars,
         convVars
    <3> QED
      BY <1>2, <3>1 DEF InputInv, Opening, AskedOnce, AskedAt
  <2> QED
    BY <2>1, <2>2
<1>3. InputInv => InputAskedOnce
  BY DEF InputInv, InputAskedOnce, AskedOnce, AskedAt, Between
<1> QED
  BY <1>1, <1>2, <1>3, TypeCorrect, PTL DEF Spec
=============================================================================
