---------------------------- MODULE MCAgentEngine ----------------------------
(* Instances of AgentEngine for TLC.                                          *)
EXTENDS TraceReplay

Def(retries, perm, onError, raw) ==
  [max_retries |-> retries, permission_level |-> perm, on_timeout |-> "fail",
   on_error |-> onError, raw_output |-> raw]

\* "wipe" is registered but not in the agent's list, "ghost" is in the list but
\* not registered, "broken" is registered with a negative max_retries.
MCToolName == {"lookup", "refund", "human", "broken", "wipe", "ghost"}
MCRegistered == MCToolName \ {"ghost"}
MCAllowed == MCToolName \ {"wipe"}
MCToolDef ==
  [t \in MCRegistered |->
     CASE t = "lookup" -> Def(2, "read", "return_structured_error", FALSE)
       [] t = "refund" -> Def(0, "write", "fail", TRUE)
       [] t = "human"  -> Def(2, "escalate", "fail", FALSE)
       [] t = "broken" -> Def(-1, "read", "fail", FALSE)
       [] t = "wipe"   -> Def(0, "write", "escalate", FALSE)]

Run(t) == [tool |-> t, input |-> "x"]
LookupY == [tool |-> "lookup", input |-> "y"]

ToolUse(calls) == [stop |-> "tool_use", calls |-> calls, text |-> "none"]
EndTurn(text) == [stop |-> "end_turn", calls |-> <<>>, text |-> text]
Stopped(why) == [stop |-> why, calls |-> <<>>, text |-> "none"]

\* Every kind of call, alone and in the pairs that matter: a call repeated in
\* one response, an escalation before another tool, a refused call first.
AllCalls == {Run(t) : t \in MCToolName} \cup {LookupY}
AllResponses ==
  {ToolUse(<<c>>) : c \in AllCalls}
    \cup {ToolUse(<<Run("lookup"), Run("lookup")>>), ToolUse(<<Run("human"), Run("refund")>>),
          ToolUse(<<Run("ghost"), LookupY>>)}
    \cup {EndTurn("text"), EndTurn("none"), Stopped("max_tokens"), Stopped("other")}

\* One reading tool and an answer: enough where the memory service is the subject.
FewCalls == {Run("lookup"), LookupY}
FewResponses == {ToolUse(<<Run("lookup")>>), ToolUse(<<LookupY, Run("lookup")>>), EndTurn("text")}

\* The LLM repeats one call for ever.
StuckCalls == {Run("lookup")}
StuckResponses == {ToolUse(<<Run("lookup")>>)}

AllReplies == Reply
Outages == {"ok", "connect_error", "kv_down"}
KvDown == {"ok", "kv_down"}
Healthy == {"ok"}

OneUsage == {[tokens |-> 1, cost |-> 1]}
\* Small, dear and long responses, so that each limit can be the one reached.
SomeUsages == {[tokens |-> 1, cost |-> 1], [tokens |-> 1, cost |-> 2], [tokens |-> 3, cost |-> 1]}

QuietErrors == {{}}
TellingErrors == {{}, {"timeout"}}

NewSession == {<<>>}
SomeSessions == {<<>>, <<"user", "assistant", "user">>}
LongSession == {<<"user", "assistant", "user", "assistant", "user", "assistant", "user", "assistant">>}
NoFacts == {0}
MaybeFact == {0, 1}
=============================================================================
