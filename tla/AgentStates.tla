----------------------------- MODULE AgentStates -----------------------------
(* The states of the agent loop and its transition table, translated from     *)
(* engine/orchestrator/state_machine.py.                                      *)

AgentState ==
  {"START", "LOAD_MEMORY", "BUILD_CONTEXT", "CALL_LLM", "PROCESS_RESPONSE",
   "EXECUTE_TOOL", "OBSERVE_RESULT", "WRITE_MEMORY", "CHECK_TERMINATION",
   "RESPOND", "ESCALATE", "FAIL"}

TERMINAL_STATES == {"RESPOND", "ESCALATE", "FAIL"}

\* Valid next states of each state, as the table in the source gives them.
TRANSITIONS ==
  [s \in AgentState |->
     CASE s = "START"             -> {"LOAD_MEMORY"}
       [] s = "LOAD_MEMORY"       -> {"BUILD_CONTEXT", "FAIL"}
       [] s = "BUILD_CONTEXT"     -> {"CALL_LLM"}
       [] s = "CALL_LLM"          -> {"PROCESS_RESPONSE", "FAIL"}
       [] s = "PROCESS_RESPONSE"  -> {"EXECUTE_TOOL", "RESPOND", "ESCALATE"}
       [] s = "EXECUTE_TOOL"      -> {"OBSERVE_RESULT", "ESCALATE", "FAIL"}
       [] s = "OBSERVE_RESULT"    -> {"WRITE_MEMORY"}
       [] s = "WRITE_MEMORY"      -> {"CHECK_TERMINATION"}
       [] s = "CHECK_TERMINATION" -> {"CALL_LLM", "RESPOND", "ESCALATE", "FAIL"}
       [] OTHER                   -> {}]

\* validate_transition: TRUE where the function returns, FALSE where it raises.
ValidTransition(from, to) == to \in TRANSITIONS[from]
=============================================================================
