-------------------------------- MODULE Tools --------------------------------
(* The tool registry as the agent loop sees it: engine/tools/schemas.py,      *)
(* registry.py, errors.py, and the contract of ToolExecutor.execute that      *)
(* ToolExecutor.tla is checked to keep.                                       *)
EXTENDS Integers

CONSTANTS
  ToolName,     \* every name the LLM may write, registered or not
  Registered,   \* the names in the registry
  Allowed,      \* run.tools: the names this agent may call
  ToolDef       \* the registered definitions

Permission == {"read", "write", "escalate"}
OnTimeout  == {"fail", "escalate", "skip"}
OnError    == {"fail", "escalate", "return_structured_error"}

\* max_retries is an unvalidated int.  raw_output marks a tool whose output
\* json.dumps cannot encode (output schemas do not convert the returned dict).
ToolDefinition ==
  [max_retries : Int, permission_level : Permission, on_timeout : OnTimeout,
   on_error : OnError, raw_output : BOOLEAN]

ASSUME ToolAssumption ==
  /\ Registered \subseteq ToolName
  /\ Allowed \subseteq ToolName
  /\ ToolDef \in [Registered -> ToolDefinition]

\* A result is "ok", an error type the executor can produce, or "no_error":
\* success=False with error=None.
Outcome == {"ok", "validation_error", "timeout", "external_failure",
            "empty_result", "no_error"}

RecoverableErrors == {"empty_result", "timeout"}
UnrecoverableErrors == {"validation_error", "external_failure"}

\* Mutant of Available: the agent's own list is not consulted.
AvailableToAnyone(t) == t \in Registered

\* Registered, and in the agent's list.
Available(t) == t \in Registered /\ t \in Allowed

\* The results execute may return for t: with no attempt allowed, only a
\* rejected input or a failure without an error.
Outcomes(t) ==
  IF ToolDef[t].max_retries < 0 THEN {"validation_error", "no_error"}
                                ELSE Outcome \ {"no_error"}

\* A result that ends the run: unrecoverable, of a tool with on_error = "fail".
FatalResult(r) ==
  r.outcome \in UnrecoverableErrors /\ ToolDef[r.tool].on_error = "fail"

Escalates(t) == ToolDef[t].permission_level = "escalate"
=============================================================================
