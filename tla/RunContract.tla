---------------------------- MODULE RunContract ------------------------------
(* What a run of an agent promises, without the state machine that keeps it:  *)
(* a bounded number of LLM responses, each permitted call run at most once,   *)
(* no LLM response after an escalation, and one verdict that agrees with what *)
(* was done and never changes.  AgentEngine implements this specification.    *)
EXTENDS Integers

CONSTANTS
  Calls,        \* the tool calls the LLM may write
  Permitted,    \* those the run may execute
  Escalating,   \* those whose execution hands the run to a human
  MaxSteps      \* the step limit of the budget

VARIABLES phase, asked, runs, verdict

cvars == <<phase, asked, runs, verdict>>

FailureVerdict == {"failed", "budget_exceeded", "timeout"}
Verdict == {"none", "completed", "escalated"} \cup FailureVerdict

HandedOver == \E c \in Escalating : runs[c] > 0

CInit ==
  /\ phase = "running" /\ asked = 0
  /\ runs = [c \in Calls |-> 0] /\ verdict = "none"

\* The limit is tested after a response: the first one is never refused.
Ask ==
  /\ phase = "running"
  /\ asked = 0 \/ asked < MaxSteps
  /\ ~HandedOver
  /\ asked' = asked + 1
  /\ UNCHANGED <<phase, runs, verdict>>

\* A call may fail the run in the step that executes it.
Perform(c) ==
  /\ phase = "running" /\ asked > 0
  /\ runs[c] = 0
  /\ runs' = [runs EXCEPT ![c] = 1]
  /\ \/ UNCHANGED <<phase, verdict>>
     \/ phase' = "settled" /\ verdict' \in FailureVerdict
  /\ UNCHANGED asked

Settle(v) ==
  /\ phase = "running"
  /\ v = "completed" => asked > 0 /\ ~HandedOver
  /\ v = "escalated" => HandedOver
  /\ phase' = "settled" /\ verdict' = v
  /\ UNCHANGED <<asked, runs>>

Close ==
  /\ phase = "settled"
  /\ phase' = "closed"
  /\ UNCHANGED <<asked, runs, verdict>>

CNext ==
  \/ Ask
  \/ \E c \in Permitted : Perform(c)
  \/ \E v \in Verdict \ {"none"} : Settle(v)
  \/ Close

CSpec == CInit /\ [][CNext]_cvars
=============================================================================
