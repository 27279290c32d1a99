------------------------------ MODULE DocClaims ------------------------------
(* What the repository's documents, comments and tests say of a run and the   *)
(* code does not do.  TLC refutes each of these; none is used elsewhere.      *)
EXTENDS MCAgentEngine

\* README.md:442: the same state sequence three times makes the loop guard
\* force FAIL (check_state_loop, TerminationChecker.check).
LoopForcesFail ==
  [][/\ state = "CHECK_TERMINATION" /\ state' # state
     /\ \E n \in 1..Len(history) : EndsInThreeCopies(history, n)
     => state' = "FAIL"]_vars

\* docs/adding-tools.md:99: calling an escalation tool immediately ends the run,
\* so no other tool runs after it (_execute_tool).
NothingRunsAfterEscalation == [][forceEscalate => UNCHANGED invoked]_vars

\* README.md:431: no failure mode crashes the engine (AgentEngine.run).
RunNeverRaises == stage # "raised"

\* session_memory.py:7: the session holds user and assistant exchanges, so an
\* answer follows the question it answers (_write_memory, AgentEngine.run).
AnswerFollowsQuestion ==
  \A i \in 1..Len(session) : session[i] = "assistant" => i > 1 /\ session[i - 1] = "user"
=============================================================================
