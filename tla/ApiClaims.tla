------------------------------- MODULE ApiClaims -------------------------------
(* What the repository's documents and comments say of the API and the code   *)
(* does not do.  TLC refutes it; it is used nowhere else.                     *)
EXTENDS MCRunApi

\* models.py:44, runs.py:39,49: budget_override is there to tighten the limits
\* for one run, so no run starts with more than its agent's own (submit_run).
BudgetOnlyTightened ==
  [][\A r \in Request : stage[r] # "running" /\ stage'[r] = "running" =>
       run'[r].budget <= agents[asked[r].agent].default_budget]_vars
================================================================================
