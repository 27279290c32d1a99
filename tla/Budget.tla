------------------------------- MODULE Budget --------------------------------
(* BudgetTracker (engine/context/budget.py): the limits of one run and the    *)
(* tests on what it has used.  The limits come from RunBudget, which          *)
(* validates nothing, so zero and negative limits are legal.  Cost is counted *)
(* in whole units.  The clock is reduced to the one fact the code reads:      *)
(* whether elapsed_seconds() has reached timeout_seconds.                     *)
EXTENDS Integers

CONSTANTS MaxSteps, MaxTokens, MaxCost

ASSUME BudgetAssumption ==
  MaxSteps \in Int /\ MaxTokens \in Int /\ MaxCost \in Int

\* The words _terminal_status searches a failure reason for.
Limit == {"max_steps", "max_tokens", "max_cost_usd", "timeout"}

\* Mutants of Exceeded: steps or tokens may reach the limit and one more.
ExceededLateSteps(steps, tokens, cost, late) ==
  IF steps > MaxSteps         THEN {"max_steps"}
  ELSE IF tokens >= MaxTokens THEN {"max_tokens"}
  ELSE IF cost >= MaxCost     THEN {"max_cost_usd"}
  ELSE IF late                THEN {"timeout"}
  ELSE {}

ExceededLateTokens(steps, tokens, cost, late) ==
  IF steps >= MaxSteps       THEN {"max_steps"}
  ELSE IF tokens > MaxTokens THEN {"max_tokens"}
  ELSE IF cost >= MaxCost    THEN {"max_cost_usd"}
  ELSE IF late               THEN {"timeout"}
  ELSE {}

\* is_exceeded: the first limit reached, in the order the code tests them.
Exceeded(steps, tokens, cost, late) ==
  IF steps >= MaxSteps        THEN {"max_steps"}
  ELSE IF tokens >= MaxTokens THEN {"max_tokens"}
  ELSE IF cost >= MaxCost     THEN {"max_cost_usd"}
  ELSE IF late                THEN {"timeout"}
  ELSE {}

\* near_token_limit: tokens_used >= max_tokens * 0.8.
NearTokenLimit(tokens) == 5 * tokens >= 4 * MaxTokens
=============================================================================
