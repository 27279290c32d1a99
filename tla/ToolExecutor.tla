---------------------------- MODULE ToolExecutor -----------------------------
(* ToolExecutor.execute (engine/tools/executor.py): one call of one tool, its *)
(* attempts and their outcomes.  wait_for cancels a tool that runs too long   *)
(* wherever it happens to be, so its side effect may have happened or not.    *)
EXTENDS Tools, Sequences

VARIABLES
  tool,      \* the tool called
  attempt,   \* attempts started; 0 before the input is validated
  retries,   \* retries_used
  attempts,  \* history variable: how each attempt ended
  effects,   \* history variable: how often the tool's side effect happened
  result     \* the outcome returned; "pending" until then

execVars == <<tool, attempt, retries, attempts, effects, result>>

\* How one attempt of a tool function can end.
Ending == {"timeout", "raise", "empty", "malformed", "value"}

def == ToolDef[tool]
Pending == result = "pending"

ExecInit ==
  /\ tool \in Registered
  /\ attempt = 0 /\ retries = 0 /\ attempts = <<>> /\ effects = 0
  /\ result = "pending"

Return(outcome) == result' = outcome

\* Input validation comes before any attempt and is not retried.
RejectInput ==
  /\ Pending /\ attempt = 0
  /\ Return("validation_error")
  /\ UNCHANGED <<tool, attempt, retries, attempts, effects>>

\* Mutant of FirstAttempt: one attempt more than max_retries + 1.
FirstAttemptAlways ==
  /\ Pending /\ attempt = 0 /\ def.max_retries >= -1
  /\ attempt' = 1
  /\ UNCHANGED <<tool, retries, attempts, effects, result>>

\* The head of the loop over range(max_retries + 1).
FirstAttempt ==
  /\ Pending /\ attempt = 0 /\ def.max_retries >= 0
  /\ attempt' = 1
  /\ UNCHANGED <<tool, retries, attempts, effects, result>>

\* Mutant of NoAttempt: retries_used is taken from the definition.
NoAttemptCountsRetries ==
  /\ Pending /\ attempt = 0 /\ def.max_retries < 0
  /\ Return("no_error")
  /\ retries' = def.max_retries
  /\ UNCHANGED <<tool, attempt, attempts, effects>>

\* A negative max_retries: the loop body never runs and there is no error.
NoAttempt ==
  /\ Pending /\ attempt = 0 /\ def.max_retries < 0
  /\ Return("no_error")
  /\ UNCHANGED <<tool, attempt, retries, attempts, effects>>

Running == Pending /\ attempt > 0 /\ Len(attempts) < attempt

\* Mutants of RetryOr: one retry too many, one too few.
RetryOnceMore(outcome) ==
  IF attempt <= def.max_retries + 1
  THEN attempt' = attempt + 1 /\ retries' = retries + 1 /\ UNCHANGED result
  ELSE Return(outcome) /\ UNCHANGED <<attempt, retries>>

RetryOnceLess(outcome) ==
  IF attempt < def.max_retries
  THEN attempt' = attempt + 1 /\ retries' = retries + 1 /\ UNCHANGED result
  ELSE Return(outcome) /\ UNCHANGED <<attempt, retries>>

\* After a failed attempt: the next one, or the result if none is left.
RetryOr(outcome) ==
  IF attempt <= def.max_retries
  THEN attempt' = attempt + 1 /\ retries' = retries + 1 /\ UNCHANGED result
  ELSE Return(outcome) /\ UNCHANGED <<attempt, retries>>

TimesOut ==
  /\ Running
  /\ attempts' = Append(attempts, "timeout")
  /\ effects' \in {effects, effects + 1}
  /\ RetryOr("timeout")
  /\ UNCHANGED tool

\* Mutant of ToolRaises: on_error is not consulted.
ToolRaisesRetries ==
  /\ Running
  /\ attempts' = Append(attempts, "raise")
  /\ effects' \in {effects, effects + 1}
  /\ RetryOr("external_failure")
  /\ UNCHANGED tool

\* on_error = "fail" gives up at the first exception.
ToolRaises ==
  /\ Running
  /\ attempts' = Append(attempts, "raise")
  /\ effects' \in {effects, effects + 1}
  /\ IF def.on_error = "fail"
     THEN Return("external_failure") /\ UNCHANGED <<attempt, retries>>
     ELSE RetryOr("external_failure")
  /\ UNCHANGED tool

\* The tool returned: the result is final, whatever it is.
ToolReturns ==
  /\ Running
  /\ \E e \in {"empty", "malformed", "value"} :
       /\ attempts' = Append(attempts, e)
       /\ Return(CASE e = "empty"     -> "empty_result"
                   [] e = "malformed" -> "validation_error"
                   [] e = "value"     -> "ok")
  /\ effects' = effects + 1
  /\ UNCHANGED <<tool, attempt, retries>>

Work == RejectInput \/ FirstAttempt \/ NoAttempt \/ TimesOut \/ ToolRaises \/ ToolReturns

Finished == ~Pending /\ UNCHANGED execVars

ExecNext == Work \/ Finished

\* wait_for bounds every attempt and the back-off is finite.
ExecSpec == ExecInit /\ [][ExecNext]_execVars /\ WF_execVars(Work)

------------------------------------------------------------------------------
ExecTypeOK ==
  /\ tool \in Registered
  /\ attempt \in Nat /\ retries \in Nat /\ effects \in Nat
  /\ attempts \in Seq(Ending)
  /\ result \in Outcome \cup {"pending"}

\* execute keeps the contract the agent loop relies on (Tools!Outcomes).
ResultInContract == ~Pending => result \in Outcomes(tool)

\* A tool is never started more often than its definition allows, nor does its
\* side effect happen more often than that: a retried write may happen twice,
\* never more than max_retries + 1 times.
AttemptsWithinLimit ==
  /\ Len(attempts) > 0 => Len(attempts) <= def.max_retries + 1
  /\ effects <= Len(attempts)

\* Only transient endings are retried: all attempts but the last timed out, or
\* raised in a tool whose on_error is not "fail".
OnlyTransientRetried ==
  \A i \in 1..(attempt - 1) :
    attempts[i] = "timeout" \/ (attempts[i] = "raise" /\ def.on_error # "fail")

\* A timeout or, without on_error = "fail", an exception is reported only when
\* every allowed attempt was used up, and retries_used counts them.
ReportedAfterLastRetry ==
  /\ retries = IF attempt = 0 THEN 0 ELSE attempt - 1
  /\ result = "timeout" \/ (result = "external_failure" /\ def.on_error # "fail")
       => retries = def.max_retries
=============================================================================
