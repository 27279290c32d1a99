---------------------------- MODULE ExecutorProofs ----------------------------
(* Theorems about one call of ToolExecutor.execute, for every tool a registry *)
(* may hold: every policy and every max_retries, negative ones included.      *)
EXTENDS ToolExecutor, TLAPS

\* The attempts ended so far: all that were started, but for a running one.
AttemptsInv ==
  /\ attempt = 0 => attempts = <<>> /\ retries = 0
  /\ attempt > 0 => retries = attempt - 1 /\ attempt <= def.max_retries + 1
  /\ Len(attempts) = attempt \/ Len(attempts) = attempt - 1
  /\ Pending /\ attempt > 0 => Len(attempts) = attempt - 1
  /\ effects <= Len(attempts)

\* A result that could have been retried came when no attempt was left.
ResultInv ==
  /\ ResultInContract
  /\ result = "timeout" \/ (result = "external_failure" /\ def.on_error # "fail")
       => attempt = def.max_retries + 1 /\ attempt > 0

ExecInv == ExecTypeOK /\ AttemptsInv /\ ResultInv /\ OnlyTransientRetried

LEMMA DefType ==
  ASSUME ExecTypeOK
  PROVE  def \in ToolDefinition /\ def.max_retries \in Int /\ def.on_error \in OnError
BY ToolAssumption DEF ExecTypeOK, def, ToolDefinition

LEMMA ExecInvInit == ExecInit => ExecInv
<1> SUFFICES ASSUME ExecInit PROVE ExecInv
  OBVIOUS
<1>1. ExecTypeOK
  BY DEF ExecInit, ExecTypeOK
<1>2. attempts = <<>> /\ Len(attempts) = 0
  BY DEF ExecInit
<1> QED
  BY <1>1, <1>2, DefType DEF ExecInit, ExecInv, AttemptsInv, ResultInv, ResultInContract, Pending,
     OnlyTransientRetried

\* Before the first attempt: a result without one, or the first one.
LEMMA BeforeAttempts ==
  ASSUME ExecInv, RejectInput \/ FirstAttempt \/ NoAttempt
  PROVE  ExecInv'
<1>1. ExecTypeOK /\ def.max_retries \in Int /\ def' = def
  BY DefType DEF ExecInv, RejectInput, FirstAttempt, NoAttempt, def
<1>2. attempts' = attempts /\ attempts = <<>> /\ Len(attempts) = 0 /\ retries' = 0 /\ retries = 0
      /\ effects' = 0 /\ attempt = 0
  BY <1>1 DEF ExecInv, AttemptsInv, ExecTypeOK, RejectInput, FirstAttempt, NoAttempt
<1>3. CASE RejectInput
  <2>1. result' = "validation_error" /\ "validation_error" \in Outcomes(tool) /\ attempt' = 0
        /\ tool' = tool
    BY <1>2, <1>3 DEF RejectInput, Return, Outcomes, Outcome
  <2> QED
    BY <1>1, <1>2, <2>1 DEF ExecInv, ExecTypeOK, Outcome, AttemptsInv, ResultInv,
       ResultInContract, Pending, OnlyTransientRetried
<1>4. CASE FirstAttempt
  BY <1>1, <1>2, <1>4 DEF FirstAttempt, ExecInv, ExecTypeOK, AttemptsInv, ResultInv,
     ResultInContract, Pending, OnlyTransientRetried
<1>5. CASE NoAttempt
  <2>1. result' = "no_error" /\ "no_error" \in Outcomes(tool) /\ attempt' = 0 /\ tool' = tool
    BY <1>2, <1>5 DEF NoAttempt, Return, Outcomes, def
  <2> QED
    BY <1>1, <1>2, <2>1 DEF ExecInv, ExecTypeOK, Outcome, AttemptsInv, ResultInv,
       ResultInContract, Pending, OnlyTransientRetried
<1> QED
  BY <1>3, <1>4, <1>5

\* An attempt ends: the history grows by its ending.
LEMMA AttemptEnds ==
  ASSUME ExecInv, Running, NEW e \in Ending, attempts' = Append(attempts, e), tool' = tool,
         effects' \in {effects, effects + 1}
  PROVE  /\ def' = def /\ def.max_retries \in Int
         /\ attempt \in Nat \ {0} /\ retries \in Nat /\ retries = attempt - 1
         /\ attempt <= def.max_retries + 1
         /\ Len(attempts') = attempt /\ attempts' \in Seq(Ending)
         /\ attempts'[attempt] = e /\ \A i \in 1..(attempt - 1) : attempts'[i] = attempts[i]
         /\ effects' \in Nat /\ effects' <= attempt
         /\ tool' \in Registered
<1>1. /\ def \in ToolDefinition /\ def.max_retries \in Int /\ attempts \in Seq(Ending)
      /\ attempt \in Nat \ {0} /\ retries = attempt - 1 /\ attempt <= def.max_retries + 1
      /\ Len(attempts) = attempt - 1 /\ effects \in Nat /\ effects <= attempt - 1
      /\ tool \in Registered /\ retries \in Nat
  BY DefType DEF ExecInv, ExecTypeOK, AttemptsInv, Running
<1> QED
  BY <1>1 DEF def

\* The attempt was retried, or it was the last one.
LEMMA RetryKeeps ==
  ASSUME ExecInv, Running, NEW e \in {"timeout", "raise"}, attempts' = Append(attempts, e),
         tool' = tool, effects' \in {effects, effects + 1},
         NEW o \in {"timeout", "external_failure"}, RetryOr(o),
         e = "raise" => def.on_error # "fail"
  PROVE  ExecInv'
<1> DEFINE n == def.max_retries
<1>1. /\ def' = def /\ n \in Int /\ attempt \in Nat \ {0} /\ retries \in Nat
      /\ retries = attempt - 1 /\ attempt <= n + 1
      /\ Len(attempts') = attempt /\ attempts' \in Seq(Ending)
      /\ attempts'[attempt] = e /\ \A i \in 1..(attempt - 1) : attempts'[i] = attempts[i]
      /\ effects' \in Nat /\ effects' <= attempt /\ tool' \in Registered
  BY AttemptEnds DEF Ending
<1>2. \A i \in 1..attempt :
        attempts'[i] = "timeout" \/ (attempts'[i] = "raise" /\ def'.on_error # "fail")
  <2> SUFFICES ASSUME NEW i \in 1..attempt
               PROVE  attempts'[i] = "timeout" \/ (attempts'[i] = "raise" /\ def.on_error # "fail")
    BY <1>1
  <2>1. CASE i = attempt
    BY <1>1, <2>1
  <2>2. CASE i \in 1..(attempt - 1)
    BY <1>1, <2>2 DEF ExecInv, OnlyTransientRetried
  <2> QED
    BY <1>1, <2>1, <2>2
<1>3. result = "pending"
  BY DEF Running, Pending
<1>4. CASE attempt <= n
  <2>1. attempt' = attempt + 1 /\ retries' = attempt /\ result' = "pending"
    BY <1>1, <1>3, <1>4 DEF RetryOr
  <2>2. AttemptsInv'
    BY <1>1, <1>4, <2>1 DEF AttemptsInv, Pending
  <2>3. OnlyTransientRetried'
    BY <1>1, <1>2, <2>1 DEF OnlyTransientRetried
  <2> QED
    BY <1>1, <2>1, <2>2, <2>3 DEF ExecInv, ExecTypeOK, ResultInv, ResultInContract, Pending
<1>5. CASE ~(attempt <= n)
  <2>1. attempt' = attempt /\ retries' = retries /\ result' = o /\ attempt = n + 1
    BY <1>1, <1>5 DEF RetryOr, Return
  <2>2. AttemptsInv'
    BY <1>1, <2>1 DEF AttemptsInv, Pending
  <2>3. OnlyTransientRetried'
    BY <1>1, <1>2, <2>1 DEF OnlyTransientRetried
  <2>4. o \in Outcomes(tool)'
    BY <1>1, <1>5 DEF Outcomes, Outcome, def
  <2> QED
    BY <1>1, <2>1, <2>2, <2>3, <2>4 DEF ExecInv, ExecTypeOK, Outcome, ResultInv,
       ResultInContract, Pending
<1> QED
  BY <1>4, <1>5

\* The attempt gave a result that is final whatever is left.
LEMMA FinalKeeps ==
  ASSUME ExecInv, Running, NEW e \in Ending, attempts' = Append(attempts, e), tool' = tool,
         effects' \in {effects, effects + 1}, UNCHANGED <<attempt, retries>>,
         NEW o \in Outcome \ {"no_error", "timeout"}, Return(o),
         o = "external_failure" => def.on_error = "fail"
  PROVE  ExecInv'
<1>1. /\ def' = def /\ def.max_retries \in Int /\ attempt \in Nat \ {0} /\ retries \in Nat
      /\ retries = attempt - 1 /\ attempt <= def.max_retries + 1
      /\ Len(attempts') = attempt /\ attempts' \in Seq(Ending)
      /\ \A i \in 1..(attempt - 1) : attempts'[i] = attempts[i]
      /\ effects' \in Nat /\ effects' <= attempt /\ tool' \in Registered
  BY AttemptEnds
<1>2. result' = o /\ o # "pending"
  BY DEF Return, Outcome
<1>3. AttemptsInv'
  BY <1>1, <1>2 DEF AttemptsInv, Pending
<1>4. OnlyTransientRetried'
  BY <1>1 DEF ExecInv, OnlyTransientRetried
<1>5. o \in Outcomes(tool)'
  BY <1>1 DEF Outcomes, def
<1> QED
  BY <1>1, <1>2, <1>3, <1>4, <1>5 DEF ExecInv, ExecTypeOK, Outcome, ResultInv, ResultInContract,
     Pending

LEMMA ExecInvNext == ExecInv /\ [ExecNext]_execVars => ExecInv'
<1> SUFFICES ASSUME ExecInv, [ExecNext]_execVars PROVE ExecInv'
  OBVIOUS
<1>1. CASE RejectInput \/ FirstAttempt \/ NoAttempt
  BY <1>1, BeforeAttempts
<1>2. CASE TimesOut
  BY <1>2, RetryKeeps DEF TimesOut
<1>3. CASE ToolRaises
  <2>1. CASE def.on_error = "fail"
    BY <1>3, <2>1, FinalKeeps DEF ToolRaises, Ending, Outcome
  <2>2. CASE def.on_error # "fail"
    BY <1>3, <2>2, RetryKeeps DEF ToolRaises
  <2> QED
    BY <2>1, <2>2
<1>4. CASE ToolReturns
  <2>1. PICK e \in {"empty", "malformed", "value"} :
          /\ attempts' = Append(attempts, e)
          /\ Return(CASE e = "empty" -> "empty_result" [] e = "malformed" -> "validation_error"
                      [] e = "value" -> "ok")
    BY <1>4 DEF ToolReturns
  <2>2. PICK o \in {"empty_result", "validation_error", "ok"} : Return(o)
    BY <2>1
  <2> QED
    BY <1>4, <2>1, <2>2, FinalKeeps DEF ToolReturns, Ending, Outcome
<1>5. CASE UNCHANGED execVars
  BY <1>5 DEF execVars, ExecInv, ExecTypeOK, AttemptsInv, ResultInv, ResultInContract, Pending,
     def, OnlyTransientRetried
<1> QED
  BY <1>1, <1>2, <1>3, <1>4, <1>5 DEF ExecNext, Work, Finished

LEMMA ExecInvHolds == ExecSpec => []ExecInv
BY ExecInvInit, ExecInvNext, PTL DEF ExecSpec

\* Every variable of a call has its type, also when max_retries is negative.
THEOREM ExecTypeCorrect == ExecSpec => []ExecTypeOK
<1>1. ExecInv => ExecTypeOK
  BY DEF ExecInv
<1> QED
  BY <1>1, ExecInvHolds, PTL

\* execute returns nothing but what the agent loop is prepared for: Outcomes,
\* the one assumption StepRunner makes about it, is a theorem about the code.
THEOREM ExecutorKeepsContract == ExecSpec => []ResultInContract
<1>1. ExecInv => ResultInContract
  BY DEF ExecInv, ResultInv
<1> QED
  BY <1>1, ExecInvHolds, PTL

\* No tool is started more than max_retries + 1 times, and its side effect
\* happens at most as often (the loop over range(max_retries + 1)).
THEOREM AttemptsAreBounded == ExecSpec => []AttemptsWithinLimit
<1>1. ExecInv => AttemptsWithinLimit
  BY DefType DEF ExecInv, ExecTypeOK, AttemptsInv, AttemptsWithinLimit
<1> QED
  BY <1>1, ExecInvHolds, PTL

\* Validation errors, empty results and, under on_error = "fail", exceptions are
\* never followed by another attempt.
THEOREM OnlyTransientIsRetried == ExecSpec => []OnlyTransientRetried
BY ExecInvHolds, PTL DEF ExecInv

\* A failure that could be retried is reported only when no attempt is left,
\* and retries_used tells how many there were.
THEOREM RetriesAreUsedUp == ExecSpec => []ReportedAfterLastRetry
<1>1. ExecInv => ReportedAfterLastRetry
  BY DefType DEF ExecInv, ExecTypeOK, AttemptsInv, ResultInv, ReportedAfterLastRetry
<1> QED
  BY <1>1, ExecInvHolds, PTL
=============================================================================
