------------------------------- MODULE EvalRunner ------------------------------
(* evals/runner.py: one process that runs the cases of a suite one after the   *)
(* other, each as a run of the engine with the agent's real tools, and scores  *)
(* and reports them.  The run of a case is RunContract, which AgentEngine is   *)
(* shown to implement, with the tools' effects, the spans' tool names and the  *)
(* cost added; what the LLM says and asks for is arbitrary.                    *)
EXTENDS RunContract, EvalSuite, EvalDataset, DemoTools, SequencesExt

CONSTANTS
  Catalogs,     \* the datasets, [suite -> cases]; the code has one
  Arguments,    \* command lines: [suites: the suites in order, filter: a case id or "none"]
  PricesOf(_),      \* what a response may cost in a case
  LatenciesOf(_)    \* how long a run of a case may take

ASSUME EvalAssumption ==
  /\ MaxSteps \in Nat \ {0}
  /\ Permitted = Calls
  /\ Escalating = {c \in Calls : c.tool = "escalate_to_human"}

Suites == {"support", "engineering"}

\* The cases as the datasets use them: of the four statuses the comment of
\* EvalCase names, they expect two.
EvalCase ==
  [case_id : STRING, expected_status : {"completed", "escalated"},
   expected_tools : SUBSET STRING, unexpected_tools : SUBSET STRING,
   must : SUBSET STRING, must_not : SUBSET STRING,
   max_cost : Nat, max_latency : Nat \ {0}]

Ids(cases) == [i \in DOMAIN cases |-> cases[i].case_id]
AllCases(cat) == cat["support"] \o cat["engineering"]

\* A case has an id of its own and lists of its own.
ASSUME CatalogAssumption ==
  \A cat \in Catalogs :
    /\ cat \in [Suites -> Seq(EvalCase)]
    /\ IsInjective(Ids(AllCases(cat)))
    /\ \A c \in ToSet(AllCases(cat)) :
         /\ IsFiniteSet(c.expected_tools) /\ IsFiniteSet(c.unexpected_tools)
         /\ IsFiniteSet(c.must) /\ IsFiniteSet(c.must_not)
         /\ PricesOf(c) \subseteq Nat /\ LatenciesOf(c) \subseteq Nat

ASSUME ArgumentAssumption == \A a \in Arguments : a.suites \in Seq(Suites)

VARIABLES
  stage,        \* where the runner is
  catalog,      \* the dataset
  todo,         \* the suites main still has to run
  filter,       \* --case
  left,         \* cases of the current suite without a result; the first is current
  results,      \* results of the current suite
  reports,      \* what was printed, one report per suite
  spans,        \* tools_called of each EXECUTE_TOOL span of the current run
  cost,         \* of the current run
  processed,    \* _PROCESSED_REFUNDS
  approvals     \* history variable: the refund calls that were approved

runVars == <<cvars, spans, cost>>
toolVars == <<processed, approvals>>
suiteVars == <<catalog, todo, filter, left, results, reports>>
vars == <<stage, runVars, toolVars, suiteVars>>

Stages == {"suite", "case", "run", "report", "exited"}

\* _SUITE_CONFIG: the tools registered and allowed.
ToolNames(suite) == IF suite = "support" THEN DOMAIN SUPPORT_TOOLS ELSE DOMAIN ENGINEERING_TOOLS

Suite == Head(todo)
Current == Head(left)

Init ==
  /\ CInit
  /\ catalog \in Catalogs
  /\ \E a \in Arguments : todo = a.suites /\ filter = a.filter
  /\ stage = "suite" /\ left = <<>> /\ results = <<>> /\ reports = <<>>
  /\ spans = <<>> /\ cost = 0
  /\ processed = {} /\ approvals = {}

\* The cases --case leaves; an id is no other case's.
Chosen(cases, only) ==
  IF only = "none" THEN cases ELSE SetToSeq({c \in ToSet(cases) : c.case_id = only})

\* run_suite up to its loop.  Without a case to run, or with a filter that
\* names none, the suite has no results and no report.
StartSuite ==
  /\ stage = "suite" /\ todo # <<>>
  /\ LET chosen == Chosen(catalog[Suite], filter)
     IN IF chosen = <<>>
        THEN todo' = Tail(todo) /\ UNCHANGED <<stage, left, results>>
        ELSE /\ left' = chosen /\ results' = <<>> /\ stage' = "case"
             /\ UNCHANGED todo
  /\ UNCHANGED <<runVars, toolVars, catalog, filter, reports>>

\* main returns.
Exit ==
  /\ stage = "suite" /\ todo = <<>>
  /\ stage' = "exited"
  /\ UNCHANGED <<runVars, toolVars, suiteVars>>

\* _run_case up to engine.run: a new run, of the same engine.
StartCase ==
  /\ stage = "case"
  /\ stage' = "run"
  /\ phase' = "running" /\ asked' = 0
  /\ runs' = [c \in Calls |-> 0] /\ verdict' = "none"
  /\ spans' = <<>> /\ cost' = 0
  /\ UNCHANGED <<toolVars, suiteVars>>

------------------------------------------------------------------------------
(* The run of the current case.                                               *)

\* A response of the LLM.  The budget is three times the case's cost threshold.
Respond ==
  /\ stage = "run"
  /\ asked > 0 => cost < 3 * Current.max_cost
  /\ Ask
  /\ \E p \in PricesOf(Current) : cost' = cost + p
  /\ spans' = Append(spans, <<>>)
  /\ UNCHANGED <<stage, toolVars, suiteVars>>

\* Mutant of Execute: the results of the response before are still there.
ExecuteKeepsResults(c) ==
  /\ stage = "run" /\ c.tool \in ToolNames(Suite)
  /\ Perform(c)
  /\ spans' = [spans EXCEPT ![asked] =
       (IF @ = <<>> /\ asked > 1 THEN spans[asked - 1] ELSE @) \o <<c.tool>>]
  /\ IF c.tool = "refund_request" /\ RefundApproved(c.order, c.amount, processed)
     THEN /\ processed' = processed \cup {c.order}
          /\ approvals' = approvals \cup {[by |-> Current.case_id, call |-> c]}
     ELSE UNCHANGED toolVars
  /\ UNCHANGED <<stage, cost, suiteVars>>

\* The executor runs one call of the response, and the tool does what it does;
\* the tools of the demo await nothing between reading and writing their data.
Execute(c) ==
  /\ stage = "run" /\ c.tool \in ToolNames(Suite)
  /\ Perform(c)
  /\ spans' = [spans EXCEPT ![asked] = Append(@, c.tool)]
  /\ IF c.tool = "refund_request" /\ RefundApproved(c.order, c.amount, processed)
     THEN /\ processed' = processed \cup {c.order}
          /\ approvals' = approvals \cup {[by |-> Current.case_id, call |-> c]}
     ELSE UNCHANGED toolVars
  /\ UNCHANGED <<stage, cost, suiteVars>>

\* A terminal state; the post-run memory calls are ahead.
Finish ==
  /\ stage = "run"
  /\ \E v \in Verdict \ {"none"} : Settle(v)
  /\ UNCHANGED <<stage, spans, cost, toolVars, suiteVars>>

------------------------------------------------------------------------------
(* The result of the current case.                                            *)

\* _extract_tools_called
ToolsCalled(trace) == FlattenSeq(trace)

\* results.append, and the next round of the loop.
Record(result) ==
  /\ results' = Append(results, result)
  /\ left' = Tail(left)
  /\ stage' = IF left' = <<>> THEN "report" ELSE "case"
  /\ UNCHANGED <<toolVars, catalog, todo, filter, reports>>

\* engine.run returns; only a completed run has an answer, which may be empty.
Return ==
  /\ stage = "run" /\ Close
  /\ \E answered \in BOOLEAN, words \in SUBSET (Current.must \cup Current.must_not),
        latency \in LatenciesOf(Current) :
       /\ answered => verdict = "completed"
       /\ ~answered => words = {}
       /\ Record(Evaluate(Current,
            [status |-> verdict, answered |-> answered, words |-> words,
             cost |-> cost, latency |-> latency], ToolsCalled(spans), "none"))
  /\ UNCHANGED <<spans, cost>>

\* The result _run_case makes up for a run that raised.
Dummy == [status |-> "failed", answered |-> FALSE, words |-> {}, cost |-> 0, latency |-> 0]

\* Mutant of Crash: a crashed case has no result.
CrashSkips ==
  /\ stage = "run" /\ phase = "settled"
  /\ left' = Tail(left)
  /\ stage' = IF left' = <<>> THEN "report" ELSE "case"
  /\ UNCHANGED <<runVars, toolVars, catalog, todo, filter, results, reports>>

\* Mutant of Crash: the case is run again, and again.
CrashRetries ==
  /\ stage = "run" /\ phase = "settled"
  /\ stage' = "case"
  /\ UNCHANGED <<runVars, toolVars, suiteVars>>

\* A post-run memory call raises what no clause names, and so does engine.run;
\* str() of the exception may be empty, as it is for a timeout of the HTTP client.
Crash ==
  /\ stage = "run" /\ phase = "settled"
  /\ \E text \in {"", "error"} : Record(Evaluate(Current, Dummy, <<>>, text))
  /\ UNCHANGED runVars

------------------------------------------------------------------------------
\* What print_report and save_report tell of the results: how many passed,
\* which are listed as crashed, and how many the averages of the scorers are
\* over (0: no averages, because the first result has no scores).
ReportOf(suite, rs) ==
  LET Where(P(_)) == {i \in DOMAIN rs : P(rs[i])}
      scored == Where(LAMBDA r : DOMAIN r.scores # {})
  IN [suite    |-> suite,
      total    |-> Len(rs),
      passed   |-> Cardinality(Where(LAMBDA r : r.passed)),
      crashed  |-> Where(LAMBDA r : ~r.passed /\ r.error # "none"),
      averaged |-> IF 1 \in scored THEN Cardinality(scored) ELSE 0]

Report ==
  /\ stage = "report"
  /\ reports' = Append(reports, ReportOf(Suite, results))
  /\ todo' = Tail(todo) /\ stage' = "suite"
  /\ UNCHANGED <<runVars, toolVars, catalog, filter, left, results>>

Next ==
  \/ StartSuite \/ Exit \/ StartCase
  \/ Respond \/ (\E c \in Calls : Execute(c)) \/ Finish
  \/ Return \/ Crash \/ Report
  \/ stage = "exited" /\ UNCHANGED vars

\* One coroutine whose awaits are those of engine.run, all bounded.
Spec == Init /\ [][Next]_vars /\ WF_vars(Next)

------------------------------------------------------------------------------
(* Properties.                                                                *)

CaseOf(result) ==
  LET cases == AllCases(catalog)
  IN cases[CHOOSE i \in DOMAIN cases : cases[i].case_id = result.case_id]
ResultSet == {results[i] : i \in DOMAIN results}

Score == 0..1000
\* Every variable has the values the code can give it; in particular every score
\* stays between 0 and 1, whatever penalties add up (Scorer._detail), and a result
\* lists tools of the suites only, in order (_extract_tools_called).
TypeOK ==
  /\ stage \in Stages /\ phase \in {"running", "settled", "closed"}
  /\ asked \in 0..MaxSteps /\ runs \in [Calls -> 0..1] /\ verdict \in Verdict
  /\ Len(spans) = asked /\ cost \in Nat
  /\ \A r \in ResultSet :
       /\ r.overall \in Score
       /\ \A s \in DOMAIN r.scores : s \in Scorers /\ r.scores[s] \in Score
       /\ r.tools \in Seq(UNION {ToolNames(suite) : suite \in Suites})
  /\ processed \subseteq DOMAIN TotalAmount

\* A case passes only if its run returned with the expected status, and an
\* expected escalation only if the escalation tool really ran; and a case that
\* fails without an error shows a scorer that did not pass (EvalSuite.evaluate,
\* print_report).
PassMeansRight ==
  \A r \in ResultSet :
    /\ r.passed => /\ r.error = "none" /\ r.status = CaseOf(r).expected_status
                   /\ r.status = "escalated" => "escalate_to_human" \in ToSet(r.tools)
    /\ ~r.passed => \/ r.error # "none"
                    \/ \E s \in Scorers : r.scores[s] < ScorerThreshold

\* When a suite starts, every case the repository has for it can be passed: its
\* id is no other's, the tools it expects are tools its agent has, none of them
\* is unexpected, and a run that does what the case says scores 1
\* (evals/dataset against _SUITE_CONFIG and the scorers).
DatasetSatisfiable ==
  stage = "suite" /\ todo # <<>> =>
    LET cases == IF Suite = "support" THEN SUPPORT_CASES ELSE ENGINEERING_CASES
        ideal(c) == [status |-> c.expected_status, answered |-> c.expected_status = "completed",
                     words |-> c.must, cost |-> c.max_cost, latency |-> c.max_latency]
        best(c) == Evaluate(c, ideal(c), SetToSeq(c.expected_tools), "none")
    IN /\ \A c \in ToSet(cases) :
            /\ c.expected_tools \cup c.unexpected_tools \subseteq ToolNames(Suite)
            /\ best(c).passed /\ best(c).overall = 1000
       /\ IsInjective(Ids(cases))

Enough(scores) == Weighted(scores) >= PassThreshold * TotalWeight

FourScores(scores) ==
  /\ scores.task_completion = 1000
  /\ 15 * scores.tool_selection + 15 * scores.answer_quality
       + 10 * scores.cost_efficiency + 5 * scores.latency >= 21000

\* What a verdict depends on.  The hard-fail rule never decides: a wrong status
\* costs more than the average can lose.  With the right status, 2.1 of the 4.5
\* points of tools, answer, cost and latency are enough, so that a cheap run
\* passes with a useless answer and no tool called (the weights, the scorers and
\* EvalSuite.evaluate).  It is so because no case expects a failure.
FourScoresDecide ==
  \A r \in ResultSet : r.error = "none" =>
    (r.passed <=> Enough(r.scores)) /\ (r.passed <=> FourScores(r.scores))

\* The tools a result names are the calls the executor ran in that case and no
\* other, although they come from the trace, which the next state reads off a
\* field of the run (execute's span, get_trace, _extract_tools_called).
ToolsAsExecuted ==
  stage \in {"case", "report"} /\ results # <<>> /\ phase = "closed" =>
    \A t \in DOMAIN SUPPORT_TOOLS \cup DOMAIN ENGINEERING_TOOLS :
      LET tools == results[Len(results)].tools
      IN Cardinality({i \in DOMAIN tools : tools[i] = t})
           = Cardinality({c \in Calls : c.tool = t /\ runs[c] > 0})

\* Whatever cases run, in whatever order, an order is refunded once in the life
\* of the process and for no more than was paid (_refund_request); the other
\* cases that expect the refund find it refused.
RefundedOnce ==
  \A a, b \in approvals :
    /\ a.call.amount <= TotalAmount[a.call.order]
    /\ a.call.order = b.call.order => a = b

\* No case is lost, repeated or moved by a run that crashes or fails: results
\* and cases still to run are the chosen cases in order, and a report is over
\* all of them (run_suite).
CasesInOrder ==
  LET chosen(s) == Chosen(catalog[s], filter)
  IN /\ stage \in {"case", "run", "report"} => Ids(results) \o Ids(left) = Ids(chosen(Suite))
     /\ \A i \in DOMAIN reports :
          /\ reports[i].total = Len(chosen(reports[i].suite))
          /\ reports[i].passed + Cardinality(reports[i].crashed) <= reports[i].total

\* The evaluation comes to its end, whatever the runs do (run_suite, main).
EvalsEnd == <>(stage = "exited")
=============================================================================
