# A TLA+ model of the agent execution engine

This directory models the engine that runs one LLM agent: the state machine in
`engine/orchestrator`, the tools it executes, the budget that stops it, the
memory service it reads and writes, the HTTP API that starts runs side by side,
the replay of their traces, and the evaluation that runs and scores the benchmark
cases. TLC checks the model on small instances; the TLA+ proof system (TLAPS)
proves the most important properties for every instance. Every definition is
translated from the source; `PROJECT.json` maps each one to its file and lines.

## 1. The system

A client posts a request; the API looks up the agent's definition and calls
`AgentEngine.run`. `run` drives `StepRunner.execute` from state to state until a
terminal one, then performs three memory writes, stores a trace and returns a
result.

| Component | State it keeps | Operations | Interacts with |
|---|---|---|---|
| Run driver (`engine.py`) | the current state, the position in the post-run steps | `run`, `_terminal_status` | step runner, session/audit/working memory, trace store |
| Agent loop (`step_runner.py`) | `RunContext`: conversation, pending calls, results, answer, failure, escalation flag, seen calls, state history | one handler per state | everything below |
| State table (`state_machine.py`) | none | `validate_transition`, which no code calls | - |
| Termination check, loop guard | none of their own | `check`, `check_state_loop`, duplicate test and registration | budget, history, seen calls |
| Budget (`budget.py`) | steps, tokens, cost, start time | `add_tokens`, `increment_step`, `is_exceeded`, `near_token_limit` | termination check, context builder |
| Context builder, compressor | none | seed, trim the conversation | conversation, budget |
| Tool registry, executor | the registered definitions; attempts of one call | `execute` with validation, retries, timeouts | the tools |
| Memory client and its four users | nothing here; the service holds session, user, working and audit records | append, window, read all, delete | the memory service over HTTP |
| Traces, replay (`observability`, `routes/traces.py`) | the spans of a run, the finished traces | `add_span`, `store_trace`; the replay sorts and adds up | API |
| Agent registry (`agent_registry.py`) | agents by id | `register`, `update`, `delete`, `get` | tool registry, API |
| Dependencies (`dependencies.py`) | one cached tool registry, agent registry and engine | `get_engine`, ... in a thread pool | startup, API |
| Run API, metrics (`routes/runs.py`, `metrics.py`) | results by run id, a gauge and counters per agent | submit, get, replay | agent registry, engine |
| Scorers and suite (`engine/evals`) | none | `evaluate`: six scores, the weighted verdict | evaluation runner |
| Evaluation runner, datasets (`evals`) | the results of the suite, the cases left | `run_suite`, `_run_case`, the report | engine, trace store, suite |
| Demo tools (`demos/*/tools.py`) | the refunds made in this process | one function per tool | executor |
| MCP server (`mcp/server.py`) | none | two proxied HTTP requests | API |

What is hard about it:

* **Several calls in one LLM response**, each allowed, refused, repeated, failing
  or escalating. The conversation sent back must answer every one of them in
  order, and the flags they set decide afterwards how the run goes on.
* **A memory service that fails between any two requests**, in three ways that
  reach different `except` clauses: unreachable (tolerated), 503 (fatal while
  loading, tolerated later), and anything else, including a read timeout after
  which the request may have been applied (named nowhere).
* **Limits tested in one place only**, after a response and its tools, against
  counters that change elsewhere, and a clock that runs all the time.
* **A verdict parsed from text**: the status of a run is found by searching the
  failure reason for words.
* **Retries with side effects**: a timeout cancels a tool wherever it is and
  calls it again.

* **Runs side by side** on one session or one user: each reads a window and the
  facts early and appends late, and any other run may go on at each `await`.
* **Requests side by side.** Agents are updated and deleted while runs hold their
  definition; the first requests find the engine's cache empty together, each in
  a thread, and construct an engine each; a run leaves the API in two ways.
* **State that outlives a run**: the refunds a tool remembers, the field of a run
  that the next state's span is read from, a run that raises after its tools have
  acted and must still count as one case of a suite.

`PROJECT.json` lists each hazard with its line and the properties aimed at it.

What makes each part correct:

* agent loop: every call answered; the input asked once; a call executed at most
  once and only if it is the agent's; an escalation is final; the loop ends;
* budget: no response requested over a limit;
* run driver: verdict, answer and failure agree; the trace tells the run; an
  outage of the memory service does not cost the result;
* memory shared by runs: a turn is stored once and in order, a fact is repeated only
  unseen, a scratchpad is private, a conversation continues;
* replay: every span once, in the order they ended, each duration counted once;
* executor: attempts and side effects bounded, only transient failures retried,
  the reported result is what happened;
* API: a run's tools are in its engine's reach; metrics and results agree with the
  runs; every request ends;
* evaluation: a pass means that the expected thing happened, scores stay between 0
  and 1, every case is reported once, every case can be passed;
* loop guard: fires on loops (it does not, see section 6).

## 2. The modules

```
AgentStates  Budget  LoopGuard  Tools  MemoryClient           pure definitions
        \       \       |       /    |     /      \
                   StepRunner        |            SharedMemory
                       |             |             /        \
   RunContract <-- AgentEngine       |   MCSharedMemory   SharedProofs
        |          /        \        |
        |   EngineProofs  TraceReplay     ToolExecutor
        |        |         /      \          /       \
        |   EngineSafety  /  MCAgentEngine  MCToolExecutor  ExecutorProofs
        |        |   \   /        |
        |        |  EngineMoves  DocClaims
        |        |
        |  EngineConversation
        |
        |   EvalSuite  EvalDataset  DemoTools                 pure definitions
        |        \         |         /
        +-------------- EvalRunner -- MCEvalRunner
                           |
                       EvalProofs

   AgentRegistry -- Dependencies -- RunApi -- MCRunApi -- ApiClaims
                                         \
                                          RunApiProofs
```

| Module | What it is |
|---|---|
| `AgentStates` | the states and the transition table |
| `LoopGuard` | `check_state_loop` on a history |
| `Budget` | the limits and the tests on them |
| `Tools` | tool definitions, outcomes, the guards and consequences of a call |
| `MemoryClient` | the replies of the memory service by what they do to store and caller |
| `StepRunner` | the handlers of the loop, one action each; `TimeRunsOut` for the clock |
| `AgentEngine` | `run`: the loop, the post-run steps, the specification and its properties |
| `RunContract` | the abstract specification of a run: counts, calls, one verdict |
| `TraceReplay` | the replay route as operators over the trace of `AgentEngine` |
| `SharedMemory` | several runs on the sessions and users of one memory service, one action per memory request |
| `ToolExecutor` | `execute`: attempts, retries, the result |
| `AgentRegistry` | the agents, validated against a tool registry |
| `Dependencies` | the cached functions that construct registry and engine |
| `RunApi` | requests in flight, agent routes, startup and restart, metrics |
| `EvalSuite` | the six scorers and `EvalSuite.evaluate`, in thousandths |
| `EvalDataset` | the thirty benchmark cases: what each expects |
| `DemoTools` | the tools of the two demo agents, and the refund rule |
| `EvalRunner` | the evaluation: suites, cases, each case a run by `RunContract`, results, reports |
| `MCAgentEngine`, `MCToolExecutor`, `MCRunApi`, `MCSharedMemory`, `MCEvalRunner` | the instances TLC checks |
| `DocClaims`, `ApiClaims` | what documents and comments say and the code does not do |
| `EngineProofs` | type correctness of a run, one lemma per handler |
| `EngineSafety` | the guards before the executor, escalation, budget, verdict, working memory |
| `EngineMoves` | the transition table, the loop guard, the stored trace and its replay, the descent of a run to its end, `RunContract` |
| `EngineConversation` | every call is answered, the input is asked once |
| `SharedProofs` | runs that share a memory service |
| `ExecutorProofs` | the executor's invariants |
| `RunApiProofs` | the API's invariants |
| `EvalProofs` | refunds, order of cases, tools of a result, scores and verdicts, the dataset |

How state and actions correspond to the code:

* `state`, `messages`, `seen`, `forceEscalate`, `steps`, ... are the fields of
  `RunContext` and `BudgetTracker` of the same or a similar name. `response`
  stands for `last_llm_response` and `pending_tool_calls`, `blocks` for the local
  `tool_results_content`, `results` for `last_tool_results`.
* `iter` is the progress of the current handler: the attempt of the LLM call, the
  call of the response, the result being recorded, the memory call about to be
  made. A handler that awaits several times is several actions, because the
  memory service and the clock may change in between; a handler that does not is
  one. Nothing else shares the run's state, so no other interleaving exists.
* `GotoAt` is the end of `StepRunner.execute`: next state, span, and the history
  entry that the next call of `execute` begins with. `Raise` is its `except`.
* `session`, `facts`, `working` and `audit` are what the memory service holds for
  this run: the roles of the session's messages, how many copies of the fact the
  input states, how many tool records, the statuses written.
* `invoked` is a history variable: how often the executor ran each call. The
  executor's own attempts are in `ToolExecutor`; the agent loop uses its contract
  `Outcomes`, and `ResultInContract` checks that the executor keeps it.

* In `RunApi`, handlers on the event loop that await nothing are one action;
  `submit_run` is two, around `await engine.run`, and the dependency before it is
  two more, because FastAPI runs `get_engine` in a thread: the test of the cache
  (`Receive`) and the construction (`ConstructEngine`). An object is named after
  the request, or the startup code, that constructed it. A run is
  `AgentEngine.run` from outside: it ends with a status or raises, which is what
  `Terminates` establishes of it. `Stop` empties everything the process holds.
* In `SharedMemory`, one action is one memory request of one run, since these are
  the awaits at which runs of the one event loop meet over shared records. What
  the LLM and the tools do between two requests is reduced to how many results a
  round has and whether the run ends with an answer. A turn or a fact carries the
  run that wrote it, a tool record its run; `factsRead` is a history variable.
* `TraceReplay` adds no state: `Replay` is applied to every trace a run of
  `AgentEngine` stores, for several courses of the clock. A course has two readings
  per span, in microseconds: `execute` reads `time.time()` before the handler and
  again after it, and shares no reading with the next span. `Ms` is the `int()` that
  cuts the start and, apart from it, the difference to milliseconds. `Before` makes
  the stability of Python's sort explicit.
* In `EvalRunner`, `stage` is where `run_suite` is, `left` and `results` are its
  loop, and the run in the middle is `RunContract` with what the scorers see of a
  run added: the tools named in each span, the cost, the refunds. `Ask`,
  `Perform`, `Settle` and `Close` are the actions of the contract that
  `AgentEngine` is proved to implement. `processed` is the module-level
  `_PROCESSED_REFUNDS`: no action of a case resets it. `Crash` is the `except` of
  `_run_case`, whose text may be empty.
* `EvalSuite` counts scores in thousandths, rounded as the code rounds to three
  digits (`Share`), weights in tenths, money in cents, time in milliseconds. Words of
  an answer are those of the case's keywords it contains. `EvalDataset` leaves out
  what a case says to the agent.
* `DemoTools` keeps what outlives a call: refunds. The attempts counted for the
  order ORD-789-SLOW are left out, since no case names it and the order is unknown
  to the table the retry would read; the other tools return constants.

Abstractions: a tool call is a tool and an opaque input; a message is its role,
its kind and its tool_use ids; a failure is its cause and the limit words its text
holds, which is all `_terminal_status` reads; cost is counted in whole units; time
is one bit. In the API a budget is one number, ordered by how much it allows. A
text that comes from outside (an exception, a tool's message) may hold any of the
words in `ErrorTexts`. What the compressor drops between the first and the last
six messages depends on their sizes and is a choice of the model.

## 3. The runs

All bounds are in the `.cfg` files and the MC modules. `MaxSteps`, `MaxTokens` and
`MaxCost` are the run's own budget, so they bound the model exactly as they bound
the program; no other counter of a run grows.

| Run | Asks | Instance |
|---|---|---|
| `tools` | Are calls answered, guarded and recorded, are limits respected, is the verdict right, does the loop guard stay silent, does the run keep `RunContract`? | six tools (read, write with output that cannot be encoded, escalate, negative `max_retries`, registered but not allowed, allowed but not registered), every single-call response and three two-call ones (a repeated call, an escalation before a write, a refused call first), three rounds; three sizes of response, so that each limit is the one reached in some behaviour; failure texts that contain the word "timeout" |
| `memory` | Is the conversation well formed, does the trace tell the run and the replay the trace, are steps those of the table, does the run end? | every reply at every request, two rounds, new and existing session, fact known or not; a clock that stands, has 0.9 or 1.5 ms between two readings, or is set back by 6 ms at one of its readings |
| `outage` | Does an outage ever cost the result? Does compression lose the input? | `ok`, unreachable and 503 at every request; a budget of zero, the only one with which the compressor runs, and a session of eight messages |
| `executor` | Does `execute` retry and report as it should? | every `on_error`, every `on_timeout`, `max_retries` from -1 to 2, every sequence of endings |
| `shared` | What do runs that share a session and a user lose, repeat or disturb? | two runs stating one fact, two rounds of at most one result, a window of one message, at every request an answer, an unreachable service, or an applied request whose answer is lost |
| `api` | Do runs side by side keep their tools, do the metrics tell the runs, is every request answered? | two requests, a demo agent and an id to register, three bodies of which one names an unknown tool, two budgets, restarts without limit |
| `evals` | Does a pass mean what it says, are cases reported once, is a refund made once, do the scorers agree with each other and with the dataset? | three catalogs of real cases (an expected escalation before a case of the other suite with an unexpected tool; a case with more forbidden than required words; two cases that want one refund), with and without `--case`, two responses, two refunds of one order of which one is a cent too much, costs and latencies on both sides of each threshold |
| `claim_*` | see section 6 | |

Why the bounds are enough: three rounds let a call be repeated within a response,
in the next round and after a round that used something else, and give the loop
guard three whole cycles, the most it looks for. Two rounds are enough for
memory, which is written at step 1, per result and at the end. The executor's
behaviour depends on `max_retries` only through comparisons with the attempt.

Two runs are the fewest that overlap in every order, and a window of one message
is the smallest that newer turns can push an older one out of; what holds of two
is proved of any number (section 5). A 503 adds nothing to the three replies of
`shared`: it ends a load as a lost answer does and a write as an unreachable
service does.

Two responses instead of the fifteen a case may take are enough for `evals`: the
scorers read sets of tools, and the span of the second response is where tools of
the first could be counted again. A price of 13 cents is above once and, taken
twice, above twice every threshold of these cases; a case's own run stops at three
times it. `DatasetSatisfiable` looks at all thirty cases, whatever the catalog.

Two requests are the fewest that construct two engines and that run and end in
either order under one agent; a third adds no pair. The two statuses `api` uses
stand for the five: nothing in the API looks at one.

Fairness: `WF_vars(RunLoop \/ PostRun)`. Every await in a run is bounded: tools by
`asyncio.wait_for`, memory requests by the HTTP client's 10 seconds, LLM requests
by the client's timeout, back-off by a constant. So a run that can take a step
takes one. Nothing is assumed of the clock, the LLM, the tools or the memory
service: in particular a run must end although time never "runs out". In `RunApi`,
each request is served with weak fairness: the event loop and the thread pool
schedule each on its own, and the await in the middle is a run, which ends. In
`SharedMemory` each run is weakly fair for the same reasons; no run waits for
another. `EvalRunner` is one coroutine, so weak fairness of its next step is that
its awaits, which are those of `run`, are bounded.

## 4. The properties

* `EveryCallAnswered`: at each LLM request, each `tool_use` is answered in order.
* `InputAskedOnce`: the user's input is in the conversation once and in its place,
  however loading ended and whatever compression dropped.
* `EachCallRunsAtMostOnce`, `ToolBoundary`: the guards in front of the executor.
* `EscalationEndsRun`: the flag is set exactly by an escalation tool, survives the
  other calls and results of the response, and ends the run there.
* `WorkingMemoryComplete`: one record per executed call, never more. The run has a
  memory service that answers; that failing writes never leave more is a theorem.
* `NoCallOverBudget`: the limits.
* `VerdictSound`: status, answer and failure agree.
* `TraceTellsTheRun`: the spans form one chain and their steps order it.
* `ReplayRetells`: whatever the clock did, the replay has every span, no step after
  a later one, and each stored duration once. While the clock does not go back it is
  the run, span by span, and the running time it tells never goes down; it is at most
  the time since the run began, and it falls short of the time spent in the handlers
  by less than a millisecond each. It is not the time since the run began (section 6).
* `LoopGuardSilent`: the guard never fires, so removing it changes nothing.
* `StepsFollowTable`: the unenforced table describes every step but failures.
* `Terminates`, `Returns`: liveness.
* `ImplementsContract`: the run implements `RunContract` under the mapping at the
  end of `AgentEngine`.
* `ResultInContract`, `AttemptsWithinLimit`, `OnlyTransientRetried`,
  `ReportedAfterLastRetry`: the executor.
* `TurnsOnceInOrder`: a run stores its question and its answer at most once, in that
  order, however runs of the session interleave and whatever answers get lost.
* `RepeatsOnlyUnseen`: a fact is stored twice only by a run that could not have seen
  it. That it is stored twice at all is what the code does.
* `ContinuesConversation`: a run finds the turns of the runs that were over before
  it loaded, but for what the window has no room for.
* `ScratchpadPrivate`: nobody else writes to or deletes a run's tool records.
* `EveryRunEnds`: liveness of runs side by side.
* `RunsReachTheirTools`: what `register` and `update` validated still holds, in the
  registry of whichever engine a run was given, while it runs.
* `MetricsTellTheRuns`: the gauge counts the runs in flight, the counters the stored
  results, per agent, deleted or not.
* `RequestsAreAnswered`: no request waits for ever.
* `PassMeansRight`: a pass implies the expected status and, for an escalation, that
  the tool ran; a failed case shows why.
* `FourScoresDecide`: the hard-fail rule never decides; with the right status, 2.1
  of the 4.5 points of four scorers do.
* `ToolsAsExecuted`: the tools a result names are the calls executed in its case.
* `RefundedOnce`: an order is refunded once per process and for no more than paid.
* `CasesInOrder`, `EvalsEnd`: no case is lost, repeated or moved by a crash, and the
  evaluation ends.
* `DatasetSatisfiable`: every case of the repository can be passed.

Each has a mutant of the code in `PROJECT.json` that breaks it.

## 5. What is proved

For every registry, agent, budget (zero and negative ones included), LLM, memory
service and session, from the named assumptions on the constants
(`BudgetAssumption`, `ToolAssumption`, `RepliesAssumption`,
`StepRunnerAssumption`, `EngineAssumption`: the types, and that a `tool_use`
response holds a call; for the API `AgentRegistryAssumption`,
`DependenciesAssumption`, `RunApiAssumption`: the types, finitely many requests,
and that `None` is none of the values; for runs side by side, of any number,
`SharedAssumption`: the types, and a window that holds at least one message; for
the evaluation `EvalAssumption`, `CatalogAssumption` and `ArgumentAssumption`: a run
may have one response at least (`_run_case` sets `max_steps` to 15), a case has
finite lists, an id of its own and expects one of the two statuses the datasets use,
prices and latencies are whole and not negative, and the command line names suites
there are):

| Theorem | Invariant | What makes it inductive |
|---|---|---|
| `EngineProofs!TypeCorrect` | `TypeOK` | inductive as it stands; one lemma per handler. The bounds on `iter` in it are what keeps a handler inside its own loop, and every later proof rests on it |
| `EngineSafety!CallsRunAtMostOnce` | `EachCallRunsAtMostOnce` | inductive with `TypeOK`: `InvokeTool` is the only action that changes `invoked` or `seen`, and it changes both |
| `EngineSafety!ToolsStayInBounds` | `ToolBoundary` | the same action, behind the first guard of `_execute_tool` |
| `EngineSafety!EscalationIsFinal` | `EscalationEndsRun` | inductive with `TypeOK`; it ties the flag to `invoked`, and the flag to the only state that may set it |
| `EngineSafety!StepLimitHolds`, `BudgetHolds` | `StepsBounded`, `NoCallOverBudget` | `BudgetInv` adds that before the first LLM call no step is counted: the way from `BUILD_CONTEXT` to `CALL_LLM` passes no test |
| `EngineSafety!VerdictIsSound` | `VerdictSound` | `VerdictInv`: an answer exactly in `RESPOND`, a failure exactly in `FAIL`, and a budget failure quotes at least one limit, so that the words the verdict is read from are there |
| `EngineSafety!ResultsAreRecorded` | `WorkingMemoryComplete` | `WorkingInv` counts the results that wait in `results` between the call and OBSERVE_RESULT: written and waiting together never exceed the calls made, and match them while every request is answered |
| `EngineMoves!TableIsFollowed` | `StepsFollowTable` | an action property; needs `TypeOK` only |
| `EngineMoves!GuardNeverFires` | `LoopGuardSilent` | `HistoryInv`: the history is a walk along the one successor of each state that is not terminal, and ends at the current state. `NoShortCycle`: that walk does not come back within five moves. So the guard is silent however long the run, where TLC sees three rounds |
| `EngineMoves!TraceIsComplete` | `TraceTellsTheRun` | `SpansInv`: the spans are a chain from START to the current state, their steps never go down nor past `steps`, and each step up to `steps` has exactly one response. `StoredInv`: a returned run has stored just these |
| `EngineConversation!CallsAreAnswered` | `EveryCallAnswered` | `ConversationInv` says what holds inside `EXECUTE_TOOL`, where the last message is not answered yet: one block per call passed so far, in order. Before `CALL_LLM` there is no call to answer, and compression cannot add one |
| `EngineConversation!InputIsAskedOnce` | `InputAskedOnce` | `InputInv`: before BUILD_CONTEXT nothing is loaded, or the input comes after what is; from then on the run only adds to the conversation. Compression keeps the last six messages, and it runs while the input is the last |
| `EngineMoves!RunKeepsContract` | `ImplementsContract` | `RefinementInv` joins the invariants above with `AskedFirst` (whatever follows from a response has one): `LLMResponds` is `Ask`, `InvokeTool` is `Perform`, a step into a terminal state is `Settle`, the last memory call is `Close`, all others stutter |
| `EngineMoves!ReplayIsTheRun` | `ReplayRetells`, and the same for any readings of the clock | `StoredInv`: what is stored is a chain of one span after the other, of a run that has returned. Of any list of spans: the places `Sorted` gives them are all different and rise with the time, ties in the order they were stored, so the replay is a rearrangement; durations add up to the same in any order (`WalkTakesAll`), whatever the clock did. While the clock does not go back, cutting keeps the order of the timestamps, so the list was in order already, and the running time stays between its bounds from one span to the next (`ToldBetween`) |
| `EngineMoves!EveryStepDescends` | no run's invariant, but the reason for `Terminates` and `Returns` | `Rank`: the responses the step limit still allows, the place on the way to the next one, the awaits left in the handler. `IterInv`: no handler goes past its last await. Each step lowers the rank, in the lexicographic order of triples of naturals, which is well-founded |
| `ExecutorProofs!ExecTypeCorrect` | `ExecTypeOK` | inductive as it stands |
| `ExecutorProofs!ExecutorKeepsContract`, `AttemptsAreBounded`, `OnlyTransientIsRetried`, `RetriesAreUsedUp` | `ResultInContract`, `AttemptsWithinLimit`, `OnlyTransientRetried`, `ReportedAfterLastRetry` | `ExecInv`: while an attempt runs, all earlier ones have ended and are counted by `retries`; a retryable result came at the last attempt. With the first of them, what `StepRunner` assumes of the executor is a theorem about it |
| `RunApiProofs!ApiTypeCorrect`, `RunsHaveTheirTools` | `TypeOK`, `RunsReachTheirTools` | `RegistryInv`: the startup code fills the tool registry's cache before a request can ask, so every engine, however many are constructed, holds the registry agents are validated against. `RequestsInv`: only requests of a living process are in flight |
| `RunApiProofs!MetricsAreRight` | `MetricsTellTheRuns` | inductive with the above; each step adds or removes one request in one of the sets the metrics count, and a run has no stored result before it ends |
| `SharedProofs!SharedTypes`, `TurnsAreWrittenOnce`, `FactsAreRepeatedUnseen` | `TypeOK`, `TurnsOnceInOrder`, `RepeatsOnlyUnseen` | `SharedInv`: `StageInv` ties a run's stage to its rounds, so that it passes `write_turn` and `write_fact` in round 1 only; `AskedInv` and `StatedInv` say that a run which has stored a turn or a fact cannot come back to where it does; `KnownInv`, that a run knows at least the first `factsRead` facts of its user |
| `SharedProofs!ScratchpadsArePrivate`, `ConversationsContinue` | `ScratchpadPrivate`, `ContinuesConversation` | action properties: the first needs types only, the second what `Window` keeps of a log: its last `LastN` entries |
| `EvalProofs!RefundsOnce` | `RefundedOnce` | `RefundInv`: what was approved is on record as refunded, so that the next case that asks is refused; with it, two approvals of one order are one (`OneEach`) |
| `EvalProofs!CasesKeepOrder` | `CasesInOrder` | `QueueInv`: wherever a case runs there is one, and it is the catalog's. Each result takes the id of the first case left, also the result made up for a crash |
| `EvalProofs!ToolsAreTheExecuted` | `ToolsAsExecuted` | `CallsInv`: the spans of the run, one after the other, name each executed call once; `LastInv` keeps this of the last result when the run is closed |
| `EvalProofs!EvalTypeCorrect`, `PassIsRight`, `ScoresDecide` | `TypeOK`, `PassMeansRight`, `FourScoresDecide` | `ResultsSound`: every result is `Evaluate` of some run of its case, with its tools those of that run, which are tools of the suites (`Sound`). The rest is about `Evaluate` alone: each score is between 0 and 1, a wrong status costs more than the average can lose, all six at their thresholds are enough |
| `EvalProofs!DatasetCanBePassed` | `DatasetSatisfiable` | not an invariant but a fact about the thirty cases: `IdealPasses`, that a case that forbids nothing it asks for gets 1 from every scorer, and `WellPosed` of each case |

Induction over numbers is made from the least-number principle (`LeastNat`, from
`NatLessThanWellFounded`), since a theorem that takes a predicate cannot be used;
this is how the recursions of `FlattenSeq` and of the replay's running time are
unfolded.

Only model-checked are the liveness properties (`Terminates`, `Returns`,
`EveryRunEnds`, `RequestsAreAnswered`, `EvalsEnd`): that enabled steps are taken, and
that some step is enabled, is out of the prover's reach. For a single run
`EveryStepDescends` proves the other half, that only finitely many can be taken.
That a case's id and words are strings (`CatalogAssumption`) is evaluated by TLC for
the datasets of its instance; the provers do not know that a literal is one.

## 6. Where the documents and the code disagree

Each `claim_*` run states what a document, comment or test says; TLC refutes it.

| Run | Said | Done |
|---|---|---|
| `claim_exchanges` | session memory stores exchanges (`session_memory.py:7`) | a run answered without a tool stores the answer without the question |
| `claim_crash` | no failure mode crashes the engine (README:431) | an unnamed error of a post-run memory call leaves `run()` |
| `claim_loop` | the same sequence three times forces FAIL (README:442) | the guard looks for 1 to 5 states, the loop has six |
| `claim_escalation` | an escalation tool immediately ends the run (adding-tools.md:99) | the rest of the response's calls still run |
| `claim_budget` | `budget_override` tightens a budget (runs.py:49, models.py:44) | it replaces it, looser or not |

Seen on the way and not given a run: invalid transitions do not raise
(README:191; the failures `StepsFollowTable` excepts); facts stated in a run that
is answered at once, or whose turn could not be written, are not stored; a fact is stored twice when it could not be
loaded; the last response may overshoot a hard limit; empty tool results are not
retried (adding-tools.md:110); `on_timeout` is read by nothing (adding-tools.md:106);
a 503 fails the run only while it loads memory (README:443); the engine is not a
singleton (dependencies.py:2) when first requests meet, which `RunsReachTheirTools`
shows to be harmless to their tools; a response with stop reason `max_tokens` gets
the status `budget_exceeded`, which is said to mean that a limit was reached
(README:441); user facts are deduplicated against what was loaded, so runs side by
side repeat them.

`cumulative_duration_ms` is said to be "wall time from run start to end of this step"
(traces.py:31, and the docstring of `replay_trace`, traces.py:73). It is the sum of
durations that are each cut to a millisecond (step_runner.py:67), and what passes
between two handlers is in none of them: with the readings of `Readings` that are
0.9 ms apart, a run of nine spans takes 15.3 ms and is told to take 0. It can also go
down, when the clock is set back. What does hold are the bounds `ReplayRetells` states.

In the evaluation:

* an exception whose text is empty, such as a timeout of the HTTP client, is an
  error `if error` does not see (suite.py:51): the made-up result is scored like a
  real one, and the report does not call it a crash (runner.py:127, base.py:65);
* an expected tool "must appear in the run" (base.py:25), and a cheap, fast run of
  the right status passes with no tool called and no keyword found
  (`FourScoresDecide`); the rule that a missed escalation fails a case whatever the
  average says (README:423) never decides, since the average fails it already;
* `cost_efficiency` has weight 1.0, the table says 0.5 (README:420);
* the averages "across all cases" (report.py:34) leave crashed cases out, and there
  are none if the first case crashed;
* the tools are "reproducible" (support_agent/tools.py:4), but five cases want the
  one refund ORD-789 allows: after the first the others find it refunded
  (`RefundedOnce`), and which one gets it depends on what ran before;
* the scenario that "times out once, succeeds on retry" (scenarios.py:69) names an
  order the table does not have: the retry finds nothing;
* a refund of zero or of a negative amount is approved.

## 7. What is not modelled, and the plan

Not modelled:

* text: prompts, log lines, the wording of replay and report, the patterns that find
  a name in an input;
* the token estimate of the compressor, sizes of requests, real time. The compressor
  runs only under a budget of zero tokens, and the model lets it drop any number of
  the messages it may drop;
* the MCP server: a proxy that keeps no state. Each of its tools is one HTTP
  request; when its 120 seconds pass, the run it asked for goes on, and a caller
  that asks again starts a second run of the session, which is what `shared` is
  about;
* histograms, token and HTTP counters: sums that nothing reads. The routes that only
  read, and the tool test route, which runs the executor outside any run;
* the demos' command lines and scenarios, which print what a run returned, and the
  constant tables of the engineering tools;
* a tool that returns something other than a dictionary, against its type;
* the growth of the dictionaries that keep results and traces, and how far an await
  overruns `timeout_seconds`, which only CHECK_TERMINATION looks at.

A run is modelled to the end or to an exception; a restart of the process
(`RunApi!Stop`) recovers nothing, since nothing is persisted here. A request is not
cancelled while the process lives: no middleware and no server in use cancels a
handler when a client goes away.

What could follow: a rank like that of `EveryStepDescends` for `EvalRunner`,
`SharedMemory` and the requests of `RunApi`; a claim run for `timeout_seconds` as
"wall-clock time from start to finish" (registering-agents.md:76), with the length
of an await in the model; a refinement of `SharedMemory` by several instances of
`AgentEngine`.
