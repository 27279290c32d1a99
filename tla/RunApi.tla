--------------------------------- MODULE RunApi ---------------------------------
(* The HTTP API: engine/api/routes/runs.py and agents.py over the agent        *)
(* registry and the cached dependencies, while several requests are in flight. *)
(* A run is AgentEngine.run seen from outside: it ends with a status or raises.*)
EXTENDS Dependencies, FiniteSets

CONSTANTS
  Request,      \* the POST /runs requests that are ever made
  Statuses,     \* the statuses engine.run returns
  Body,         \* the definitions clients send to POST and PUT /agents
  DemoTools, DemoAgents   \* what _register_demos registers

Startup == "startup"

ASSUME RunApiAssumption ==
  /\ Owner = Request \cup {Startup}
  /\ Startup \notin Request
  /\ IsFiniteSet(Request)
  /\ Body \subseteq Definition
  /\ DemoTools \subseteq Tool
  /\ DOMAIN DemoAgents \subseteq AgentId
  /\ \A a \in DOMAIN DemoAgents : DemoAgents[a] \in Definition
  /\ None \notin Limit
  /\ None \notin Statuses

VARIABLES
  up,           \* the process serves requests
  stage,        \* where each request is
  asked,        \* the agent and the budget_override a request names
  engine,       \* the engine a request was given
  run,          \* the AgentRun submit_run built
  active,       \* ACTIVE_RUNS
  totals,       \* RUNS_TOTAL
  stored        \* _run_results: the requests whose result is stored, and the status

requestVars == <<stage, asked, engine, run>>
metricVars == <<active, totals, stored>>
vars == <<agentVars, dependencyVars, up, requestVars, metricVars>>

\* Where a request can be: not made yet, inside _build_engine, with its
\* dependencies resolved, running, answered (200, 404, 500), or cut off.
InFlight == {"building", "resolved", "running"}
Stages == InFlight \cup {"unmade", "ok", "not_found", "error", "cut"}

\* What RunRequest and AgentRun carry of interest here.
RunRequest == [agent : AgentId, budget_override : Limit \cup {None}]
AgentRuns == [tools : SUBSET Tool, budget : Limit]

TypeOK ==
  /\ RegistryTypeOK
  /\ DependenciesTypeOK
  /\ up \in BOOLEAN
  /\ stage \in [Request -> Stages]
  /\ asked \in [Request -> RunRequest \cup {None}]
  /\ engine \in [Request -> Owner \cup {None}]
  /\ run \in [Request -> AgentRuns \cup {None}]
  /\ active \in [AgentId -> Int]
  /\ totals \in [AgentId -> [Statuses -> Nat]]
  /\ stored \in [Request -> Statuses \cup {None}]

------------------------------------------------------------------------------
(* The process.                                                               *)

\* What a new process knows of agents, runs and results.
NoAgents == [a \in AgentId |-> None]
NoActive == [a \in AgentId |-> 0]
NoTotals == [a \in AgentId |-> [s \in Statuses |-> 0]]
NoResults == [r \in Request |-> None]

Init ==
  /\ toolNames = [o \in Owner |-> {}]
  /\ validator = Startup
  /\ agents = NoAgents
  /\ toolRegistryCache = None
  /\ engineCache = None
  /\ engineTools = [o \in Owner |-> o]
  /\ up = FALSE
  /\ stage = [r \in Request |-> "unmade"]
  /\ asked = [r \in Request |-> None]
  /\ engine = [r \in Request |-> None]
  /\ run = [r \in Request |-> None]
  /\ active = NoActive
  /\ totals = NoTotals
  /\ stored = NoResults

\* lifespan, before the first request is served.
Start ==
  /\ ~up
  /\ up' = TRUE
  /\ RegisterDemos(Filled(toolRegistryCache, Startup), DemoTools, DemoAgents)
  /\ BuildRegistries(Startup)
  /\ UNCHANGED <<requestVars, metricVars>>

\* The process ends, orderly or not.  Everything it knows is in its memory, and
\* the requests in flight get no answer.
Stop ==
  /\ up
  /\ up' = FALSE
  /\ toolNames' = [o \in Owner |-> {}]
  /\ validator' = Startup
  /\ agents' = NoAgents
  /\ DropDependencies
  /\ stage' = [r \in Request |-> IF stage[r] \in InFlight THEN "cut" ELSE stage[r]]
  /\ active' = NoActive
  /\ totals' = NoTotals
  /\ stored' = NoResults
  /\ UNCHANGED <<asked, engine, run>>

------------------------------------------------------------------------------
(* Agent routes: each handler runs on the event loop and awaits nothing.      *)

EditAgents(Edit) == up /\ Edit /\ UNCHANGED <<dependencyVars, up, requestVars, metricVars>>

RegisterAgent == \E a \in AgentId, d \in Body : EditAgents(Register(a, d))
UpdateAgent == \E a \in AgentId, d \in Body : EditAgents(Update(a, d))
DeleteAgent == \E a \in AgentId : EditAgents(Delete(a))

------------------------------------------------------------------------------
(* POST /runs.                                                                *)

Move(r, to) == stage' = [stage EXCEPT ![r] = to]

\* The request arrives, and get_engine tests its cache in a thread of the pool.
Receive(r) ==
  /\ up
  /\ stage[r] = "unmade"
  /\ \E a \in AgentId, o \in Limit \cup {None} :
       asked' = [asked EXCEPT ![r] = [agent |-> a, budget_override |-> o]]
  /\ engine' = [engine EXCEPT ![r] = engineCache]
  /\ Move(r, IF engineCache = None THEN "building" ELSE "resolved")
  /\ UNCHANGED <<agentVars, dependencyVars, up, run, metricVars>>

\* Mutant of ConstructEngine: a thread that missed waits for its turn.
ConstructEngineOnce(r) ==
  /\ stage[r] = "building"
  /\ engineCache = None
  /\ BuildEngine(r)
  /\ engine' = [engine EXCEPT ![r] = r]
  /\ Move(r, "resolved")
  /\ UNCHANGED <<agentVars, up, asked, run, metricVars>>

\* The cache was empty: this thread constructs an engine, whoever else does.
ConstructEngine(r) ==
  /\ stage[r] = "building"
  /\ BuildEngine(r)
  /\ engine' = [engine EXCEPT ![r] = r]
  /\ Move(r, "resolved")
  /\ UNCHANGED <<agentVars, up, asked, run, metricVars>>

\* Mutant of AgentRun: the override is passed on when there is none.
AgentRunOverride(definition, request) ==
  [tools |-> definition.tools, budget |-> request.budget_override]

\* What submit_run makes of a definition and a request.
AgentRun(definition, request) ==
  [tools  |-> definition.tools,
   budget |-> IF request.budget_override = None
                THEN definition.default_budget ELSE request.budget_override]

\* submit_run up to `await engine.run'.
SubmitRun(r) ==
  /\ stage[r] = "resolved"
  /\ LET a == asked[r].agent
     IN IF Known(a)
          THEN /\ run' = [run EXCEPT ![r] = AgentRun(agents[a], asked[r])]
               /\ active' = [active EXCEPT ![a] = @ + 1]
               /\ Move(r, "running")
          ELSE /\ Move(r, "not_found")
               /\ UNCHANGED <<run, active>>
  /\ UNCHANGED <<agentVars, dependencyVars, up, asked, engine, totals, stored>>

\* engine.run returned: the gauge, the counter, the result, the answer.
FinishRun(r) ==
  /\ stage[r] = "running"
  /\ active' = [active EXCEPT ![asked[r].agent] = @ - 1]
  /\ \E s \in Statuses :
       /\ totals' = [totals EXCEPT ![asked[r].agent][s] = @ + 1]
       /\ stored' = [stored EXCEPT ![r] = s]
  /\ Move(r, "ok")
  /\ UNCHANGED <<agentVars, dependencyVars, up, asked, engine, run>>

\* Mutant of FailRun: only runs with a result leave the gauge.
FailRunStaysActive(r) ==
  /\ stage[r] = "running"
  /\ Move(r, "error")
  /\ UNCHANGED <<agentVars, dependencyVars, up, asked, engine, run, metricVars>>

\* engine.run raised: the gauge, and 500.
FailRun(r) ==
  /\ stage[r] = "running"
  /\ active' = [active EXCEPT ![asked[r].agent] = @ - 1]
  /\ Move(r, "error")
  /\ UNCHANGED <<agentVars, dependencyVars, up, asked, engine, run, totals, stored>>

Serve(r) == ConstructEngine(r) \/ SubmitRun(r) \/ FinishRun(r) \/ FailRun(r)

Next ==
  \/ Start \/ Stop
  \/ RegisterAgent \/ UpdateAgent \/ DeleteAgent
  \/ \E r \in Request : Receive(r) \/ Serve(r)

\* A handler that can go on does: the loop schedules it, and engine.run ends
\* (AgentEngine!Terminates).
Spec == Init /\ [][Next]_vars /\ \A r \in Request : WF_vars(Serve(r))

------------------------------------------------------------------------------
(* Properties.                                                                *)

\* The engine a run was given has every tool the run's agent was registered
\* with, whichever engine that is and whatever became of the agent since: what
\* register and update validated holds for StepRunner's registry.
RunsReachTheirTools ==
  \A r \in Request : stage[r] = "running" =>
    run[r].tools \subseteq toolNames[engineTools[engine[r]]]

\* The gauge of an agent counts its runs in flight, and its counters the results
\* GET /runs can find, however runs end and also when the agent was deleted
\* while they ran (submit_run).
MetricsTellTheRuns ==
  \A a \in AgentId :
    /\ active[a] = Cardinality({r \in Request : stage[r] = "running" /\ asked[r].agent = a})
    /\ \A s \in Statuses :
         totals[a][s] = Cardinality({r \in Request : stored[r] = s /\ asked[r].agent = a})

\* Every request is answered or cut off by the end of the process (submit_run).
RequestsAreAnswered ==
  \A r \in Request : stage[r] \in InFlight ~> stage[r] \notin InFlight
=============================================================================
