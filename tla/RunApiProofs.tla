------------------------------ MODULE RunApiProofs ------------------------------
(* Theorems about the API, for any number of requests, agents and tools, and  *)
(* any number of engines that first requests construct next to each other.    *)
EXTENDS RunApi, FiniteSetTheorems, TLAPS

\* Requests in flight have all they need, and only answered ones a result.
RequestsInv ==
  /\ \A r \in Request : stage[r] \in InFlight => up
  /\ \A r \in Request : stage[r] # "unmade" => asked[r] \in RunRequest
  /\ \A r \in Request : stage[r] \in {"resolved", "running"} =>
       engine[r] \in Owner /\ engineTools[engine[r]] = Startup
  /\ \A r \in Request : stage[r] = "running" => run[r].tools \subseteq toolNames[Startup]
  /\ \A r \in Request : stored[r] # None => stage[r] = "ok"

\* One tool registry is in use, the one the startup code filled: the cache holds
\* it before a request can ask, so no thread constructs another.
RegistryInv ==
  /\ validator = Startup
  /\ toolRegistryCache = IF up THEN Startup ELSE None
  /\ ~up => engineCache = None
  /\ engineCache # None => engineTools[engineCache] = Startup
  /\ \A a \in AgentId : Known(a) => agents[a].tools \subseteq toolNames[Startup]

ReachInv == TypeOK /\ RequestsInv /\ RegistryInv

Owners == Startup \in Owner /\ Request \subseteq Owner /\ None \notin Owner
          /\ None \notin Definition /\ DemoTools \subseteq Tool

LEMMA OwnersHold == Owners
BY RunApiAssumption, DependenciesAssumption, AgentRegistryAssumption DEF Owners

LEMMA NewProcessTypes ==
  /\ NoAgents \in [AgentId -> Definition \cup {None}]
  /\ NoActive \in [AgentId -> Int]
  /\ NoTotals \in [AgentId -> [Statuses -> Nat]]
  /\ NoResults \in [Request -> Statuses \cup {None}]
<1>1. NoTotals \in [AgentId -> [Statuses -> Nat]]
  <2>1. [s \in Statuses |-> 0] \in [Statuses -> Nat]
    OBVIOUS
  <2> QED
    BY <2>1 DEF NoTotals
<1> QED
  BY <1>1 DEF NoAgents, NoActive, NoResults

LEMMA ReachInit == Init => ReachInv
<1> SUFFICES ASSUME Init PROVE ReachInv
  OBVIOUS
<1>1. TypeOK
  BY OwnersHold, NewProcessTypes DEF Init, TypeOK, Owners, RegistryTypeOK, DependenciesTypeOK,
     Stages
<1>2. RequestsInv /\ RegistryInv
  BY OwnersHold DEF Init, Owners, RequestsInv, RegistryInv, InFlight, Known, NoAgents, NoResults
<1> QED
  BY <1>1, <1>2 DEF ReachInv

\* The startup code fills the one registry and registers agents against it.
LEMMA ReachStart ==
  ASSUME ReachInv, Start
  PROVE  ReachInv'
<1>1. TypeOK /\ RequestsInv /\ RegistryInv /\ ~up /\ up' /\ toolRegistryCache = None
  BY DEF ReachInv, Start, RegistryInv
<1>2. /\ UNCHANGED <<requestVars, metricVars, engineCache, engineTools>>
      /\ toolRegistryCache' = Startup /\ validator' = Startup
      /\ RegisterDemos(Startup, DemoTools, DemoAgents)
  <2>1. Filled(toolRegistryCache, Startup) = Startup
    BY <1>1 DEF Filled
  <2> QED
    BY <2>1 DEF Start, BuildRegistries, RegisterDemos
<1>3. /\ toolNames' \in [Owner -> SUBSET Tool]
      /\ toolNames'[Startup] = toolNames[Startup] \cup DemoTools
  BY <1>1, <1>2, OwnersHold DEF RegisterDemos, TypeOK, RegistryTypeOK, Owners
<1>4. /\ agents' \in [AgentId -> Definition \cup {None}]
      /\ \A a \in AgentId : Known(a)' => agents'[a].tools \subseteq toolNames'[Startup]
  <2> SUFFICES ASSUME NEW a \in AgentId
               PROVE  /\ agents'[a] \in Definition \cup {None}
                      /\ agents'[a] # None => agents'[a].tools \subseteq toolNames'[Startup]
    BY <1>2 DEF RegisterDemos, Known
  <2> QED
    BY <1>1, <1>2, <1>3, RunApiAssumption
    DEF RegisterDemos, Known, RegistryInv, TypeOK, RegistryTypeOK
<1>5. TypeOK'
  BY <1>1, <1>2, <1>3, <1>4, OwnersHold
  DEF TypeOK, RegistryTypeOK, DependenciesTypeOK, Owners, requestVars, metricVars
<1>6. RequestsInv'
  BY <1>1, <1>2, <1>3 DEF RequestsInv, requestVars, metricVars, InFlight
<1>7. RegistryInv'
  BY <1>1, <1>2, <1>4 DEF RegistryInv
<1> QED
  BY <1>5, <1>6, <1>7 DEF ReachInv

LEMMA ReachStop ==
  ASSUME ReachInv, Stop
  PROVE  ReachInv'
<1>1. TypeOK'
  BY OwnersHold, NewProcessTypes DEF ReachInv, Stop, DropDependencies, TypeOK, Owners,
     RegistryTypeOK, DependenciesTypeOK, Stages
<1>2. RequestsInv' /\ RegistryInv'
  BY OwnersHold DEF ReachInv, Stop, DropDependencies, Owners, RequestsInv, RegistryInv, TypeOK,
     InFlight, Known, NoAgents, NoResults
<1> QED
  BY <1>1, <1>2 DEF ReachInv

\* register and update validate against the registry the runs use.
LEMMA ReachEdit ==
  ASSUME ReachInv, RegisterAgent \/ UpdateAgent \/ DeleteAgent
  PROVE  ReachInv'
<1>1. /\ UNCHANGED <<dependencyVars, up, requestVars, metricVars, toolNames, validator>>
      /\ \E a \in AgentId, d \in Definition \cup {None} :
           /\ agents' = [agents EXCEPT ![a] = d]
           /\ d # None => d.tools \subseteq toolNames[validator]
  BY RunApiAssumption
  DEF RegisterAgent, UpdateAgent, DeleteAgent, EditAgents, Register, Update, Delete, ToolsKnown
<1>2. PICK a \in AgentId, d \in Definition \cup {None} :
        /\ agents' = [agents EXCEPT ![a] = d]
        /\ d # None => d.tools \subseteq toolNames[validator]
  BY <1>1
<1>3. TypeOK'
  BY <1>1, <1>2 DEF ReachInv, TypeOK, RegistryTypeOK, DependenciesTypeOK, dependencyVars,
     requestVars, metricVars
<1>4. RequestsInv'
  BY <1>1 DEF ReachInv, RequestsInv, dependencyVars, requestVars, metricVars
<1>5. RegistryInv'
  BY <1>1, <1>2 DEF ReachInv, RegistryInv, TypeOK, RegistryTypeOK, Known, dependencyVars
<1> QED
  BY <1>3, <1>4, <1>5 DEF ReachInv

\* A request leaves the agents and the tool registries alone.
LEMMA ReachReceive ==
  ASSUME ReachInv, NEW r \in Request, Receive(r)
  PROVE  ReachInv'
<1>1. PICK q \in RunRequest : asked' = [asked EXCEPT ![r] = q]
  BY DEF Receive, RunRequest
<1>2. TypeOK'
  BY <1>1 DEF ReachInv, Receive, Move, TypeOK, RegistryTypeOK, DependenciesTypeOK, Stages,
     InFlight, agentVars, dependencyVars, metricVars
<1>3. RequestsInv'
  BY <1>1 DEF ReachInv, Receive, Move, TypeOK, DependenciesTypeOK, RequestsInv, RegistryInv,
     InFlight, agentVars, dependencyVars, metricVars
<1>4. RegistryInv'
  BY DEF ReachInv, Receive, RegistryInv, Known, agentVars, dependencyVars
<1> QED
  BY <1>2, <1>3, <1>4 DEF ReachInv

\* However many threads construct an engine, all get the one tool registry.
LEMMA ReachConstruct ==
  ASSUME ReachInv, NEW r \in Request, ConstructEngine(r)
  PROVE  ReachInv'
<1>1. up /\ r \in Owner /\ toolRegistryCache = Startup
  BY OwnersHold DEF ReachInv, ConstructEngine, RequestsInv, RegistryInv, InFlight, Owners
<1>2. /\ toolRegistryCache' = Startup
      /\ engineTools' = [engineTools EXCEPT ![r] = Startup]
      /\ engineCache' = Filled(engineCache, r)
  BY <1>1, OwnersHold DEF ConstructEngine, BuildEngine, Filled, Owners
<1>3. TypeOK'
  BY <1>1, <1>2, OwnersHold DEF ReachInv, ConstructEngine, Move, Filled, TypeOK, RegistryTypeOK,
     DependenciesTypeOK, Stages, InFlight, Owners, agentVars, metricVars
<1>4. RequestsInv'
  BY <1>1, <1>2 DEF ReachInv, ConstructEngine, Move, TypeOK, DependenciesTypeOK, RequestsInv,
     InFlight, agentVars, metricVars
<1>5. RegistryInv'
  BY <1>1, <1>2 DEF ReachInv, ConstructEngine, Filled, TypeOK, DependenciesTypeOK, RegistryInv,
     Known, agentVars
<1> QED
  BY <1>3, <1>4, <1>5 DEF ReachInv

\* The run takes its tools from a definition that was validated.
LEMMA ReachSubmit ==
  ASSUME ReachInv, NEW r \in Request, SubmitRun(r)
  PROVE  ReachInv'
<1> DEFINE a == asked[r].agent
<1>1. TypeOK /\ RequestsInv /\ RegistryInv /\ asked[r] \in RunRequest /\ a \in AgentId
  BY DEF ReachInv, SubmitRun, RequestsInv, RunRequest
<1>2. ASSUME Known(a)
      PROVE  /\ agents[a] \in Definition
             /\ AgentRun(agents[a], asked[r]) \in AgentRuns
             /\ AgentRun(agents[a], asked[r]).tools \subseteq toolNames[Startup]
  <2>1. agents[a] \in Definition /\ agents[a].tools \subseteq toolNames[Startup]
    BY <1>1, <1>2 DEF Known, TypeOK, RegistryTypeOK, RegistryInv
  <2> QED
    BY <1>1, <2>1 DEF AgentRun, AgentRuns, Definition, RunRequest
<1>3. TypeOK'
  <2>1. stage' \in [Request -> Stages]
    BY <1>1 DEF SubmitRun, Move, TypeOK, Stages, InFlight
  <2>2. run' \in [Request -> AgentRuns \cup {None}] /\ active' \in [AgentId -> Int]
    <3>1. CASE Known(a)
      BY <1>1, <1>2, <3>1 DEF SubmitRun, TypeOK
    <3>2. CASE ~Known(a)
      BY <1>1, <3>2 DEF SubmitRun, TypeOK
    <3> QED
      BY <3>1, <3>2
  <2> QED
    BY <1>1, <2>1, <2>2 DEF SubmitRun, TypeOK, RegistryTypeOK, DependenciesTypeOK, agentVars,
       dependencyVars
<1>4. RequestsInv'
  BY <1>1, <1>2 DEF SubmitRun, Move, TypeOK, RequestsInv, InFlight, agentVars, dependencyVars
<1>5. RegistryInv'
  BY <1>1 DEF SubmitRun, RegistryInv, Known, agentVars, dependencyVars
<1> QED
  BY <1>3, <1>4, <1>5 DEF ReachInv

LEMMA ReachEnd ==
  ASSUME ReachInv, NEW r \in Request, FinishRun(r) \/ FailRun(r)
  PROVE  ReachInv'
<1>1. TypeOK /\ RequestsInv /\ RegistryInv /\ asked[r].agent \in AgentId
  BY DEF ReachInv, FinishRun, FailRun, RequestsInv, RunRequest
<1>2. TypeOK'
  <2>1. stage' \in [Request -> Stages] /\ active' \in [AgentId -> Int]
    BY <1>1 DEF FinishRun, FailRun, Move, TypeOK, Stages, InFlight
  <2>2. totals' \in [AgentId -> [Statuses -> Nat]] /\ stored' \in [Request -> Statuses \cup {None}]
    <3>1. CASE FailRun(r)
      BY <1>1, <3>1 DEF FailRun, TypeOK
    <3>2. CASE FinishRun(r)
      <4>1. PICK s \in Statuses :
              /\ totals' = [totals EXCEPT ![asked[r].agent][s] = @ + 1]
              /\ stored' = [stored EXCEPT ![r] = s]
        BY <3>2 DEF FinishRun
      <4>2. totals[asked[r].agent][s] + 1 \in Nat
        BY <1>1, <4>1 DEF TypeOK
      <4> QED
        BY <1>1, <4>1, <4>2 DEF TypeOK
    <3> QED
      BY <3>1, <3>2
  <2> QED
    BY <1>1, <2>1, <2>2 DEF FinishRun, FailRun, TypeOK, RegistryTypeOK, DependenciesTypeOK,
       agentVars, dependencyVars
<1>3. RequestsInv'
  BY <1>1 DEF FinishRun, FailRun, Move, TypeOK, RequestsInv, InFlight, agentVars, dependencyVars
<1>4. RegistryInv'
  BY <1>1 DEF FinishRun, FailRun, RegistryInv, Known, agentVars, dependencyVars
<1> QED
  BY <1>2, <1>3, <1>4 DEF ReachInv

LEMMA ReachStep == ReachInv /\ [Next]_vars => ReachInv'
<1> SUFFICES ASSUME ReachInv, [Next]_vars PROVE ReachInv'
  OBVIOUS
<1>1. CASE UNCHANGED vars
  BY <1>1 DEF ReachInv, TypeOK, RegistryTypeOK, DependenciesTypeOK, RequestsInv, RegistryInv,
     Known, vars, agentVars, dependencyVars, requestVars, metricVars
<1>2. CASE Next
  BY <1>2, ReachStart, ReachStop, ReachEdit, ReachReceive, ReachConstruct, ReachSubmit, ReachEnd
  DEF Next, Serve
<1> QED
  BY <1>1, <1>2

LEMMA ReachHolds == Spec => []ReachInv
BY ReachInit, ReachStep, PTL DEF Spec

\* Every variable of the API keeps its type.
THEOREM ApiTypeCorrect == Spec => []TypeOK
<1>1. ReachInv => TypeOK
  BY DEF ReachInv
<1> QED
  BY <1>1, ReachHolds, PTL

\* RunsReachTheirTools: the tools of a run in flight are in the registry of the
\* engine it was given, whoever constructed that engine (dependencies.py) and
\* whatever was updated or deleted meanwhile (agent_registry.py).
THEOREM RunsHaveTheirTools == Spec => []RunsReachTheirTools
<1>1. ReachInv => RunsReachTheirTools
  BY DEF ReachInv, RequestsInv, RunsReachTheirTools
<1> QED
  BY <1>1, ReachHolds, PTL

------------------------------------------------------------------------------
(* The metrics.                                                               *)

Running(a) == {r \in Request : stage[r] = "running" /\ asked[r].agent = a}
Results(a, s) == {r \in Request : stored[r] = s /\ asked[r].agent = a}

LEMMA FiniteRuns ==
  ASSUME NEW a, NEW s
  PROVE  IsFiniteSet(Running(a)) /\ IsFiniteSet(Results(a, s))
<1>1. IsFiniteSet(Request) /\ Running(a) \in SUBSET Request /\ Results(a, s) \in SUBSET Request
  BY RunApiAssumption DEF Running, Results
<1> QED
  BY <1>1, FS_Subset

\* The gauge is incremented for the run that joins those of its agent.
LEMMA MetricsSubmit ==
  ASSUME ReachInv, MetricsTellTheRuns, NEW r \in Request, SubmitRun(r)
  PROVE  MetricsTellTheRuns'
<1>1. /\ TypeOK /\ asked[r].agent \in AgentId /\ stage[r] = "resolved"
      /\ UNCHANGED <<asked, totals, stored>>
  BY DEF ReachInv, RequestsInv, RunRequest, SubmitRun
<1>2. ASSUME NEW a \in AgentId PROVE active'[a] = Cardinality(Running(a)')
  <2>1. active[a] = Cardinality(Running(a)) /\ IsFiniteSet(Running(a)) /\ r \notin Running(a)
    BY <1>1, FiniteRuns DEF MetricsTellTheRuns, Running
  <2>2. CASE Known(asked[r].agent) /\ a = asked[r].agent
    <3>1. Running(a)' = Running(a) \cup {r} /\ active'[a] = active[a] + 1
      BY <1>1, <2>2 DEF SubmitRun, Move, Running, TypeOK
    <3> QED
      BY <2>1, <3>1, FS_AddElement
  <2>3. CASE ~(Known(asked[r].agent) /\ a = asked[r].agent)
    <3>1. Running(a)' = Running(a) /\ active'[a] = active[a]
      BY <1>1, <2>3 DEF SubmitRun, Move, Running, TypeOK
    <3> QED
      BY <2>1, <3>1
  <2> QED
    BY <2>2, <2>3
<1>3. \A a \in AgentId : \A s \in Statuses : totals'[a][s] = Cardinality(Results(a, s)')
  BY <1>1 DEF MetricsTellTheRuns, Results
<1> QED
  BY <1>2, <1>3 DEF MetricsTellTheRuns, Running, Results

\* Both ways out of a run decrement the gauge; the one with a result counts it.
LEMMA MetricsEnd ==
  ASSUME ReachInv, MetricsTellTheRuns, NEW r \in Request, FinishRun(r) \/ FailRun(r)
  PROVE  MetricsTellTheRuns'
<1>1. /\ TypeOK /\ asked[r].agent \in AgentId /\ stage[r] = "running" /\ stored[r] = None
      /\ asked' = asked /\ None \notin Statuses
  BY RunApiAssumption DEF ReachInv, RequestsInv, RunRequest, FinishRun, FailRun
<1>2. ASSUME NEW a \in AgentId PROVE active'[a] = Cardinality(Running(a)')
  <2>1. active[a] = Cardinality(Running(a)) /\ IsFiniteSet(Running(a))
    BY FiniteRuns DEF MetricsTellTheRuns, Running
  <2>2. CASE a = asked[r].agent
    <3>1. r \in Running(a) /\ Running(a)' = Running(a) \ {r} /\ active'[a] = active[a] - 1
      BY <1>1, <2>2 DEF FinishRun, FailRun, Move, Running, TypeOK
    <3> QED
      BY <2>1, <3>1, FS_RemoveElement
  <2>3. CASE a # asked[r].agent
    <3>1. Running(a)' = Running(a) /\ active'[a] = active[a]
      BY <1>1, <2>3 DEF FinishRun, FailRun, Move, Running, TypeOK
    <3> QED
      BY <2>1, <3>1
  <2> QED
    BY <2>2, <2>3
<1>3. ASSUME NEW a \in AgentId, NEW s \in Statuses
      PROVE  totals'[a][s] = Cardinality(Results(a, s)')
  <2>1. totals[a][s] = Cardinality(Results(a, s)) /\ IsFiniteSet(Results(a, s))
        /\ r \notin Results(a, s)
    <3>1. totals[a][s] = Cardinality(Results(a, s))
      BY DEF MetricsTellTheRuns, Results
    <3>2. IsFiniteSet(Results(a, s))
      BY FiniteRuns
    <3>3. r \notin Results(a, s)
      BY <1>1 DEF Results
    <3> QED
      BY <3>1, <3>2, <3>3
  <2>2. CASE FailRun(r)
    <3>1. totals' = totals /\ Results(a, s)' = Results(a, s)
      BY <1>1, <2>2 DEF FailRun, Results
    <3> QED
      BY <2>1, <3>1
  <2>3. CASE FinishRun(r)
    <3>1. PICK e \in Statuses :
            /\ totals' = [totals EXCEPT ![asked[r].agent][e] = @ + 1]
            /\ stored' = [stored EXCEPT ![r] = e]
      BY <2>3 DEF FinishRun
    <3>2. CASE a = asked[r].agent /\ s = e
      <4>1. totals'[a][s] = totals[a][s] + 1
        BY <1>1, <3>1, <3>2 DEF TypeOK
      <4>2. Results(a, s)' = Results(a, s) \cup {r}
        BY <1>1, <3>1, <3>2 DEF TypeOK, Results
      <4> QED
        BY <2>1, <4>1, <4>2, FS_AddElement
    <3>3. CASE ~(a = asked[r].agent /\ s = e)
      <4>1. totals'[a][s] = totals[a][s]
        BY <1>1, <3>1, <3>3 DEF TypeOK
      <4>2. Results(a, s)' = Results(a, s)
        BY <1>1, <3>1, <3>3 DEF TypeOK, Results
      <4> QED
        BY <2>1, <4>1, <4>2
    <3> QED
      BY <3>2, <3>3
  <2> QED
    BY <2>2, <2>3
<1> QED
  BY <1>2, <1>3 DEF MetricsTellTheRuns, Running, Results

\* No other step moves a request into or out of a run, but the end of the
\* process, which takes the metrics with it.
LEMMA MetricsElsewhere ==
  ASSUME ReachInv, MetricsTellTheRuns,
         \/ UNCHANGED vars \/ Start \/ RegisterAgent \/ UpdateAgent \/ DeleteAgent
         \/ \E r \in Request : Receive(r) \/ ConstructEngine(r)
  PROVE  MetricsTellTheRuns'
<1> SUFFICES ASSUME NEW a \in AgentId
             PROVE  /\ active'[a] = active[a]
                    /\ Running(a)' = Running(a)
                    /\ \A s \in Statuses :
                         totals'[a][s] = totals[a][s] /\ Results(a, s)' = Results(a, s)
  BY DEF MetricsTellTheRuns, Running, Results
<1>1. CASE \/ UNCHANGED vars \/ Start \/ RegisterAgent \/ UpdateAgent \/ DeleteAgent
  <2>1. UNCHANGED <<stage, asked, active, totals, stored>>
    BY <1>1 DEF vars, Start, RegisterAgent, UpdateAgent, DeleteAgent, EditAgents, requestVars,
       metricVars
  <2> QED
    BY <2>1 DEF Running, Results
<1>2. ASSUME NEW r \in Request, Receive(r) \/ ConstructEngine(r)
      PROVE  /\ active'[a] = active[a]
             /\ Running(a)' = Running(a)
             /\ \A s \in Statuses :
                  totals'[a][s] = totals[a][s] /\ Results(a, s)' = Results(a, s)
  <2>1. /\ TypeOK /\ stored[r] = None /\ None \notin Statuses
        /\ UNCHANGED <<active, totals, stored>>
        /\ stage[r] # "running" /\ stage'[r] # "running"
        /\ \A q \in Request \ {r} : stage'[q] = stage[q] /\ asked'[q] = asked[q]
    BY <1>2, RunApiAssumption DEF ReachInv, TypeOK, RequestsInv, Receive, ConstructEngine, Move,
       metricVars
  <2> QED
    BY <2>1 DEF Running, Results
<1> QED
  BY <1>1, <1>2

LEMMA MetricsAtZero ==
  ASSUME active = NoActive, totals = NoTotals, stored = NoResults,
         \A r \in Request : stage[r] # "running"
  PROVE  MetricsTellTheRuns
<1> SUFFICES ASSUME NEW a \in AgentId
             PROVE  /\ active[a] = Cardinality(Running(a))
                    /\ \A s \in Statuses : totals[a][s] = Cardinality(Results(a, s))
  BY DEF MetricsTellTheRuns, Running, Results
<1>1. Running(a) = {} /\ \A s \in Statuses : Results(a, s) = {}
  BY RunApiAssumption DEF Running, Results, NoResults
<1> QED
  BY <1>1, FS_EmptySet DEF NoActive, NoTotals

LEMMA MetricsStop ==
  ASSUME ReachInv, Stop
  PROVE  MetricsTellTheRuns'
<1> SUFFICES ASSUME NEW a \in AgentId
             PROVE  /\ active'[a] = Cardinality(Running(a)')
                    /\ \A s \in Statuses : totals'[a][s] = Cardinality(Results(a, s)')
  BY DEF MetricsTellTheRuns, Running, Results
<1>1. Running(a)' = {} /\ \A s \in Statuses : Results(a, s)' = {}
  BY RunApiAssumption DEF Stop, InFlight, Running, Results, NoResults
<1> QED
  BY <1>1, FS_EmptySet DEF Stop, NoActive, NoTotals

\* MetricsTellTheRuns: the gauge of an agent counts its runs in flight, and its
\* counters the results that can be found, however runs end (submit_run).
THEOREM MetricsAreRight == Spec => []MetricsTellTheRuns
<1>1. Init => MetricsTellTheRuns
  BY MetricsAtZero DEF Init
<1>2. ReachInv /\ MetricsTellTheRuns /\ [Next]_vars => MetricsTellTheRuns'
  BY MetricsSubmit, MetricsEnd, MetricsElsewhere, MetricsStop DEF Next, Serve
<1> QED
  BY <1>1, <1>2, ReachHolds, PTL DEF Spec
=============================================================================
