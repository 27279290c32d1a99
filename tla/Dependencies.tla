------------------------------ MODULE Dependencies ------------------------------
(* engine/api/dependencies.py: the registry and the engine a request is given. *)
(* Both are cached functions.  FastAPI runs them in a thread pool, and the     *)
(* cache holds no lock while the function it caches runs: two requests that    *)
(* both miss both construct an object, each keeps its own, and the first one   *)
(* stored is what later requests get.                                          *)
(* None is the empty cache; an object is named after who constructed it.       *)
EXTENDS AgentRegistry

ASSUME DependenciesAssumption == None \notin Owner

VARIABLES
  toolRegistryCache,   \* who constructed the object the cache of
                       \* _build_tool_registry holds
  engineCache,         \* the same of _build_engine
  engineTools          \* the tool registry each engine was constructed with

dependencyVars == <<toolRegistryCache, engineCache, engineTools>>

DependenciesTypeOK ==
  /\ toolRegistryCache \in Owner \cup {None}
  /\ engineCache \in Owner \cup {None}
  /\ engineTools \in [Owner -> Owner]

\* What a cache holds after `who' called its function and met no other caller.
Filled(cache, who) == IF cache = None THEN who ELSE cache

\* lifespan: _register_demos asks for both registries before a request is served.
BuildRegistries(who) ==
  /\ toolRegistryCache' = Filled(toolRegistryCache, who)
  /\ UNCHANGED <<engineCache, engineTools>>

\* The end of _build_engine in the thread of `who': the engine is constructed
\* with the cached tool registry, and stored unless another was meanwhile.
BuildEngine(who) ==
  /\ toolRegistryCache' = Filled(toolRegistryCache, who)
  /\ engineTools' = [engineTools EXCEPT ![who] = Filled(toolRegistryCache, who)]
  /\ engineCache' = Filled(engineCache, who)

\* The process is gone, and its objects with it.
DropDependencies ==
  /\ toolRegistryCache' = None
  /\ engineCache' = None
  /\ engineTools' = [o \in Owner |-> o]
=============================================================================
