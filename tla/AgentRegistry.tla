----------------------------- MODULE AgentRegistry -----------------------------
(* engine/api/agent_registry.py: the agents a server knows, and the tool       *)
(* registry their definitions are validated against.  A server may come to     *)
(* hold several tool registries (see Dependencies), so each has an owner.       *)
EXTENDS Integers

CONSTANTS
  AgentId,
  Tool,
  Limit,        \* the budgets, ordered by how much they allow
  Owner,        \* who may construct a registry
  None          \* no such agent

Definition == [tools : SUBSET Tool, default_budget : Limit]

ASSUME AgentRegistryAssumption == None \notin Definition /\ Limit \subseteq Int

VARIABLES
  toolNames,    \* the names each tool registry holds
  validator,    \* the tool registry the agent registry was constructed with
  agents        \* _agents

agentVars == <<toolNames, validator, agents>>

RegistryTypeOK ==
  /\ toolNames \in [Owner -> SUBSET Tool]
  /\ validator \in Owner
  /\ agents \in [AgentId -> Definition \cup {None}]

\* `agent_id in self._agents': what get, update and delete raise on the lack of.
Known(a) == agents[a] # None

\* _validate_tools
ToolsKnown(definition) == definition.tools \subseteq toolNames[validator]

\* AgentRegistry.register; a taken id or an unknown tool raises and changes nothing.
Register(a, definition) ==
  /\ ~Known(a)
  /\ ToolsKnown(definition)
  /\ agents' = [agents EXCEPT ![a] = definition]
  /\ UNCHANGED <<toolNames, validator>>

\* Mutant of Update: only register validates.
UpdateUnchecked(a, definition) ==
  /\ Known(a)
  /\ agents' = [agents EXCEPT ![a] = definition]
  /\ UNCHANGED <<toolNames, validator>>

\* AgentRegistry.update; the id in the path wins, created_at is kept.
Update(a, definition) ==
  /\ Known(a)
  /\ ToolsKnown(definition)
  /\ agents' = [agents EXCEPT ![a] = definition]
  /\ UNCHANGED <<toolNames, validator>>

\* AgentRegistry.delete
Delete(a) ==
  /\ Known(a)
  /\ agents' = [agents EXCEPT ![a] = None]
  /\ UNCHANGED <<toolNames, validator>>

\* _register_demos: the bundled tools, then the bundled agents whose tools are
\* known, in the registries `owner' holds; what is registered already is skipped.
RegisterDemos(owner, demoTools, demoAgents) ==
  LET names == toolNames[owner] \cup demoTools
  IN /\ toolNames' = [toolNames EXCEPT ![owner] = names]
     /\ validator' = owner
     /\ agents' = [a \in AgentId |->
          IF ~Known(a) /\ a \in DOMAIN demoAgents /\ demoAgents[a].tools \subseteq names
            THEN demoAgents[a]
            ELSE agents[a]]
=============================================================================
