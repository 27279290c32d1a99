-------------------------------- MODULE MCRunApi --------------------------------
(* An instance of RunApi for TLC.                                             *)
EXTENDS RunApi

MCOwner == Request \cup {Startup}

\* "ghost" is no tool of the server: a body that names it is refused.
MCTool == {"lookup", "refund", "ghost"}
MCDemoTools == MCTool \ {"ghost"}
MCLimit == {1, 2}

Agent(tools, budget) == [tools |-> tools, default_budget |-> budget]

MCBody == {Agent({"lookup"}, 2), Agent({"lookup", "refund"}, 1), Agent({"ghost"}, 1)}
MCDemoAgents == [a \in {"support"} |-> Agent({"lookup"}, 1)]
=============================================================================
