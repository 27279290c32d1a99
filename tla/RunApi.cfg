SPECIFICATION Spec
CONSTANTS
  None = None
  Request = {r1, r2}
  Owner <- MCOwner
  AgentId = {"support", "billing"}
  Tool <- MCTool
  Statuses = {"completed", "failed"}
  Limit <- MCLimit
  Body <- MCBody
  DemoTools <- MCDemoTools
  DemoAgents <- MCDemoAgents
INVARIANTS
  TypeOK
  RunsReachTheirTools
  MetricsTellTheRuns
PROPERTIES
  RequestsAreAnswered
