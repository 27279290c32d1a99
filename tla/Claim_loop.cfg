SPECIFICATION Spec
CONSTANTS
  MaxSteps = 9
  MaxTokens = 20
  MaxCost = 20
  ToolName <- MCToolName
  Registered <- MCRegistered
  Allowed <- MCAllowed
  ToolDef <- MCToolDef
  Replies <- Healthy
  Calls <- StuckCalls
  Responses <- StuckResponses
  Usages <- OneUsage
  ErrorTexts <- QuietErrors
  InputHasFact = FALSE
  LastN = 2
  InitSessions <- NewSession
  InitFacts <- NoFacts
PROPERTIES
  LoopForcesFail
