SPECIFICATION Spec
CONSTANTS
  MaxSteps = 0
  MaxTokens = 0
  MaxCost = 0
  ToolName <- MCToolName
  Registered <- MCRegistered
  Allowed <- MCAllowed
  ToolDef <- MCToolDef
  Replies <- Outages
  Calls <- FewCalls
  Responses <- FewResponses
  Usages <- OneUsage
  ErrorTexts <- QuietErrors
  InputHasFact = TRUE
  LastN = 8
  InitSessions <- LongSession
  InitFacts <- MaybeFact
INVARIANTS
  InputAskedOnce
PROPERTIES
  Returns
