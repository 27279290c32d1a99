SPECIFICATION Spec
CONSTANTS
  MaxSteps = 2
  MaxTokens = 9
  MaxCost = 9
  ToolName <- MCToolName
  Registered <- MCRegistered
  Allowed <- MCAllowed
  ToolDef <- MCToolDef
  Replies <- AllReplies
  Calls <- FewCalls
  Responses <- FewResponses
  Usages <- OneUsage
  ErrorTexts <- QuietErrors
  InputHasFact = TRUE
  LastN = 2
  InitSessions <- SomeSessions
  InitFacts <- MaybeFact
INVARIANTS
  InputAskedOnce
  TraceTellsTheRun
  ReplayRetells
PROPERTIES
  StepsFollowTable
  Terminates
