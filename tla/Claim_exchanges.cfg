SPECIFICATION Spec
CONSTANTS
  MaxSteps = 3
  MaxTokens = 9
  MaxCost = 9
  ToolName <- MCToolName
  Registered <- MCRegistered
  Allowed <- MCAllowed
  ToolDef <- MCToolDef
  Replies <- Healthy
  Calls <- FewCalls
  Responses <- FewResponses
  Usages <- OneUsage
  ErrorTexts <- QuietErrors
  InputHasFact = FALSE
  LastN = 2
  InitSessions <- NewSession
  InitFacts <- NoFacts
INVARIANTS
  AnswerFollowsQuestion
