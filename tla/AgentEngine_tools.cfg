SPECIFICATION Spec
CONSTANTS
  MaxSteps = 3
  MaxTokens = 6
  MaxCost = 4
  ToolName <- MCToolName
  Registered <- MCRegistered
  Allowed <- MCAllowed
  ToolDef <- MCToolDef
  Replies <- Healthy
  Calls <- AllCalls
  Responses <- AllResponses
  Usages <- SomeUsages
  ErrorTexts <- TellingErrors
  InputHasFact = FALSE
  LastN = 2
  InitSessions <- NewSession
  InitFacts <- NoFacts
INVARIANTS
  TypeOK
  EveryCallAnswered
  EachCallRunsAtMostOnce
  ToolBoundary
  EscalationEndsRun
  WorkingMemoryComplete
  NoCallOverBudget
  VerdictSound
  LoopGuardSilent
PROPERTIES
  ImplementsContract
