SPECIFICATION ExecSpec
CONSTANTS
  ToolName <- MCToolName
  Registered <- MCToolName
  Allowed <- MCToolName
  ToolDef <- MCToolDef
INVARIANTS
  ExecTypeOK ResultInContract AttemptsWithinLimit OnlyTransientRetried
  ReportedAfterLastRetry
