SPECIFICATION Spec
CONSTANTS
  MaxSteps = 2
  Calls <- MCCalls
  Permitted <- MCCalls
  Escalating <- MCEscalating
  Catalogs <- MCCatalogs
  Arguments <- MCArguments
  PricesOf <- MCPricesOf
  LatenciesOf <- MCLatenciesOf
INVARIANTS
  TypeOK
  PassMeansRight
  FourScoresDecide
  ToolsAsExecuted
  DatasetSatisfiable
  RefundedOnce
  CasesInOrder
PROPERTIES
  EvalsEnd
