SPECIFICATION Spec
CONSTANTS
  NumCases = 2
  MaxCaseParallelism = 2
  Configs <- PhaseConfigs
  MaxCalls = 2
  MaxFaults = 2
INVARIANTS
  RecordsRight
  SuccessCovers
  GatewayRight
PROPERTY EvaluationEnds
CHECK_DEADLOCK FALSE
