SPECIFICATION RecoverySpec
CONSTANTS
  MaxTurns = 3
  MaxChains = 2
  Scenarios <- TruncatedScenarios
INVARIANT
  AnsweredInFullContext
