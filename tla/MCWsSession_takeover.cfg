CONSTANTS
  MaxFrags = 1
  Window = 2
  Shares = {0, 2}
  DeflateMayFail = FALSE
  Scenarios <- TakeoverScenarios
SPECIFICATION FairSpec
INVARIANT
  AllTextsDecode
