CONSTANTS
  MaxJobs <- MCMaxJobs
  MaxFrags = 1
  Capacity = 2
  Crews <- BridgeCrew
SPECIFICATION WriterSpec
CHECK_DEADLOCK FALSE
INVARIANT
  FramesIntact
