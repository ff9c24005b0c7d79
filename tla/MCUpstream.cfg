CONSTANTS
  MaxJobs <- MCMaxJobs
  MaxFrags = 2
  Capacity = 1
  Crews <- AllCrews
  MaxTurns = 3
  MaxChains = 2
  Scenarios <- MCScenarios
  HeadLen = 2
  ClientLen = 3
  ServerLen = 3
  RelayScenarios <- MCRelayScenarios
  k1 = k1
  k2 = k2
  w1 = w1
  w2 = w2
  TlsConn = {k1, k2}
  RawConn = {w1, w2}
  NoConn = NoConn
  Slots = 1
SPECIFICATION Spec
INVARIANTS
  TypeOK
  SentAtMostTwice
  ConversationKept
  RelayFaithful
PROPERTIES
  ImplementsFrameStream
  BreaksOnlyOnOverlap
  WritesFinish
  EveryRequestAnswered
  RelayEnds
  FrontEndGoesOn
