CONSTANTS
  MaxFrags = 2
  Window = 2
  Shares = {0, 2}
  DeflateMayFail = TRUE
  Scenarios <- MCScenarios
  r1 = r1
  r2 = r2
  k1 = k1
  k2 = k2
  o1 = o1
  o2 = o2
  a = a
  b = b
  src = src
  lib = lib
  Request = {r1, r2}
  Key = {k1, k2}
  Orig = {o1, o2}
  Path = {a, b}
  Directory = {src, lib}
  DirOf <- MCDirOf
  Mentions <- MCMentions
  Compress <- MCCompress
  MaxSize = 1
  TTL = 1
  MaxDirs = 1
  PruneAge = 2
  MaxWrites = 2
  MaxReplacements = 1
  MaxArrivals = 3
  h1 = h1
  x1 = x1
  x2 = x2
  p1 = p1
  p2 = p2
  Http = {h1}
  Session = {x1, x2}
  Proof = {h1, x1}
  Caller = {p1, p2}
  NoOne = NoOne
  QueueCap = 1
  Loads <- MCLoads
SPECIFICATION TrafficSpec
ACTION_CONSTRAINT Bounds
INVARIANTS
  TrafficTypeOK
  ExactlyOnceInOrder
  InspectorTrusted
  DecodableUnlessRawAfterRewrite
  NoTakeoverDecodable
  ConsumedForcesReencode
  BlameIsReal
  CacheConsistent
  StaleIsPending
  EventsKept
PROPERTIES
  BlockedEndsMutation
  Unwinds
  StaleEntriesLeave
  ShutdownReturns
