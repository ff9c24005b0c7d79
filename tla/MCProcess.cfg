CONSTANTS
  Line = {l1}
  NoBackup = NoBackup
  MaxStarts = 2
  MaxEdits = 1
  MaxFlips = 1
  MaxRemovals = 1
  Options <- MCOptions
  Cert = {c1, c2}
  NoCert = NoCert
  Garbage = Garbage
  MaxRuns = 2
  Runner = {r1, r2}
  NoLock = NoLock
  NoPid = NoPid
  DeadPid = DeadPid
  Window = 4
  MaxOutcomes = 10
  Socket = {s1, s2}
  RingLimit = 1
  MaxCount = 1
  k1 = k1
  k2 = k2
  i1 = i1
  i2 = i2
  Hook = {k1, k2}
  Item = {i1, i2}
  NoItem = NoItem
  NoState = NoState
  Blank = BlankFile
  Garbled = GarbledFile
  NoLockFile = NoLockFile
  Orphan = OrphanLock
  MaxTurns = 2
  MaxItems = 1
  MaxCalls = 3
  MaxUpsets = 1
  q1 = q1
  q2 = q2
  v1 = v1
  v2 = v2
  u1 = u1
  u2 = u2
  Server = {q1, q2}
  Conversation = {v1, v2}
  Tool = {u1, u2}
  IdleThreshold = 2
  MaxTracked = 1
  MaxAnchors = 1
  NoId = NoId
  NoTurn = NoTurn
  World <- MCWorlds
SPECIFICATION Spec
INVARIANTS
  TypeOK
  RedirectIsOwned
  LinesKeptUnlessEdited
  InstallReversible
  RecertHonest
  StatusTellsLastOutcomes
  SnapshotHonest
  TurnStateHonest
  QuestionsAnsweredInFull
  RetriedInSecret
PROPERTY
  MissedToolsStay
CHECK_DEADLOCK FALSE
