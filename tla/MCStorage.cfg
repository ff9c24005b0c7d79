CONSTANTS
  b1 = b1
  b2 = b2
  x = x
  y = y
  Block = {b1, b2}
  Archiver = {x, y}
  NoBlock = NoBlock
  MaxEntries = 1
  MaxBytes = 2
  Size <- MCSize
  MaxCalls = 3
  MaxFaults = 1
  t1 = t1
  t2 = t2
  d1 = d1
  d2 = d2
  Text = {t1, t2}
  Large = {t1}
  NoText = NoText
  Blank = Blank
  Evaluator = {d1, d2}
  Helper = Helper
  Daemon = Daemon
  NoEntry = NoEntry
  Emptied = Emptied
  Torn = Torn
  MaxReads = 2
  MaxUpsets = 1
  a1 = a1
  a2 = a2
  g1 = g1
  g2 = g2
  g3 = g3
  Key = {1, 2, 3}
  NoKey = NoKey
  Adapter = {a1, a2}
  Flusher = {g1, g2, g3}
  Unloaded = Unloaded
  NoFile = NoFile
  Truncated = Truncated
  Mixed = Mixed
  MaxKeys = 2
  MaxCacheCalls = 3
  MaxAccidents = 1
  ca = ca
  cb = cb
  cd = cd
  cl = cl
  cm = cm
  s1 = s1
  s2 = s2
  e1 = e1
  e2 = e2
  Dialog = {s1, s2}
  NoDialog = NoDialog
  Chunk = {ca, cb, cd, cl, cm}
  ChunkSize <- MCChunkSize
  RefSize = 1
  Output <- MCOutput
  Encoder = {e1, e2}
  MaxDialogs = 1
  MaxChunks = 4
  MaxRefPct = 40
  OutputPct = 75
  MaxOutputs = 4
SPECIFICATION Spec
SYMMETRY MCSymmetry
INVARIANTS
  TypeOK
  ArchiveHonest
  ReadCacheHonest
  KeptInOrder
  ReferencesHonest
CHECK_DEADLOCK FALSE
