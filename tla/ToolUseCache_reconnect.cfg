CONSTANTS
  Key = {1, 2}
  NoKey = NoKey
  Adapter = {a1}
  Flusher = {g1, g2}
  Unloaded = Unloaded
  NoFile = NoFile
  Truncated = Truncated
  Mixed = Mixed
  MaxKeys = 2
  MaxCacheCalls = 2
  MaxAccidents = 0
SPECIFICATION ToolUseSpec
INVARIANT
  MergedIsLoaded
CHECK_DEADLOCK FALSE
