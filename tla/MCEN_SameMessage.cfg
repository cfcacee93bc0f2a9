CONSTANTS
  None = None
  Null = Null
  Raises = Raises
  Unreadable = Unreadable
  MaxU32 = 1023
  MaxU64 = 2047
  Orjson = TRUE
  Floats = {"-0", "1", "nan", "inf"}
  Metrics <- MCMetrics
  Logs <- MCLogs
  Traces <- MCTraces
  Told <- MCTold
  Resources <- MCResources
  Scopes <- MCScopes
SPECIFICATION CallSpec
CHECK_DEADLOCK FALSE
INVARIANTS
  SameMessage
