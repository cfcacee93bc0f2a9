CONSTANTS
  None = None
  Null = Null
  Raises = Raises
  Unreadable = Unreadable
  MaxU32 = 1023
  MaxU64 = 2047
  Orjson = TRUE
  Floats = {"-0", "1"}
  Metrics <- MCMetrics
  Logs <- MCLogs
  Traces <- MCTraces
  Told <- MCTold
  Resources <- MCResources
  Scopes <- MCScopes
SPECIFICATION CallSpec
CHECK_DEADLOCK FALSE
INVARIANTS
  EncodersAgree
  OmitsEmptyParts
  MeasurementsSurvive
  EnvelopeOfTheCall
  ToldIsReceived
