SPECIFICATION FairSpec
CONSTANTS
  Callers = {}
  Bg = bg
  Closer = closer
  NoTask = none
  MaxQueue = 1
  MaxBatch = 1
  MaxRecords = 1
  SubmitMax = 1
  MaxRejected = 1
  UsedKinds = {1}
  Absent = absent
  Malformed = malformed
  TooLarge = toolarge
  Answers <- OneOfEach
  SessionGiven = TRUE
  DefaultTtl = 3
  ExpirySkew = 1
  MintTime = 0
  InitialBackoff = 0
  MaxBackoff = 0
  Multiplier = 1
  MaxElapsed = 1
  Timeout = 1
  OverflowAt = 1
  Hints = {}
  LastStart = 0
  Others = {o1}
  MaxMinted = 1
CHECK_DEADLOCK FALSE
PROPERTIES ExportsEndAsAssumed OthersEnd
