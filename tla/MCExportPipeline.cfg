SPECIFICATION Spec
CONSTANTS
  Callers = {}
  Bg = bg
  Closer = closer
  NoTask = none
  MaxQueue = 1
  MaxBatch = 1
  MaxRecords = 2
  SubmitMax = 1
  MaxRejected = 0
  UsedKinds = {1}
  Absent = absent
  Malformed = malformed
  TooLarge = toolarge
  Answers <- Issued
  SessionGiven = TRUE
  DefaultTtl = 3
  ExpirySkew = 1
  MintTime = 0
  InitialBackoff = 0
  MaxBackoff = 0
  Multiplier = 1
  MaxElapsed = 1
  Timeout = 1
  OverflowAt = 1
  Hints = {1, 2}
  LastStart = 0
  Others = {o1}
  MaxMinted = 2
CHECK_DEADLOCK FALSE
INVARIANTS AnsweredWasTaken AcknowledgedIsFinal ClientKeepsPromises
