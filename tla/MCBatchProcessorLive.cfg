SPECIFICATION FairSpec
CONSTANTS
  Callers = {c1}
  Bg = bg
  Closer = closer
  NoTask = none
  MaxQueue = 2
  MaxBatch = 3
  MaxRecords = 2
  SubmitMax = 2
  MaxRejected = 0
  UsedKinds = {2, 3}
  WithConsumer = TRUE
PROPERTIES NoRecordIsStuck FlushReturns ShutdownEnds
