SPECIFICATION Spec
CONSTANTS
  Callers = {}
  Bg = bg
  Closer = closer
  NoTask = none
  MaxQueue = 1
  MaxBatch = 1
  MaxRecords = 2
  SubmitMax = 1
  MaxRejected = 0
  UsedKinds = {1, 2}
  WithConsumer = TRUE
CHECK_DEADLOCK FALSE
INVARIANT FinalFlushBeforeCancel
