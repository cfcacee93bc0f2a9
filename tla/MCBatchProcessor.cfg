SPECIFICATION Spec
CONSTANTS
  Callers = {c1, c2}
  Bg = bg
  Closer = closer
  NoTask = none
  MaxQueue = 2
  MaxBatch = 2
  MaxRecords = 3
  SubmitMax = 3
  MaxRejected = 2
  UsedKinds = {1, 2}
  WithConsumer = FALSE
SYMMETRY TaskSymmetry
INVARIANTS TypeOK Accounting LostOnce OneFlushAtATime NoLostWakeup ShutdownIsFinal
PROPERTIES FlushSettles RefinesLedger
