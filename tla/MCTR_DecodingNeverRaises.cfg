CONSTANTS
  None = None
  Empty = Empty
  Garbage = Garbage
  NaN = NaN
  Refused = Refused
  Infinite = Infinite
  OutOfRange = OutOfRange
  IllegalTexts <- MCIllegalTexts
  Environments <- MCEnvironments
  Budgets <- MCBudgets
  Providers <- MCProviders
  HttpResponses <- MCReportResponses
  GrpcResponses <- MCGrpcResponses
SPECIFICATION Spec
CHECK_DEADLOCK FALSE
INVARIANT DecodingNeverRaises
