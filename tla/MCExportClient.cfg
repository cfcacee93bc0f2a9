SPECIFICATION Spec
CONSTANTS
  Exports = {e1, e2}
  Anonymous = {}
  NoTask = none
  Absent = absent
  Malformed = malformed
  TooLarge = toolarge
  Answers <- OneOfEach
  SessionGiven = FALSE
  DefaultTtl = 3
  ExpirySkew = 1
  MintTime = 1
  InitialBackoff = 1
  MaxBackoff = 2
  Multiplier = 2
  MaxElapsed = 2
  Timeout = 1
  OverflowAt = 1
  Hints = {1, 3}
  LastStart = 1
SYMMETRY ExportSymmetry
INVARIANTS TypeOK SingleFlight NoRedundantMint NoEmptyToken RaisesAsDocumented FreshTokenAfterRejection RetriesInBudget HonoursRetryAfter ExportIsBounded
PROPERTIES OneReauth CachesWholeAnswers
