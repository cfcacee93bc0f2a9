SPECIFICATION Spec
CONSTANTS
  Exports = {e1}
  Anonymous = {e1}
  NoTask = none
  Absent = absent
  Malformed = malformed
  TooLarge = toolarge
  Answers <- OneOfEach
  SessionGiven = FALSE
  DefaultTtl = 3
  ExpirySkew = 1
  MintTime = 1
  InitialBackoff = 1
  MaxBackoff = 2
  Multiplier = 2
  MaxElapsed = 3
  Timeout = 1
  OverflowAt = 3
  Hints = {0, 1}
  LastStart = 0
INVARIANT RaisesOTLPErrors
