CONSTANTS
  Requests = {r1, r2}
  Workers = {w1, w2}
  KeptOutputs = 0
  ArchiveSizes = {1}
  MaxVersion = 2
  MaxBooked = 2
  MaxMade = 2
SPECIFICATION JobsFairSpec
INVARIANTS
  NeverUndercounts
  ClearedHoldsNothing
PROPERTIES
  ClearIsReleased
CHECK_DEADLOCK FALSE
