CONSTANTS
  Keys = {k1, k2}
  Sources = {a}
  Default = default
  MaxTransfers = 1
  MaxQueue = 2
  MaxEdits = 1
  BatchLimit = 1
  MaxStalls = 2
  Workers = {w1, w2}
  Faults = {"copy", "delete"}
  Practices = {"redispatch", "overlap"}
SPECIFICATION FairSpec
INVARIANTS
  SectionExclusive
PROPERTIES
  TransferSettles
CHECK_DEADLOCK FALSE
