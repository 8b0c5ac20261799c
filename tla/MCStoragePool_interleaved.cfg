CONSTANTS
  Keys = {k1, k2}
  Sources = {a}
  Default = default
  MaxTransfers = 2
  MaxQueue = 1
  MaxEdits = 0
  BatchLimit = 2
  MaxStalls = 2
  Workers = {w1, w2}
  Faults = {}
  Practices = {"interleave"}
SPECIFICATION Spec
SYMMETRY Permuted
INVARIANTS
  LastCopyKept
CHECK_DEADLOCK FALSE
