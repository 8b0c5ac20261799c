CONSTANTS
  Keys = {k1, k2}
  Sources = {a, b}
  Default = default
  MaxTransfers = 2
  MaxQueue = 1
  MaxEdits = 1
  BatchLimit = 1
  MaxStalls = 2
  Workers = {w1}
  Faults = {"crash", "copy", "phantom", "delete", "pause"}
  Practices = {}
SPECIFICATION Spec
SYMMETRY Permuted
INVARIANTS
  NoReadableCopyLost
  DoneMeansDrained
PROPERTIES
  OffLimitsProjectStaysPut
  ImplementsProjectFiles
CHECK_DEADLOCK FALSE
