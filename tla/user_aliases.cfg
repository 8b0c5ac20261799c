CONSTANTS
  f1 = f1
  f2 = f2
  VersionCount = 3
  Automatic = {1, 2, 3}
  Reversible = {1, 2}
  Runners = {r1, r2, r3}
  NoOne = none
  Events = {"kill", "raise", "rollback"}
  Pools = {p1, p2}
  NoPool = noPool
  Home = home
  Spare = {r1, r2, r3}
  Nowhere = nowhere
  Files = {f1, f2}
  Admins = {a1, a2}
  Shared = FALSE
  MaxTransfers = 2
  MaxChanges = 2
  People = {u1}
  Names = {"Ann", "ann", "Bob"}
  Fold <- MCFold
  NoWord = ""
  AliasLists <- MCAliasLists
  Editors = {a1, a2}
  MaxEdits = 2
SPECIFICATION ProfilesSpec
SYMMETRY Permuted
INVARIANTS
  AliasesAreFound
CHECK_DEADLOCK FALSE
