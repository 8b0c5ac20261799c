CONSTANTS
  p1 = p1
  u1 = u1
  u2 = u2
  n1 = n1
  n2 = n2
  Projects = {p1}
  Team = team
  Users = {u1, u2}
  FirstUser = u1
  Names = {n1, n2}
  LegacyCases <- Cases
  Processes = {r1, r2}
  Free = free
  NoUser = noUser
  MaxDocs = 8
  MaxFaults = 2
SPECIFICATION FairSpec
INVARIANTS
  IdentityInv
  MigratedIsRight
  EvidenceSurvives
PROPERTIES
  EventuallyRecorded
CHECK_DEADLOCK FALSE
