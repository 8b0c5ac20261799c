CONSTANTS
  o = o
  member = member
  x = x
  h1 = h1
  h2 = h2
  nobody = nobody
  m1 = m1
  m2 = m2
  Users = {o, member}
  Aliases = {x}
  Workers = {h1, h2}
  Nobody = nobody
  Owner0 = o
  Team <- MCTeam
  Policy <- MCPolicy
  Open = FALSE
  Locked <- MCLocked
  MaxUser = 3
  MaxRequests = 3
  Addresses = {m1, m2}
  Requests = {h1, h2}
  MaxWrong = 1
  MaxCodes = 2
  MaxCalls = 3
SPECIFICATION PeopleSpec
SYMMETRY Permuted
CONSTRAINT Sighted
INVARIANTS
  MembersInv
  OwnerBreaksOnlyByScars
  LatestMailWorks
CHECK_DEADLOCK FALSE
