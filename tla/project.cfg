CONSTANTS
  f1 = f1
  f2 = f2
  s1 = s1
  n1 = n1
  u1 = u1
  u2 = u2
  en = en
  Nodes = {f1, f2, f3}
  Names = {n1, n2}
  Targets = {en}
  Sources = {s1}
  RowIds = {1, 2, 3}
  Translators = {u1, u2}
  Sizes = {3}
  Handlers = {h1, h2}
  Top = top
  NoTask = idle
  MaxActs = 4
  Uploads = {h1, h2}
  Painters = {b1}
  Script = script
  MaxRetries = 1
  MaxNames = 2
  MaxExtras = 1
  LabelIds = {l1, l2, l3, l4}
  Movers = {h1, h2}
  End = theEnd
  MaxMoves = 3
  Pages = {1, 2, 3}
  PageNames = {1, 2, 3}
  Editors = {h1, h2}
  MaxPageActs = 3
  Kinds = {"team", "project"}
  Joiners = {u1, u2}
  Creator = c
  TeamMates = {u2}
  AutoAdmins = {u2}
  JoinHandlers = {h1, h2}
  MaxSeats = 2
  MaxDocs = 2
  MaxErrands = 3
  MaxDeaths = 1
  UserCount = 2
  Scanners = {h1, h2}
  NoOne = none
  BatchSize = 1
  ChunkBudget = 1
  MaxAttempts = 2
  MaxVersion = 1
  MaxCrashes = 0
  Email = TRUE
  Events = {"stall", "smtp", "moves"}
  Senders = {h1, h2}
  Scopes = {"project", "page"}
  Bakers = {h1, h2}
  MaxSent = 3
  MaxEditions = 2
  MaxMishaps = 1
SPECIFICATION ProjectSpec
SYMMETRY Permuted
CONSTRAINT BeforeRaces
INVARIANTS
  
  CoverUrlResolves
  DerivedBytesAddUp
  MovedAsAsked
  PagesInv
  JoiningInv
  MailedOnce
  KeyMeansOneThing
PROPERTIES
  NeverDowngraded
CHECK_DEADLOCK FALSE
