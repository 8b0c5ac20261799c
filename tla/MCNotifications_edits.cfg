CONSTANTS
  UserCount = 2
  Scanners = {s1}
  NoOne = none
  BatchSize = 1
  ChunkBudget = 1
  MaxAttempts = 2
  MaxVersion = 1
  MaxCrashes = 1
  Email = TRUE
  Events = {"edit", "late", "lapse", "revoke", "busy", "moves"}
SPECIFICATION FairSpec
INVARIANTS
  PublishedIsComplete
  RevokedStaysCancelled
PROPERTIES
  DraftWaitsForAuthor
  PublicationEnds
  RevocationTakesHold
CHECK_DEADLOCK FALSE
