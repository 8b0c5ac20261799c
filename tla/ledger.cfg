SPECIFICATION ClaimSpec
CONSTANTS
  Workers = {1, 2}
  Envelope <- MCEnvelope
  Kind <- MCKind
  Tokens = {1, 2, 3, 4, 5, 6, 7}
  NoToken = 0
  MaxFaults = 2
  Titles = {"work", "marks"}
  KeywordOf <- MCKeywordOf
  Unsearchable = {"marks"}
  CatalogPages = 3
  MaxPages = 2
  Askers = {a1, a2}
  Checkers = {c1}
  MaxAsked = 2
  MaxEvents = 1
INVARIANTS
  AppliedOnce
  VerdictIsEarned
PROPERTIES
  ClaimsRespected
  ClaimsEnd
  CheckIsAnswered
CHECK_DEADLOCK FALSE
