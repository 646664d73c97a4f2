SPECIFICATION FairSpec
CONSTANTS
  People = {p1, p2}
  LocalAdmin = LocalAdmin
  Requests = {r1, r2, r3}
  RowLocks = TRUE
  None = None
INVARIANTS
  OneFirstAdministrator
PROPERTIES
  EveryArrivalAnswered
CHECK_DEADLOCK FALSE
