SPECIFICATION FairSpec
CONSTANTS
  Jobs = {j1, j2}
  Documents = {d1}
  Users = {u1}
  Requests = {r1, r2}
  Cards = {"local"}
  RowLocks = TRUE
  CommitFails = FALSE
  MaxClock = 1
  MaxVersion = 1
  MaxCrashes = 1
  ForgetAfter = 1
  None = None
PROPERTIES
  EveryAttemptSettles
  EveryRequestAnswered
INVARIANTS
  RunningIsInHand
  PinsServeLiveAttempts
