SPECIFICATION Spec
CONSTANTS
  Jobs = {j1, j2}
  Documents = {d1}
  Users = {u1}
  Requests = {r1, r2}
  Cards = {"graphic"}
  RowLocks = TRUE
  CommitFails = FALSE
  MaxClock = 0
  MaxVersion = 1
  MaxCrashes = 0
  ForgetAfter = 1
  None = None
INVARIANT NoAttemptOnSigned
CHECK_DEADLOCK FALSE
