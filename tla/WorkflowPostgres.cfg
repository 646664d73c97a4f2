SPECIFICATION Spec
CONSTANTS
  Jobs = {j1, j2}
  Documents = {d1}
  Users = {u1, u2}
  Requests = {r1, r2}
  Cards = {"local"}
  RowLocks = TRUE
  CommitFails = TRUE
  MaxClock = 0
  MaxVersion = 4
  MaxCrashes = 1
  ForgetAfter = 1
  None = None
SYMMETRY Symmetry
INVARIANTS
  TypeOK
  SafetyInv
  OneActiveAttempt
  SignedConsistently
  AttemptsNumbered
PROPERTIES
  SettledIsFinal
  SignedIsFinal
  VersionCountsChanges
  OwnerKeptDuringAttempt
  ImplementsLifecycle
CHECK_DEADLOCK FALSE
