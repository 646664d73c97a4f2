SPECIFICATION Spec
CONSTANTS
    Accounts = {u1}
    Names <- MCNames
    Tokens = {t1, t2, t3}
    Requests = {r1, r2}
    Streams = {}
    BootstrapName = "admin"
    BootstrapRow = BootstrapRow
    LowerDb <- MCLower
    LowerPy <- MCLower
    RowLocks = TRUE
    Operations = {"login", "password"}
    MaxPassword = 2
    MaxRestarts = 0
    None = None
INVARIANTS
    SessionsFollowPassword
CHECK_DEADLOCK FALSE
