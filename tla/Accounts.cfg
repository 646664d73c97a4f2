SPECIFICATION FairSpec
CONSTANTS
    Accounts = {u1, u2}
    Names <- MCNames
    Tokens = {t1}
    Requests = {r1, r2}
    Streams = {}
    BootstrapName = "admin"
    BootstrapRow = BootstrapRow
    LowerDb <- MCLower
    LowerPy <- MCLower
    RowLocks = TRUE
    Operations = {"login", "create", "rename", "role", "restart"}
    MaxPassword = 1
    MaxRestarts = 1
    None = None
INVARIANTS
    AccountsInv
PROPERTIES
    AdminRemains
    EveryRequestAnswered
CHECK_DEADLOCK FALSE
