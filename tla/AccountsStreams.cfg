SPECIFICATION FairSpec
CONSTANTS
    Accounts = {u1, u2}
    Names <- MCNames
    Tokens = {t1}
    Requests = {r1}
    Streams = {s1}
    BootstrapName = "admin"
    BootstrapRow = BootstrapRow
    LowerDb <- MCLower
    LowerPy <- MCLower
    RowLocks = TRUE
    Operations = {"login", "logout", "cli", "create", "password", "reset", "role", "disconnect"}
    MaxPassword = 2
    MaxRestarts = 0
    None = None
PROPERTIES
    StreamsEnd
CHECK_DEADLOCK FALSE
