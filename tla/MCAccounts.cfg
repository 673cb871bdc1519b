SPECIFICATION Spec
CONSTANTS
    None = None
    Emails = {"e1", "e2"}
    RoleIds = {"r1", "r2"}
    Callers = {"s1", "s2"}
    MaxRequests = 3
    MaxUsers = 2
    MaxEntries = 2
    MaxCrashes = 1
INVARIANTS
    TypeOK
    DuplicateEmailExplained
    IncompleteUserExplained
PROPERTY
    WalletFollows
CHECK_DEADLOCK FALSE
