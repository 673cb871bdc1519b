SPECIFICATION Spec
CONSTANTS
    NoRow = NoRow
    None = None
    Drivers = {"d1", "d2"}
    Orders = {"o1"}
    DriverStatuses = {"pickup"}
    Callers = {c1}
    MaxCompletions = 1
    MaxCrashes = 1
INVARIANT
    CompletionReachesAll
CHECK_DEADLOCK FALSE
