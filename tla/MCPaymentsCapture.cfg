SPECIFICATION Spec
CONSTANTS
    NoRow = NoRow
    None = None
    Orders = {o1}
    Callers = {c1}
    MaxCrashes = 1
PROPERTY
    CaptureStartsMatching
CHECK_DEADLOCK FALSE
