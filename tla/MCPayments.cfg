SPECIFICATION Spec
CONSTANTS
    NoRow = NoRow
    None = None
    Orders = {o1}
    Callers = {c1, c2, c3}
    MaxCrashes = 1
SYMMETRY CallerSymmetry
INVARIANTS
    TypeOK
    PaymentUrlBacked
    TransactionHasOrder
    LastReportStored
PROPERTY
    StatusComesFromReport
CHECK_DEADLOCK FALSE
