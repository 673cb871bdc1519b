SPECIFICATION MatchingSpec
CONSTANTS
    Drivers = {d1}
    Orders = {o1, o2}
    MaxOffers = 2
    MaxReplies = 1
    Prefetch = 2
    MaxRequests = 2
    MaxRuns = 2
    MaxFailures = 1
INVARIANT
    TimerEndsEveryWait
CHECK_DEADLOCK FALSE
