SPECIFICATION Spec
CONSTANTS
    m1 = m1
    m2 = m2
    atM1 = atM1
    atM2 = atM2
    noCoordinate = noCoordinate
    NoPlace = NoPlace
    Drivers = {1, 2}
    Merchants = {m1, m2}
    Places = {atM1, atM2, noCoordinate}
    Unusable = {noCoordinate}
    Within <- MCWithin
    Searches = {s1}
INVARIANT
    EveryNearDriverReturned
CHECK_DEADLOCK FALSE
