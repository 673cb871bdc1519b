SPECIFICATION Spec
CONSTANTS
    Drivers = {d1, d2}
    Orders = {o1}
    MaxOffers = 4
    MaxReplies = 2
INVARIANTS
    TypeOK
    OnlyTwinsAreOrphaned
    SettledEntryIsLeaving
    EarlyTimeoutHasCulprit
    SoleOfferEndsByItsTimer
PROPERTY
    SoleOfferSettles
CHECK_DEADLOCK FALSE
