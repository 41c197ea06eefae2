SPECIFICATION Spec
CONSTANTS
    Listings <- SoundListings
    Ids = {1, 2, 3}
    Times <- StampsOrNone
    AskedLimits = {0, 2, 3}
    DefaultLimit = 1
    MaxLimit = 2
INVARIANTS
    TypeOK
    NoneTwice
    NoneMissed
PROPERTIES
    WalkEnds
CHECK_DEADLOCK FALSE
