SPECIFICATION Spec
CONSTANTS
    Listings = {"ListEvents"}
    Ids = {1, 2, 3}
    Times = {1, 2}
    AskedLimits = {0, 2, 3}
    DefaultLimit = 1
    MaxLimit = 2
INVARIANTS
    NoneTwice
CHECK_DEADLOCK FALSE
