SPECIFICATION FairSpec
CONSTANTS
    Keys = {k1}
    Topics = {t1, t2}
    Endpoints = {p1}
    Calls = {c1, c2}
    None = None
    MaxFaults = 1
INVARIANTS
    TypeOK
    RepliesAreTrue
    NoneDangling
PROPERTIES
    FanOutOfOneMoment
    StoredOnce
    EventStoreImplemented
