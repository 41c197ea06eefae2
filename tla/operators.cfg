SPECIFICATION OperatorFairSpec
CONSTANTS
    Events = {e1}
    Endpoints = {p1}
    Workers = {w1, w2}
    NoDelivery = NoDelivery
    TimelyWorkers = TRUE
    HttpStatuses <- YesOrNo
    MaxAttemptsLimit = 2
    BatchSize = 1
    StaleAfter = 2
    BaseBackoff = 1
    MaxBackoff = 1
    CircuitThreshold = 2
    CircuitCooldown = 1
    MaxFaults = 1
    MaxSends = 5
    MaxEdits = 1
INVARIANTS
    RequestsBoundedByEdits
PROPERTIES
    FinishedStays
    EventuallySettled
