SPECIFICATION FairSpec
CONSTANTS
    Events = {e1, e2}
    Endpoints = {p1}
    Workers = {w1}
    NoDelivery = NoDelivery
    TimelyWorkers = FALSE
    HttpStatuses <- Answers
    MaxAttemptsLimit = 2
    BatchSize = 1
    StaleAfter = 2
    BaseBackoff = 1
    MaxBackoff = 1
    CircuitThreshold = 2
    CircuitCooldown = 2
    MaxFaults = 1
    MaxSends = 0
PROPERTIES
    EventuallySettled
    OrphansRecovered
    Lifecycle
