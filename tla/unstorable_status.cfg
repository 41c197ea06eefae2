SPECIFICATION FairSpec
CONSTANTS
    Events = {e1}
    Endpoints = {p1}
    Workers = {w1}
    NoDelivery = NoDelivery
    TimelyWorkers = FALSE
    HttpStatuses <- AnswersWithUnstorable
    MaxAttemptsLimit = 2
    BatchSize = 1
    StaleAfter = 2
    BaseBackoff = 1
    MaxBackoff = 1
    CircuitThreshold = 2
    CircuitCooldown = 2
    MaxFaults = 0
    MaxSends = 4
INVARIANTS
    RequestsWithinLimit
