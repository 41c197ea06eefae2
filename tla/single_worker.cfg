SPECIFICATION Spec
CONSTANTS
    Events = {e1}
    Endpoints = {p1, p2}
    Workers = {w1}
    NoDelivery = NoDelivery
    TimelyWorkers = FALSE
    HttpStatuses <- Answers
    MaxAttemptsLimit = 3
    BatchSize = 2
    StaleAfter = 2
    BaseBackoff = 1
    MaxBackoff = 3
    CircuitThreshold = 2
    CircuitCooldown = 2
    MaxFaults = 1
    MaxSends = 5
SYMMETRY IdSymmetry
INVARIANTS
    TypeOK
    ClaimExclusive
    AttemptLimit
    StampsMatchStatus
    RequestsAccounted
    AcknowledgedIsRecorded
    DeliveredWasAcknowledged
PROPERTIES
    TerminalStable
    RetryBackoff
