SPECIFICATION Spec
CONSTANTS
    Events = {e1, e2}
    Endpoints = {p1}
    Workers = {w1, w2}
    NoDelivery = NoDelivery
    TimelyWorkers = FALSE
    HttpStatuses <- YesOrNo
    MaxAttemptsLimit = 2
    BatchSize = 1
    StaleAfter = 1
    BaseBackoff = 1
    MaxBackoff = 1
    CircuitThreshold = 2
    CircuitCooldown = 2
    MaxFaults = 0
    MaxSends = 0
SYMMETRY IdSymmetry
CONSTRAINT FewAttempts
INVARIANTS
    BreakerConsistent
    DeliveredWasAcknowledged
PROPERTIES
    CircuitTransitions
