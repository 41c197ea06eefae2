SPECIFICATION FairSpec
CONSTANTS
    Calls = {c1, c2, c3}
    Worker = Worker
    Configs <- MCConfigs
CHECK_DEADLOCK FALSE
INVARIANTS
    TypeOK
    ExitCodes
    AcceptedIsAnswered
PROPERTIES
    StopsWhenTold
    CallsGetConnections
