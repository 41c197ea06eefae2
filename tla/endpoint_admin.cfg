SPECIFICATION Spec
CONSTANTS
    Ids = {p1, p2}
    Calls = {c1, c2}
    None = None
    Deleted = Deleted
    Sent <- Values
    UsableUrls <- MCUsableUrls
    MaxNamed = 1
    MaxFaults = 1
SYMMETRY IdSymmetry
INVARIANTS
    TypeOK
PROPERTIES
    ColumnsChangeByName
    UpdateRepliesAreTrue
    GoneForGood
