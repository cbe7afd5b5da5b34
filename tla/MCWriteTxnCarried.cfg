SPECIFICATION Spec
CONSTANTS
    Writers = {w1, w2}
    Paths = {p1}
    Contents = {a, b}
    Origin = Origin
    Absent = Absent
    NoWriter = NoWriter
    MaxStages = 2
    MaxFaults = 1
    MaxCrashes = 1
    CarriedRename = TRUE
    LostDeleteReply = FALSE
SYMMETRY Symmetry
INVARIANTS
    TypeOK
    VersionsBacked
    OnePending
    SettledState
    AnswersHonest
PROPERTIES
    GateHolds
    ImplementsAtomicWrite
