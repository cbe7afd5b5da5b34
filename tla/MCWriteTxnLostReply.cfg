SPECIFICATION Spec
CONSTANTS
    Writers = {w1}
    Paths = {p1}
    Contents = {a, b}
    Origin = Origin
    Absent = Absent
    NoWriter = NoWriter
    MaxStages = 1
    MaxFaults = 1
    MaxCrashes = 0
    CarriedRename = TRUE
    LostDeleteReply = TRUE
INVARIANTS
    VersionsBacked
