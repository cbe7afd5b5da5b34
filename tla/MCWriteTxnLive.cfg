SPECIFICATION LiveSpec
CONSTANTS
    Writers = {w1, w2}
    Paths = {p1}
    Contents = {a}
    Origin = Origin
    Absent = Absent
    NoWriter = NoWriter
    MaxStages = 2
    MaxFaults = 1
    MaxCrashes = 1
    CarriedRename = TRUE
    LostDeleteReply = FALSE
PROPERTIES
    RequestsEnd
    RecoveryEnds
