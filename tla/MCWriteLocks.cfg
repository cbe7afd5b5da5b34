SPECIFICATION MCSpec
CONSTANTS
    Foci = {"write", "locks"}
    Requests = {r1, r2}
    Loops = {l1, l2}
    Nobody = Nobody
    Writers = {w1}
    Paths = {p1}
    Contents = {a, b}
    Origin = Origin
    Absent = Absent
    NoWriter = NoWriter
    MaxStages = 1
    MaxFaults = 2
    MaxCrashes = 3
    CarriedRename = FALSE
    LostDeleteReply = FALSE
SYMMETRY LockSymmetry
INVARIANTS
    OldContentSafe
    NewContentSafe
    JournalClassifies
    NeverKnotted
    StorageOrderly
