SPECIFICATION Spec
CONSTANTS
    Ids = {i1, i2}
    Paths = {p1, p2}
    Trees = {t1, t2}
    ShareIds = {s1}
    NoTree = NoTree
    NoShare = NoShare
    NoPlan = NoPlan
    Stage = Stage
    TornReplica = TRUE
    MaxEdits = 1
    MaxFaults = 1
    MaxCrashes = 1
    MaxJobs = 2
    MaxDisturbances = 2
CONSTRAINTS
    FewDisturbances
    LongWhenPlain
SYMMETRY Symmetry
INVARIANT Recoverable
