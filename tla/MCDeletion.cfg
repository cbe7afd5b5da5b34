SPECIFICATION MCSpec
CONSTANTS
    Ids = {i1, i2}
    Paths = {p1, p2}
    Trees = {t1, t2}
    ShareIds = {s1}
    NoTree = NoTree
    NoShare = NoShare
    NoPlan = NoPlan
    Stage = Stage
    TornReplica = FALSE
    MaxEdits = 1
    MaxFaults = 1
    MaxCrashes = 2
    MaxJobs = 4
    MaxDisturbances = 2
    Foci = {"trash", "permanent", "token"}
    Things = {o1, o2}
    Texts = {bare, text}
    Bare = bare
    NoThing = NoThing
    NoText = NoText
    MaxOutside = 2
    MaxServed = 2
    MaxSlips = 2
    Labels = {1, 2}
    MaxTreeChanges = 1
CONSTRAINTS
    FewDisturbances
    LongWhenPlain
    FewMeddlers
SYMMETRY Symmetry
INVARIANTS
    NeverLost
    Recoverable
    Settled
    RowsBacked
    ConfirmedDeletion
PROPERTIES
    ShareGivenBack
