SPECIFICATION Spec
CONSTANTS
    Sessions = {s1,s2}
    Chunks = {c1}
    Total = 1
    MaxStaged = 2
    MaxSessions = 2
    NoFile = NoFile
    NoRec = NoRec
    Absent = Absent
    TornRemoval = FALSE
    MaxRev = 9
    MaxDisturbances = 2
    MaxRacingRev = 6
    MaxOther = 1
    MaxFaults = 2
    MaxCrashes = 2
CONSTRAINT FewDisturbances
SYMMETRY Symmetry
INVARIANTS
    CrashLoadable
    AckedKept
    Counted
    OutcomeHonest
PROPERTIES
    UndecidedKept
