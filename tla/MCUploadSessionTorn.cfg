SPECIFICATION Spec
CONSTANTS
    Sessions = {s1}
    Chunks = {c1}
    Total = 1
    MaxStaged = 1
    MaxSessions = 2
    NoFile = NoFile
    NoRec = NoRec
    Absent = Absent
    TornRemoval = TRUE
    MaxRev = 9
    MaxDisturbances = 2
    MaxRacingRev = 6
    MaxOther = 0
    MaxFaults = 0
    MaxCrashes = 1
CONSTRAINT FewDisturbances
INVARIANT CrashLoadable
