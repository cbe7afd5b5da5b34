CONSTANTS
    Here = Here
    Away = Away
    Jobs = {Here, Away}
    RemoteJobs = {Away}
    MaxSnapshots = 1
    MaxAge = 0
    Interval = 2
    Day = 3
    WindowStart = 0
    WindowEnd = 2
    HistoryLimit = 1
    StaleAfter = 1
    Cooldown = 2
    None = None
    MaxOps = 3
    MaxClock = 2
    MaxBackupFaults = 1
    MaxBackupCrashes = 1
    MaxRot = 1
    TreePaths <- TreePathsMC
    ConfigDir = "r"
    ConfigName = "c"
    Contents = {1, 2}
    Modes = {5, 7}
    Private = 7
    Excluded <- ExcludedMC
    MaxTampering = 1
    Credentials = {c1, c2}
    Mangled = Mangled
    NoBinding = NoBinding
    MaxRuns = 2
    MaxRotations = 3
    PathOrder <- PathOrderMC
    Targets <- TargetsMC
    BackupName = "b"
    DavRequests = {q1, q2}
    LockTokens = {k1}
    NoNode = NoNode
    NoLock = NoLock
    NoToken = NoToken
    MaxDavOps = 2
    MaxDavFaults = 1
    MaxApiOps = 1
    MaxGrants = 1
    MaxListings = 1
    DavBudget = 2
SPECIFICATION MCSpec
CONSTRAINT Few
SYMMETRY Symmetry
INVARIANT RestorableKept SettledStatus RestoresTrue EvidenceHonest BoundEvidence DavHonest
PROPERTY ScheduledApart
CHECK_DEADLOCK FALSE
