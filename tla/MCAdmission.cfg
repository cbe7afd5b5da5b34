SPECIFICATION MCSpec
CONSTANTS
    Writers = {w1, w2, w3}
    Limit = 4
    Chunks = {2, 3}
    OldSizes = {0, 3}
    Disk = 7
    MinFree = 1
    MaxOther = 1
    MaxFaults = 2
    MaxRestarts = 2
    Word = 16
    QuotaFiles <- QuotaFilesMC
    QuotaTrees <- QuotaTreesMC
    QuotaScopes <- QuotaScopesMC
    ScopeLimit <- ScopeLimitMC
    FirstSizes <- FirstSizesMC
    QuotaCalls = {w1, w2}
    NoCall = NoCall
    NoFile = NoFile
    MaxFileBytes = 2
    GrowthChunk = 2
    MaxQuotaOps = 2
    MaxQuotaDeletes = 1
    MaxQuotaFaults = 1
    MaxProbeStarts = 2
    MaxProbeFaults = 1
    MaxStrangers = 1
CONSTRAINT Few
SYMMETRY Symmetry
INVARIANTS
    Accounted
    StageCovered
    FloorKept
    QuotaHeld
    ProbeRecovers
