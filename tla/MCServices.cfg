SPECIFICATION MCSpec
CONSTANTS
    Foci = {"auth", "admin", "tickets", "guesses", "cas", "chunks"}
    Callers = {r1, r2}
    Accounts = {u1}
    SessionIds = {s1}
    AuthCalls = {r1, r2}
    NoSession = NoSession
    AccessTTL = 1
    RefreshTTL = 2
    RotationInterval = 1
    LeaseTime = 2
    LeaseLead = 1
    SessionLimit = 1
    UserSessionLimit = 1
    MaxTime = 2
    MaxSetbacks = 1
    MaxAuthFaults = 1
    MaxAuthCrashes = 1
    MaxVersion = 2
    MaxAuthOps = 4
    Usernames = {admin, ann}
    BootName = admin
    NoUser = NoUser
    NoFile = NoFile
    MaxPasswords = 3
    MaxAdminFaults = 1
    MaxAdminCrashes = 2
    Visitors = {v1, v2}
    TicketCalls = {r1, r2}
    NoShare = NoShare
    SharePaths = {"a", "b"}
    FirstPath = "a"
    TicketTTL = 2
    TicketGate = 2
    FailureLimit = 2
    FailureWindow = 3
    LockDuration = 2
    AttemptCapacity = 1
    CheckGate = 1
    MaxTicketTime = 4
    MaxChanges = 3
    MaxTickets = 1
    MaxTries = 4
    MaxShareFaults = 1
    MaxShareCrashes = 1
    CasCalls = {r1, r2}
    NobodyHolds = NobodyHolds
    Hashes = {1, 2, 3}
    Compressible = {1}
    FileLayouts <- FileLayoutsMC
    ListLimit = 1
    CasWord = 16
    MaxCasOps = 3
    MaxCasFaults = 1
    MaxCasCuts = 1
    MaxCasRestarts = 1
    MaxCasDamage = 1
    MinChunk = 2
    MaxChunk = 3
    StreamLength = 9
CONSTRAINT Few
SYMMETRY Symmetry
INVARIANTS
    AccountsHonest
    TicketsHonest
    DataplaneHonest
CHECK_DEADLOCK FALSE
