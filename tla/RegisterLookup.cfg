SPECIFICATION Spec
CONSTANTS
    Devices = {d1, d2}
    CallIds = {k1}
    CSeqs = {1, 2}
    Expires = {0, 1}
    Cnonces = {}
    NonceCounts = {1}
    Results = {"bypass"}
    MaxPendingAuth = 2
    AuthLookupTimeout = 1
    NonceTTL = 2
    MaxUsages = 1
    CleanupInterval = 1
    MaxRequests = 3
    MaxNonces = 1
    MaxCommands = 1
    MaxClock = 3
    MaxSetBacks = 0
SYMMETRY DeviceSymmetry
INVARIANTS
    TypeOK
    PendingAccounting
    LookupIsolation
PROPERTIES
    FinalOnce
    AnswerBeatsTimeout
    OrderNeverGoesBack
