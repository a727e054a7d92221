SPECIFICATION FairSpec
CONSTANTS
    Devices = {d1}
    CallIds = {k1}
    CSeqs = {1}
    Expires = {1}
    Cnonces = {c1, c2}
    NonceCounts = {1}
    Results = {"credential"}
    MaxPendingAuth = 2
    AuthLookupTimeout = 1
    NonceTTL = 1
    MaxUsages = 1
    CleanupInterval = 1
    MaxRequests = 3
    MaxNonces = 1
    MaxCommands = 1
    MaxClock = 2
    MaxSetBacks = 1
INVARIANTS
    AcceptedWithReason
    DigestUsedOnce
    NonceLiveWhenCounted
    UsagesBounded
PROPERTIES
    EveryRegisterSettles
