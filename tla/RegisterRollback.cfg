SPECIFICATION Spec
CONSTANTS
    Devices = {d1}
    CallIds = {k1}
    CSeqs = {1, 2}
    Expires = {0, 1}
    Cnonces = {}
    NonceCounts = {1}
    Results = {"bypass"}
    MaxPendingAuth = 3
    AuthLookupTimeout = 1
    NonceTTL = 2
    MaxUsages = 1
    CleanupInterval = 1
    MaxRequests = 3
    MaxNonces = 1
    MaxCommands = 1
    MaxClock = 2
    MaxSetBacks = 0
PROPERTIES
    NoCSeqRollback
