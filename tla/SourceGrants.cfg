SPECIFICATION Spec
CONSTANTS
    Devices = {d1, d2}
    Places = {p1, p2}
    CallIds = {k1}
    CSeqs = {1}
    SyncCSeqs = {1}
    RecoveryTTLs = {1, 2}
    Calls = {}
    InviteTTLs = {1}
    MessageKeys = {m1}
    OptionsKeys = {o1}
    DialogKeys = {}
    DuplicateTTL = 4
    DuplicateMax = 2
    MaxClock = 3
    MaxSetBacks = 0
    MaxGrants = 2
    MaxEvents = 1
INVARIANTS
    TypeOK
PROPERTIES
    GateKeepsPromise
    OrderKeptWhileRegistered
