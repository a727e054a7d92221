SPECIFICATION Spec
CONSTANTS
    Devices = {d1}
    Places = {p1}
    CallIds = {k1}
    CSeqs = {1, 2}
    SyncCSeqs = {}
    RecoveryTTLs = {1, 2}
    Calls = {}
    InviteTTLs = {1}
    MessageKeys = {m1}
    OptionsKeys = {o1}
    DialogKeys = {}
    DuplicateTTL = 4
    DuplicateMax = 2
    MaxClock = 3
    MaxSetBacks = 0
    MaxGrants = 1
    MaxEvents = 1
PROPERTIES
    RollbackRejected
