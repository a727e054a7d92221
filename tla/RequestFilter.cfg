SPECIFICATION Spec
CONSTANTS
    Devices = {d1}
    Places = {p1}
    CallIds = {}
    CSeqs = {}
    SyncCSeqs = {}
    RecoveryTTLs = {}
    Calls = {c1, c2}
    InviteTTLs = {2}
    MessageKeys = {}
    OptionsKeys = {}
    DialogKeys = {b1, b2, b3}
    DuplicateTTL = 2
    DuplicateMax = 2
    MaxClock = 3
    MaxSetBacks = 1
    MaxGrants = 2
    MaxEvents = 2
INVARIANTS
    InviteOncePerAllow
    RecentAccounting
PROPERTIES
    DuplicateSuppressed
