SPECIFICATION Spec
CONSTANTS
    Associations = {"udp", "tcp"}
    TcpAssociations = {"tcp"}
    MaxCalls = 2
    MaxOperations = 2
INVARIANTS
    TypeOK
    LiveReferences
    NothingLeftBehind
    ResponseOnce
PROPERTIES
    
    EndedCallsLeave
CHECK_DEADLOCK FALSE
