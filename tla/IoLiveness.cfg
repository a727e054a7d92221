SPECIFICATION LifecycleSpec
CONSTANTS
    IoCapacity = 5
    WriterCapacity = 2
    MaxAssociations = 1
    MaxReads = 1
    MaxSends = 2
    MaxAppCloses = 1
    Owners = {o1, o2}
    Nobody = Nobody
    Configs <- MCConfigs
    MaxMillis = 2
    MaxStarts = 2
INVARIANTS
    CallbackStateOutlivesShim
    OneRuntime
    NextMayStart
PROPERTIES
    DropEnds
    SendSettlesOrPeerStalls
    ConnectionForgotten
CHECK_DEADLOCK FALSE
