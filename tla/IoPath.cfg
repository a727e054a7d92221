SPECIFICATION Spec
CONSTANTS
    IoCapacity = 2
    WriterCapacity = 2
    MaxAssociations = 2
    MaxReads = 2
    MaxSends = 2
    MaxAppCloses = 1
INVARIANTS
    TypeOK
    SettledExactlyOnce
    PendingOnLiveTransport
    CloseIsFinal
PROPERTIES
    WrittenInOrder
CHECK_DEADLOCK FALSE
