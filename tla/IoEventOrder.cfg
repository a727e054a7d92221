SPECIFICATION Spec
CONSTANTS
    IoCapacity = 2
    WriterCapacity = 2
    MaxAssociations = 1
    MaxReads = 2
    MaxSends = 0
    MaxAppCloses = 0
PROPERTIES
    ClosedEventIsLast
CHECK_DEADLOCK FALSE
