SPECIFICATION Spec
CONSTANTS
    IoCapacity = 1
    WriterCapacity = 2
    MaxAssociations = 0
    MaxReads = 2
    MaxSends = 2
    MaxAppCloses = 0
INVARIANTS
    ResultOnItsWay
CHECK_DEADLOCK FALSE
