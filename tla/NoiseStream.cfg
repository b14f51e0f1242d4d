SPECIFICATION Spec
CONSTANTS
    Base = 3
    TagLen = 2
    Capacity = 5
    MaxBuf = 7
    MaxBytes = 8
INVARIANTS
    StreamIntact
    NeverGarbled
PROPERTY
    OfferedArrives
CHECK_DEADLOCK FALSE
