SPECIFICATION Spec
CONSTANTS
    SnMod = 18
    WSize = 4
    MaxLost = 1
    StreamLen = 21
INVARIANTS
    TypeOK
    LateIsOld
    HeldWithinWindow
PROPERTIES
    OutInOrder
    NoneSkippedEarly
    HeldComesOut
CHECK_DEADLOCK FALSE
