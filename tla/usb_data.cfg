SPECIFICATION MCSpec
CONSTANTS
    MaxTrgg = 2
    TxUrbs = 8
    Low = 2
    High = 6
    RxUrbs = 3
    QMax = 3
    MaxParked = 3
INVARIANTS
    TypeOK
    PostedIsSeen
    StoppedForAReason
    ReceptionGoesOn
    ReceivedIsSeen
PROPERTIES
    QueuesWake
    RemovalEnds
CHECK_DEADLOCK FALSE
