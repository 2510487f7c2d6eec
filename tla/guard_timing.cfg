SPECIFICATION Spec
CONSTANTS
    FreezeAfter = 2
    BackoffBase = 60
    BackoffCap = 180
    Delays = {0, 1}
INVARIANTS
    TypeOK
    RecoveryNoticed
    FreezesInTime
    AlertsKeepComing
