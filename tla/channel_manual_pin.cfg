SPECIFICATION Spec
CONSTANTS
    Ticks = {t1}
    Users = {u1}
    FreezeAfter = 2
    Serial = TRUE
    FaultKinds = {}
    MaxFaults = 0
INVARIANTS
    ManualPinKept
