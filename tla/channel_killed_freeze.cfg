SPECIFICATION Spec
CONSTANTS
    Ticks = {t1}
    Users = {}
    FreezeAfter = 2
    Serial = TRUE
    FaultKinds = {"kill"}
    MaxFaults = 1
INVARIANTS
    AccountedBeforeActing
