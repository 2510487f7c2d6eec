SPECIFICATION Spec
CONSTANTS
    Ticks = {t1, t2}
    Users = {}
    FreezeAfter = 2
    Serial = FALSE
    FaultKinds = {"write", "api", "stwrite"}
    MaxFaults = 1
SYMMETRY TickSymmetry
INVARIANTS
    FrozenIsCounted
    HotWasCommitted
