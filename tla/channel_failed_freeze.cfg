SPECIFICATION FairSpec
CONSTANTS
    Ticks = {t1}
    Users = {}
    FreezeAfter = 2
    Serial = TRUE
    FaultKinds = {"write", "latency"}
    MaxFaults = 2
PROPERTIES
    DegradesToSsh
