SPECIFICATION FairSpec
CONSTANTS
    Ticks = {t1}
    Users = {}
    FreezeAfter = 2
    Serial = TRUE
    FaultKinds = {"api", "crash", "latency", "systemctl"}
    MaxFaults = 2
PROPERTIES
    RecoversToHy2
    DegradesToSsh
    ServiceComesBack
