SPECIFICATION Spec
CONSTANTS
    Ticks = {t1}
    Users = {u1}
    FreezeAfter = 2
    Serial = TRUE
    FaultKinds = {"write", "enospc", "api", "systemctl", "crash", "kill", "stwrite", "latency"}
    MaxFaults = 2
INVARIANTS
    TypeOK
    FreezeIsAccounted
    QuiescentAgreement
    ConfigSurvives
    HealNeverOverridesPin
    FreezeNeedsStreak
PROPERTIES
    DetectorSpec
