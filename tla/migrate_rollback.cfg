SPECIFICATION Spec
CONSTANTS
    MaxRuns = 2
    MaxReboots = 1
    MaxStops = 1
INVARIANT
    RollbackRestores
CHECK_DEADLOCK FALSE
