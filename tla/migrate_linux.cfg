SPECIFICATION Spec
CONSTANTS
    MaxRuns = 2
    MaxReboots = 1
    MaxStops = 1
INVARIANTS
    TypeOK
    WayBack
PROPERTIES
    ServedAgain
    NewServiceWins
CHECK_DEADLOCK FALSE
