SPECIFICATION Spec
CONSTANTS
    Slots = {0, 1, 2}
    MaxCalls = 3
    Ids = {a}
    MaxQueued = 2
    MaxKills = 1
INVARIANTS
    TypeOK
    OneWriter
    NoDanglingCommand
    NothingLeftBehind
PROPERTIES
    OwnAnswer
    CallsReturn
    DeferredIsPushed
CHECK_DEADLOCK FALSE
