SPECIFICATION FairSpec
CONSTANTS
    Runs = {run1}
    Native = {}
    Foreign = {hand1}
    PidReuse = TRUE
    LateWrites = TRUE
    None = None
CHECK_DEADLOCK FALSE
INVARIANTS
    SparesOthers
PROPERTIES
    ImplementsBackendLock
    RunEnds
