SPECIFICATION FairSpec
CONSTANTS
    Runs = {run1}
    LeaseAge = 2
    LateStarts = TRUE
CHECK_DEADLOCK FALSE
PROPERTIES
    OrphanStops
    GuardLossStops
    DeathNoticed
    CleanupEnds
