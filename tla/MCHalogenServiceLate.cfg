SPECIFICATION Spec
CONSTANTS
    Runs = {run1, run2}
    LeaseAge = 1
    LateStarts = TRUE
SYMMETRY RunSymmetry
CHECK_DEADLOCK FALSE
PROPERTIES
    ImplementsEngineLease
