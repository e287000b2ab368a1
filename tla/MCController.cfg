SPECIFICATION Spec
CONSTANTS
    Runs = {run1, run2}
    Native = {run2}
    Foreign = {}
    PidReuse = TRUE
    LateWrites = FALSE
    None = None
CHECK_DEADLOCK FALSE
PROPERTIES
    ImplementsRunRecord
    
