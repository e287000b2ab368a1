SPECIFICATION FairSpec
CONSTANTS
    plan1 = plan1
    plan2 = plan2
    planner = planner
    Requests = {plan1}
    Roles = {planner}
    Role <- RoleOf
    Foreign = {other1, other2}
    Planner = planner
    None = None
CHECK_DEADLOCK FALSE
PROPERTIES
    ContradictionStays
    NothingLeftBehind
