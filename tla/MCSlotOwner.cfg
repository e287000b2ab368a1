SPECIFICATION Spec
CONSTANTS
    plan1 = plan1
    plan2 = plan2
    planner = planner
    Requests = {plan1, plan2}
    Roles = {planner}
    Role <- RoleOf
    Foreign = {}
    Planner = planner
    None = None
SYMMETRY Symmetry
CHECK_DEADLOCK FALSE
INVARIANTS
    NoBorrowedSlot
    LeasesAccounted
PROPERTIES
    RevokedSendsNothing
    ImplementsLease
