SPECIFICATION GatewaySpec
CONSTANTS
    Requests = {r1, r2}
    Concurrency = 1
    QueueLimit = 1
    HealthCalls = {h1}
    LeaseSeconds = 2
    ProbeSeconds = 1
    BootAge = 0
SYMMETRY GatewaySymmetry
CHECK_DEADLOCK FALSE
INVARIANTS
    ErrorEndsLease
