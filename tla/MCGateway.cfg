SPECIFICATION ShutdownSpec
CONSTANTS
    Requests = {r1, r2, r3}
    Concurrency = 1
    QueueLimit = 1
    HealthCalls = {h1}
    LeaseSeconds = 2
    ProbeSeconds = 1
    BootAge = 2
CHECK_DEADLOCK FALSE
PROPERTIES
    PostsOnEvidence
    ImplementsSlots
    ShutdownCompletes
    EveryRequestEnds
