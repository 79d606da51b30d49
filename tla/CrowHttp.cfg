SPECIFICATION CrowFair
CONSTANTS
    k1 = k1
    k2 = k2
    Nobody = Nobody
    Conns <- Both
    TICK = 1
    MaxAsks = 3
    Asked <- Division
INVARIANTS
    DeadlinesOwned
    NoDanglingHandler
    HeldHasCause
    PollsContiguous
PROPERTIES
    IdleClosed
