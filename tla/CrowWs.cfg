SPECIFICATION WsFair
CONSTANTS
    k1 = k1
    k2 = k2
    Conns <- Both
    Does <- Division
    Misread <- OutOfStep
    MaxSends = 2
    Loads = {2}
INVARIANTS
    NothingDangles
    WholeMessages
    InOrder
PROPERTIES
    CloseAnswered
CHECK_DEADLOCK FALSE
