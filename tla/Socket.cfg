SPECIFICATION SocketFair
CONSTANTS
    c1 = c1
    c2 = c2
    f1 = f1
    f2 = f2
    None = None
    Clients <- FirstTwo
    Builds <- Either
    Names = {"a", "b"}
    Files <- TheFiles
    Unopenable <- Refused
    Remote <- FarAway
    FirstFd = 4
    ROTATE_SIZE = 6
    SLOTS = 2
    Sizes = {0, 3}
    MaxAsks = 4
    Mortal <- Frail
INVARIANTS
    UniqueNames
    TransfersWhole
    ExitHasCause
PROPERTIES
    Answered
CHECK_DEADLOCK FALSE
