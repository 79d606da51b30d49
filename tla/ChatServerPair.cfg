SPECIFICATION Spec
CONSTANTS
    admin = admin
    henrychao = henrychao
    tata0523 = tata0523
    newcomer = newcomer
    Names <- Pair
    Parts <- TheParts
    Path <- Paths
    SeedUsers <- Seeded
    SeedFriends <- MutualFriends
    SeedHistory <- PairHistory
    FirstId = 3
    MaxId = 5
VIEW store
INVARIANTS
    TypeOK
    OneMessagePerId
    Chronological
    NoGaps
    NoOrphanFile
PROPERTIES
    UnsendIsComplete
