SPECIFICATION Spec
CONSTANTS
    admin = admin
    henrychao = henrychao
    tata0523 = tata0523
    newcomer = newcomer
    Names <- Trio
    Parts <- TheParts
    Path <- Paths
    SeedUsers <- Seeded
    SeedFriends <- MutualFriends
    SeedHistory <- NoMessages
    FirstId = 1
    MaxId = 1
VIEW store
PROPERTIES
    FailureIsPrivate
    CallersOnly
