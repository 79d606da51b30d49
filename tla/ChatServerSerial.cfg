SPECIFICATION SerialSpec
CONSTANTS
    henrychao = henrychao
    tata0523 = tata0523
    newcomer = newcomer
    w1 = w1
    w2 = w2
    Names <- Three
    Parts <- ThePair
    Path <- Paths
    Workers <- OneThread
    Requests <- AllRequests
    SeedAccounts <- Pair
    SeedLists <- PairLists
    FirstId = 3
    MaxStarted = 4
    MaxId = 7
INVARIANTS
    TablesAgree
PROPERTIES
    ServerRequests
