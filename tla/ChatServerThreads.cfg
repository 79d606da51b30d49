SPECIFICATION FairLoads
CONSTANTS
    henrychao = henrychao
    tata0523 = tata0523
    newcomer = newcomer
    w1 = w1
    w2 = w2
    Names <- Three
    Parts <- ThePair
    Path <- Paths
    Workers <- Threads
    Requests <- AnyRequest
    Loads <- TwoLoads
    SeedAccounts <- Pair
    SeedLists <- PairLists
    FirstId = 3
    MaxStarted = 3
INVARIANTS
    OneMessagePerId
    NoDuplicates
    SendsDelivered
PROPERTIES
    PartiesOnly
    RequestsEnd
