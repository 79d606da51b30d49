SPECIFICATION FairViewSpec
CONSTANTS
    admin = admin
    henrychao = henrychao
    tata0523 = tata0523
    None = None
    me = henrychao
    Names <- Three
    Parts <- Three
    Path <- Paths
    SeedUsers <- Three
    SeedFriends <- FriendsOfHenry
    SeedHistory <- HenrysHistory
    FirstId = 3
    MaxId = 6
    MaxEvents = 3
VIEW AllButReply
INVARIANTS
    ViewTypeOK
    OneConversationShown
PROPERTIES
    ServerSpec
    OnlyMineUnsent
    SpinnerEnds
