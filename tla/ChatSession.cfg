SPECIFICATION SessionFair
CONSTANTS
    t1 = t1
    t2 = t2
    admin = admin
    newcomer = newcomer
    None = None
    Tabs <- TwoTabs
    Users <- TwoUsers
    SeedUsers <- OneSeed
    HOUR = 1
    MaxEvents = 5
INVARIANTS
    StoreFollows
PROPERTIES
    KeepsAccount
    Forgotten
