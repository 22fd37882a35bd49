SPECIFICATION FairSpec
CONSTANTS
    BufCount = 3
    ItemMax = 2
    Total = 5
INVARIANTS
    TypeOK
    ArenaExclusion
    InOrderDelivery
    FullCountExact
PROPERTIES
    EverythingArrives
    ImplementsQueue
