SPECIFICATION FairSpec
CONSTANTS
    BufCount = 3
    ItemMax = 2
    FailThreshold = 2
    TimeoutThreshold = 20
    InsertStop = 100
    MaxPackets = 1
    MaxReconnects = 0
PROPERTIES
    PgStops
