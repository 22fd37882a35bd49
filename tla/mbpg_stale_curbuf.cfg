SPECIFICATION FairSpec
CONSTANTS
    BufCount = 3
    ItemMax = 2
    FailThreshold = 2
    TimeoutThreshold = 2
    InsertStop = 100
    MaxPackets = 7
    MaxReconnects = 1
INVARIANTS
    NoSilentLoss
