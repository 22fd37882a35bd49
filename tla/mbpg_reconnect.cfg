SPECIFICATION EndFairSpec
CONSTANTS
    BufCount = 3
    ItemMax = 2
    FailThreshold = 2
    TimeoutThreshold = 2
    InsertStop = 5
    MaxPackets = 7
    MaxReconnects = 1
    MaxInserts = 8
    Storable = {0, 1, 2}
INVARIANTS
    EndTypeOK
    DatabaseFaithful
    RoomForPacket
    OnlyKnownLost
PROPERTIES
    WriterServed
    MbStops
