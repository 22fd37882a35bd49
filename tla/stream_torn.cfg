SPECIFICATION FairSpec
CONSTANTS
    HeaderLen = 2
    BodyLen = 2
    Capacity = 7
    MaxPackets = 4
    MaxConns = 2
    MaxTorn = 1
INVARIANTS
    TypeOK
    InStep
PROPERTIES
    OnlyTornSpliced
    NewConnectionServed
    ShutdownStopsBoth
