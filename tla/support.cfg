SPECIFICATION Spec
CONSTANTS
    ScratchCount = 2
    Cap = 3
    MaxDepth = 2
    MaxPush = 1
    ThreadCount = 2
    MaxLogs = 1
    MaxFrames = 3
    MaxFaults = 1
    WorkerCount = 2
    Instants <- BoundaryInstants
    Timeouts = {1, 500000000, 999999999, 1000000000, 1100000000}
    LastStart = 0
    RecvTimeout = 500000000
    DataSize = 3
    MaxBytes = 6
    MaxSamples = 4
    Intervals = {1, 2, 3}
    MaxAdded = 8
    MaxPacketsPerCall = 2
    MaxTime = 6
    MaxNodes = 5
    NestingLimit = 2
    CircularLimit = 2
CHECK_DEADLOCK FALSE
INVARIANTS
    TypeOK
    MemoryIntact
    WholeMessages
    TimesExact
    RingsInOrder
    RunsAccountForZeros
    TreeIntact
PROPERTIES
    SignalRequestsShutdown
    StopsComplete
