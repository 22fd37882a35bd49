SPECIFICATION FairSpec
CONSTANTS
    GroupCount = 2
    ThreadCount = 3
    SetupFails = {1, 2}
    MayReturn = {1, 2, 3}
    MaxSetupFaults = 1
    MaxCreateFaults = 1
INVARIANTS
    TypeOK
    NoContextInUseFreed
    WaitIsComplete
    ManagerOutlivesMonitors
PROPERTIES
    ShutdownEndsProcess
    CompletionEndsProcess
