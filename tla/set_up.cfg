SPECIFICATION Spec
CONSTANTS
    MaxHandlers = 2
    BufCounts = {0, 2}
    BufSizes = {0, 7}
    MaxSensors = 2
    ColumnLens <- MixedLens
    GarbageRows = {0, 5}
    SizeModulus = 16
CHECK_DEADLOCK FALSE
INVARIANTS
    TypeOK
    ManagerComplete
    
    PrepareReleases
    GeometryFits
