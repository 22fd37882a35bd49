SPECIFICATION Spec
CONSTANTS
    MaxCalls = 3
    ItemCounts = {0, 2, 5}
    FieldCount = 2
    RowSize = 8
    ScratchSize = 40
CHECK_DEADLOCK FALSE
INVARIANTS
    TypeOK
    AnswerMatchesTable
    SessionIdleBetweenCalls
