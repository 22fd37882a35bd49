SPECIFICATION FairSpec
CONSTANTS
    BufCount = 2
    ItemMax = 2
    Total = 5
INVARIANTS
    ArenaExclusion
