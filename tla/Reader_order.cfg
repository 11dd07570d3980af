SPECIFICATION FairSpec
CONSTANTS
    MaxRecords = 5
    MaxBlocks = 4
    FlagSets = {{}, {0, 2}}
CHECK_DEADLOCK FALSE
INVARIANT KeysIncrease
PROPERTY CatchesUp
