SPECIFICATION Spec
CONSTANTS
    MaxRecords = 3
    MaxBlocks = 3
    FlagSets = {{}}
CHECK_DEADLOCK FALSE
INVARIANT ReadsEveryRecord
