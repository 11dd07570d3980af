SPECIFICATION Spec
CONSTANTS
    MaxRecords = 4
    RowsPerEvent = 1
    MaxBlocks = 4
    BlockCapacity = 2
    FlushThreads = 2
    MaxCrashes = 1
INVARIANTS
    LoadSucceeds
CHECK_DEADLOCK FALSE
