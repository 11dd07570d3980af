SPECIFICATION Spec
CONSTANTS
    MaxRecords = 5
    RowsPerEvent = 2
    MaxBlocks = 4
    BlockCapacity = 2
    FlushThreads = 2
    MaxCrashes = 2
CHECK_DEADLOCK FALSE
INVARIANTS
    StoredInOrder
    IdsDisjoint
    NothingSkipped
    LoadsWhatOneThreadWrote
PROPERTY FilesImmutable
