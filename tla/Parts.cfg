SPECIFICATION MCPartsSpec
CONSTANTS
    LockThreads = {t1, t2, t3}
    NoThread = NoThread
    Readers = {r1, r2, r3}
    UseTries = 10
    MaxGets = 4
    NoData = NoData
    NodeSize = 3
    NodeIds = {1, 2, 3, 4}
    ChunkSizes = {1, 2}
    MaxAllocs = 6
    MaxRedoRecords = 2
    MaxFinishFails = 1
    NoFile = NoFile
    Offsets = {1, 3}
    TimeOf <- MCTimeOf
    SeekKeys = {0, 2, 3}
    MaxSeekBlocks = 3
    MaxSeekRecords = 3
CHECK_DEADLOCK FALSE
INVARIANTS
    LockExclusive
    CountCoversUsers
    LiveKept DiesOfBacklog AllReclaimed
    SeekNearest SeekMissesNone UsesReturned
    RedoHoldsRun
PROPERTIES
    QueuedGetsLock
    KeepsData WaitEnds
