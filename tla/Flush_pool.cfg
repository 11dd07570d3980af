SPECIFICATION FairSpec
CONSTANTS
    PoolSize = 3
    MaxThreads = 2
    QueueCapacity = 1
    MaxBlocks = 3
    MayIdleOut = TRUE
    MayFail = TRUE
INVARIANTS
    OnePlace
    NoneLost
    ChainIntact
    CountExact
    StopDrainsAlone
PROPERTIES
    StopReturns
    HandOverReturns
    EventuallyFlushed
