SPECIFICATION Spec
CONSTANTS
    PoolSize = 2
    MaxThreads = 2
    QueueCapacity = 1
    MaxBlocks = 3
    MayIdleOut = FALSE
    MayFail = FALSE
INVARIANT StopDrains
