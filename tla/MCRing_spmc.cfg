SPECIFICATION FairSpec
CONSTANTS
    arraySize = 4
    MaxPush = 6
    c1 = c1
    c2 = c2
    c3 = c3
    Poppers <- TwoConsumers
CHECK_DEADLOCK FALSE
INVARIANTS
    TypeOK
    OccupancyExact
    PendingIntact
    InOrderUnlessLapped
PROPERTIES
    EventuallyDelivered
