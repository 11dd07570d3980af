SPECIFICATION FairSpec
CONSTANTS
    arraySize = 4
    MaxPush = 7
    c1 = c1
    c2 = c2
    c3 = c3
    Poppers <- OneConsumer
PROPERTIES
    ImplementsFifo
