SPECIFICATION Spec
CONSTANTS
    arraySize = 2
    MaxPush = 4
    c1 = c1
    c2 = c2
    c3 = c3
    Poppers <- TwoConsumers
CHECK_DEADLOCK FALSE
INVARIANT ExactlyOnce
