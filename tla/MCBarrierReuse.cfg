SPECIFICATION BarrierFairSpec
CONSTANTS
    Threads = {a, b}
    MaxWaits = 2
PROPERTIES
    EveryReleasedReturns
CHECK_DEADLOCK FALSE
