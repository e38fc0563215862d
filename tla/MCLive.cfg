SPECIFICATION MCSpec
CONSTANTS
    c1 = c1
    t1 = t1
    Handles = {c1, t1}
    KindOf <- MCKindOf
    MaxFeed = 2
    MaxReqs = 1
    Threads = {a, b, c}
    MaxWaits = 1
INVARIANTS
    BarrierRight
PROPERTIES
    EveryCloseFinished
    StopReturns
    EveryFeedServed
    PhasesEnd
    EveryReleasedReturns
