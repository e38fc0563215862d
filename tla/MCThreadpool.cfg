SPECIFICATION FairSpec
CONSTANTS
    Workers = {w1, w2}
    Loops = {l1, l2}
    Reqs = {r1, r2, r3}
    l1 = l1
    l2 = l2
    r1 = r1
    r2 = r2
    r3 = r3
    LoopOf <- MCLoopOf
    UV_THREADPOOL_SIZE = 2
    Unset = Unset
    MallocOK = TRUE
    MaxCalls = 4
    MaxSpurious = 1
    None = None
INVARIANTS
    WorkConserving
    OnePlace
    LockOrder
    NeverAborts
    NoLostCompletion
PROPERTIES
    ImplementsWorkRequest
    EveryRequestDone
CHECK_DEADLOCK FALSE
