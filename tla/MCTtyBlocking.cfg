SPECIFICATION StreamSpec
CONSTANTS
    Writes = {w1, w2}
    TryReq = t
    MaxSize = 2
    MaxReads = 2
    MaxLeaks = 1
    RestartsAtEof = FALSE
INVARIANT BlockingNeverQueues
CHECK_DEADLOCK FALSE
