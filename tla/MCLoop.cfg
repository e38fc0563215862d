SPECIFICATION MCSpec
CONSTANTS
    i1 = i1
    i2 = i2
    t1 = t1
    Handles = {i1, i2, t1}
    KindOf <- MCKindOf
    MaxFeed = 1
    MaxReqs = 1
    Writes = {w1, w2}
    TryReq = t
    MaxSize = 2
    MaxReads = 2
    MaxLeaks = 1
    RestartsAtEof = FALSE
    Fds = {3, 4, 5}
    Chunk = 1
    Sends = {s1, s2, s3}
    MaxRecvs = 2
    Words = {0, 1, 65535}
    MaxEdits = 1
INVARIANTS
    LoopConsistent
    StreamRight
    StreamServed
    ServerRight
    UdpRight
    InetRight
PROPERTIES
    ReturnsWhenDone
CHECK_DEADLOCK FALSE
