SPECIFICATION Spec
CONSTANTS
    h1 = h1
    h2 = h2
    h3 = h3
    Signals = {h1, h2, h3}
    LoopOf <- MCLoopOf
    Signums = {1, 2}
    PipeSize = 2
    BufSize = 2
    MaxRaised = 2
    Procs = {p1, p2, p3}
    MaxChld = 1
    Ctxs = {c1, c2}
    Versions = {v1, v2}
    Errors = {e1}
    Interval = 2
    MaxLate = 3
    Watches = {f1, f2, f3}
    Paths = {q1, q2}
    MaxWd = 3
    MaxEvents = 2
    Nodes = {n1, n2, n3, n4, n5, n6}
    Keys = {1, 2}
    MaxBufs = 3
    SmlBufs = 1
    IovMax = 2
    BufBytes = 2
    MaxEntries = 2
    FileLen = 4
    CopyLen = 2
    Hints = hints
    Service = service
    Hostname = hostname
    UserHandles = {u1, u2}
    MaxActive = 1
    StdioCount = 4
    Inheritable = {4}
    Private = {1, 4}
SYMMETRY SameLoop
INVARIANTS
    SignalsRight
    ProcessRight
    SpawnRight
    FsPollRight
    InotifyRight
    HeapRight
    FsRight
    ResolveRight
    LoopLifeRight
CHECK_DEADLOCK FALSE
