SPECIFICATION Spec
CONSTANTS
    Timers = {t1}
    Timeouts = {3}
    Repeats = {0}
    Modes = {"ONCE"}
    UINT64_MAX = 9
    INT_MAX = 4
    MaxSafeTimeout = 1
    MaxTime = 2
    ClockEnd = 6
    MaxCalls = 2
    MaxInterrupts = 0
    None = None
INVARIANTS
    ForwardProgress
CHECK_DEADLOCK FALSE
