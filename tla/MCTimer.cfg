SPECIFICATION FairSpec
CONSTANTS
    Timers = {t1, t2}
    Timeouts = {0, 4}
    Repeats = {0, 2}
    Modes = {"DEFAULT", "ONCE"}
    UINT64_MAX = 5
    INT_MAX = 3
    MaxSafeTimeout = 2
    MaxTime = 1
    ClockEnd = 4
    MaxCalls = 3
    MaxInterrupts = 2
    None = None
INVARIANTS
    NeverEarly
    NeverOversleeps
    StartOrder
PROPERTIES
    EveryTimerFires
CHECK_DEADLOCK FALSE
