SPECIFICATION SpawnSpec
CONSTANTS
    StdioCount = 4
    Inheritable = {4}
    Private = {1, 4}
INVARIANT NoStdioClosed
CHECK_DEADLOCK FALSE
