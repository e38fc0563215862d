SPECIFICATION FairSpec
CONSTANTS
    Streams = {s}
    PollHandles = {p}
    Numbers = {1, 2}
    Inherited = {1}
    Nwatchers = 2
    Asked = {{"POLLIN"}}
    Ready = {{"POLLIN", "POLLOUT"}, {"POLLERR"}}
    MaxFiles = 2
    MaxBatch = 2
    MaxPolls = 2
    NULL = NULL
INVARIANTS
    TablesAgree
    NoStaleEvent
PROPERTIES
    EveryStartRegistered
