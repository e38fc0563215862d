SPECIFICATION FairSpec
CONSTANTS
    Handles = {h1, h2, h3}
    NullCb = {h3}
    Senders = {s1, s2}
    FdMax = 2
    None = None
INVARIANTS
    ListedOnce
    WakeupArmed
    NoLostSend
PROPERTIES
    EverySendSeen
