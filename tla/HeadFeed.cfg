SPECIFICATION FairFeedSpec
CONSTANTS
    QueueCap = 2
    BaseBackoff = 2
    MaxBackoff = 8
    Width = 6
    MaxFaults = 7
CHECK_DEADLOCK FALSE
INVARIANTS
    RateLimited
    ConnectionClosed
PROPERTIES
    StopsOnCancel
    Listens
