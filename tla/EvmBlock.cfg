SPECIFICATION FairSpec
CONSTANTS
    Tx <- MCBlock
    Watched <- MCWatched
    Addresses <- MCAddresses
    SkipNative = FALSE
    LightMode = TRUE
    BatchSize = 3
    Permits = 2
    Faults = {"redis", "fetch", "type", "receipt", "lookup", "publish", "lag", "soon", "hang", "stop"}
    MaxFaults = 2
    MaxCrashes = 1
CHECK_DEADLOCK FALSE
INVARIANTS
    NoStrayGoroutine
PROPERTIES
    ImplementsDelivery
    RecordedNotRepeated
    EventuallyMarked
