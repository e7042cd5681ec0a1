SPECIFICATION FairSpec
CONSTANTS
    Tx <- MCBlock
    Watched <- MCWatched
    Addresses <- MCAddresses
    Faults = {"request", "redis", "lookup", "publish", "lag", "stop"}
    MaxFaults = 3
    MaxCrashes = 1
CHECK_DEADLOCK FALSE
INVARIANTS
    RepeatedOnlyAfterFailure
PROPERTIES
    ImplementsDelivery
    RecordedNotRepeated
    EventuallyMarked
