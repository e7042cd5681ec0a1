SPECIFICATION FairSpec
CONSTANTS
    Tx <- MCBlock
    Watched <- MCWatched
    Accounts <- MCAccounts
    Mints <- MCMints
    Tokens <- MCTokens
    None = None
    N = 3
    Counter = 8
    Faults = {"request", "lag", "null", "redis", "lookup", "publish", "stop"}
    MaxFaults = 2
    MaxCrashes = 1
    MaxOthers = 1
CHECK_DEADLOCK FALSE
INVARIANTS
    FailsOver
    BalanceChangesReported
PROPERTIES
    ImplementsDelivery
    EventuallyMarked
