SPECIFICATION FairSpec
CONSTANTS
    BlockChoices <- MCBlocks
    Orphans <- MCOrphans
    Addresses <- MCAddresses
    NoAddress = "none"
    Wallet <- MCWallet
    MaxValue = 1
    Clients = 3
    Explorers = {1}
    Faults = {"fetch", "errordoc", "orphan", "page", "lookup", "publish", "redis"}
    MaxFaults = 3
    MaxCrashes = 1
CHECK_DEADLOCK FALSE
INVARIANTS
    NothingElse
PROPERTIES
    ImplementsDelivery
    FailsOver
    EventuallyMarked
