SPECIFICATION FairSpec
CONSTANTS
    Blocks = {1, 2, 3}
    Networks <- MCNetworks
    MaxFaults = 1
CHECK_DEADLOCK FALSE
INVARIANTS
    WithinLimit
    QuietBeforeClose
    MarkedIsDelivered
PROPERTIES
    ShutdownCompletes
