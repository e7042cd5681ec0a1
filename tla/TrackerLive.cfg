SPECIFICATION FairSpec
CONSTANTS
    r1 = r1
    c1 = c1
    RealtimeWorkers = {r1}
    CatchupWorkers = {c1}
    Confirmations = 1
    InitialTip = 2
    InitialMark = 1
    MaxHeight = 3
    RealtimeQueueCap = 2
    CatchupQueueCap = 1
    NearlyUpToDate = 0
    MaxAdvance = 0
    WindowSize = 2
    Faults = {"redis", "height", "scan", "stale", "expire", "hang"}
    MaxFaults = 2
    MaxRestarts = 1
    MaxTimers = 1
PROPERTIES
    CatchesUp
    ClaimsReleased
CHECK_DEADLOCK FALSE
