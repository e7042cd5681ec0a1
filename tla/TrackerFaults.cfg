SPECIFICATION Spec
CONSTANTS
    r1 = r1
    c1 = c1
    RealtimeWorkers = {r1}
    CatchupWorkers = {c1}
    Confirmations = 1
    InitialTip = 1
    InitialMark = 0
    MaxHeight = 3
    RealtimeQueueCap = 1
    CatchupQueueCap = 1
    NearlyUpToDate = 0
    MaxAdvance = 1
    WindowSize = 2
    Faults = {"redis", "height", "stale", "scan", "expire"}
    MaxFaults = 1
    MaxRestarts = 1
    MaxTimers = 1
INVARIANTS
    TypeOK
    NoGap
    ExclusiveClaims
    ScansUnmarked
    ConfirmedOnly
PROPERTIES
    ImplementsLedger
