SPECIFICATION Spec
CONSTANTS
    r1 = r1
    c1 = c1
    RealtimeWorkers = {r1}
    CatchupWorkers = {c1}
    Confirmations = 0
    InitialTip = 1
    InitialMark = 0
    MaxHeight = 3
    RealtimeQueueCap = 1
    CatchupQueueCap = 1
    NearlyUpToDate = 0
    MaxAdvance = 0
    WindowSize = 2
    Faults = {"hwmRead"}
    MaxFaults = 1
    MaxRestarts = 1
    MaxTimers = 1
INVARIANTS
    NoGap
