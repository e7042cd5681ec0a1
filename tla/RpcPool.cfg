SPECIFICATION FairSpec
CONSTANTS
    c1 = c1
    c2 = c2
    N = 2
    Callers = {c1, c2}
    RetryAttempts = 2
    FailureLimit = 2
    MaxFailures = 2
    Conditions = {"up", "old", "down", "hang"}
    MaxChanges = 3
INVARIANTS
    ClosedBelowLimit
    NobodyPassedOver
PROPERTIES
    CallsReturn
    Recovers
