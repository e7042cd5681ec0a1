SPECIFICATION FairClientSpec
CONSTANTS
    c1 = c1
    c2 = c2
    N = 2
    Callers = {c1, c2}
    RetryAttempts = 2
    MaxChanges = 3
CHECK_DEADLOCK FALSE
INVARIANTS
    FailsOver
PROPERTIES
    CallsReturn
