SPECIFICATION Spec
CONSTANTS
    c1 = c1
    c2 = c2
    Calls <- AllCalls
    Mode <- TwoJobs
    PoolSize = 1
    MaxCancels = 1
    MaxCheckpoints = 0
CHECK_DEADLOCK FALSE
INVARIANT ForegroundOkIsWhole
