SPECIFICATION CallerSpec
CONSTANTS
    c1 = c1
    c2 = c2
    Calls <- AllCalls
    Mode <- SyncToo
    PoolSize = 1
    MaxCancels = 2
    MaxCheckpoints = 1
CHECK_DEADLOCK FALSE
INVARIANT Announcements
PROPERTY EveryCallReturns
