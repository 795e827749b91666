SPECIFICATION FairSpec
CONSTANTS
    cron = cron
    stdin = stdin
    test = test
    Sources <- AllSources
    Callers <- OneCaller
    Scheduled <- CronOnly
    RunOnStart <- CronOnly
    QueueMax = 1
    MayHang <- FirstTest
    MaxEmits = 2
    MaxEvents = 3
    MaxRuns = 2
    MaxStops = 2
CHECK_DEADLOCK FALSE
INVARIANTS TypeOK EventsKept StoppedMeansStopped
PROPERTIES NothingTakenAfterStop EveryEventTaken StopReturns KeepsDelivery
