SPECIFICATION FairSpec
CONSTANTS
    serve = serve
    run = run
    Stores <- TwoProcesses
    NoCopy = NoCopy
    Digests = {d1}
    Runs = {r1}
    Projects = {p1}
    Columns = {project_id, agent_id}
    Chunks = 2
    Workloads <- AllWork
    Suspended = TRUE
    Nothing = Nothing
    MaxCalls <- TwoAndOne
    MaxStops = 1
CHECK_DEADLOCK FALSE
INVARIANTS TypeOK WholeDocuments AnsweredIsKept EventsTellTheTruth OpenedIsMigrated
PROPERTY EveryCallReturns
