SPECIFICATION Spec
CONSTANTS
    serve = serve
    run = run
    Stores <- TwoProcesses
    NoCopy = NoCopy
    Digests = {d1, d2, d3}
    Runs = {r1}
    Projects = {p1}
    Columns = {project_id}
    Chunks = 2
    Workloads <- WriteWork
    Suspended = FALSE
    Nothing = Nothing
    MaxCalls <- ThreeEach
    MaxStops = 1
CHECK_DEADLOCK FALSE
INVARIANT AlwaysPersists
