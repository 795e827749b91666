SPECIFICATION MCSpec
CONSTANTS
    orchestrator = orchestrator
    secretary = secretary
    feishu = feishu
    loop = loop
    bridge = bridge
    Nobody = Nobody
    Agents <- ThreeAgents
    Orchestrators <- Orchestrator
    ToolAgents <- ToolAgent
    Remembers <- Rememberers
    Dispatchers <- LoopAndBridge
    Loop <- loop
    MaxIntents = 1
    Loads <- AllLoads
    MaxSteps = 3
    MaxChars = 6
    KeepRecent = 2
    MaxSummary = 7
    Heading = 1
    MaxCalls = 1
    Long = 3
CHECK_DEADLOCK FALSE
INVARIANTS TypeOK RunTree SessionsTellTheTruth ForgetsOnlyTheOld
PROPERTIES ClosedMeansQuiet EverythingEnds
