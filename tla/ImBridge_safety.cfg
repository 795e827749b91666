SPECIFICATION FairSpec
CONSTANTS
    main = main
    other = other
    source = source
    bridge = bridge
    Providers <- TwoProviders
    Consumers <- SourceAndBridge
    Drains <- BothDrain
    Bridges <- ServeOnly
    MaxMessages = 3
    MaxStops = 1
CHECK_DEADLOCK FALSE
INVARIANTS TypeOK OneListener MessagesKept
PROPERTY MessagesLeave
