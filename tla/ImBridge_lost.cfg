SPECIFICATION Spec
CONSTANTS
    main = main
    other = other
    source = source
    bridge = bridge
    Providers <- OneProvider
    Consumers <- OneSource
    Drains <- SourceDrains
    Bridges <- NoBridge
    MaxMessages = 2
    MaxStops = 0
CHECK_DEADLOCK FALSE
INVARIANT NoMessageLost
