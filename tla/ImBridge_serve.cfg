SPECIFICATION Spec
CONSTANTS
    main = main
    other = other
    source = source
    bridge = bridge
    Providers <- OneProvider
    Consumers <- ServeOnly
    Drains <- ServeDrains
    Bridges <- ServeOnly
    MaxMessages = 1
    MaxStops = 0
CHECK_DEADLOCK FALSE
INVARIANT ServeListens
