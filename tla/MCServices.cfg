CONSTANTS
    Nodes = {"n1", "n2"}
    EventOf <- FourEvents
    Groupings <- SharedOrSeparate
    MaxPublished = 2
    MaxConnects = 2
    MaxFaults = 1
    Chains = {"chain"}
    Requests = {"r"}
    MaxOperations = 2
    MaxFailures = 2
    Deliverers = {d1}
    ChanSize = 1
    Limit = 1
    MaxSessions = 1
    MaxConns = 2
    MaxSent = 2
SPECIFICATION MCSpec
INVARIANTS
    HeardOnce
    OneFetcher
    ShutdownIsQuiet
    
CHECK_DEADLOCK FALSE
