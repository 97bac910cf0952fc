CONSTANTS
    NoFilter = NoFilter
    Conns = {c1, c2}
    SubIds = {"1"}
    SendSize = 1
    ChannelSize = 1
    MaxObjects = 2
    Queries <- MCQueries
    Events <- MCEvents
    Pollers = {p1, p2}
    Hashes = {"t1", "t2"}
    Kinds = {"Pending", "Block"}
    IdBits = 0
    MaxSize = 1
    MaxHeight = 1
    MaxFilters = 2
    MaxSeen = 2
SPECIFICATION MCSpec
INVARIANTS
    NothingSkipped
PROPERTY
    GoneLeavesNothing
CHECK_DEADLOCK FALSE
