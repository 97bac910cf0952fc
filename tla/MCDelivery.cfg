CONSTANTS
    s1 = s1
    a1 = a1
    a2 = a2
    c1 = c1
    c2 = c2
    i1 = i1
    i2 = i2
    None = None
    Clients = {c1, c2}
    Ids = {i1, i2}
    IdOf <- OwnIds
    Wants <- AllAndOdd
    ReplayLast <- SecondReplays
    MaxEvents = 3
    PublishBuffer = 1
    ChannelSize = 1
    HistorySize = 2
    InfoCalls = TRUE
    NoAddress = NoAddress
    Settings = {s1}
    Channel <- MCChannel
    Filter <- MCFilter
    Handlers = {"webhook"}
    BusEvents <- MCBusEvents
    Workers = {w1}
    ApiUsers = {u1}
    BufferSize = 1
    MaxAttempts = 2
    MaxReceived = 1
    MaxObjects = 2
    MaxCalls = 2
    MaxRestarts = 0
    Addrs = {a1, a2}
    Hash <- MCHash
    Filters <- MCFilters
    Blocks <- MCBlocks
    Callers = {u1}
    Subs = {"s"}
    MaxIds = 2
    MaxFaults = 1
    MaxReboots = 1
SPECIFICATION MCSpec
INVARIANTS
    RegisteredIsOpen
    LiveOrder
    SubscribersServed
    NotificationsOnRecord
    
    OnlySubscribeBlocks
CHECK_DEADLOCK FALSE
