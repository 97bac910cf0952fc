CONSTANTS
    MaxHeight = 2
    TxCount = 1
    BatchSize = 2
    MaxRetries = 0
    StartHeights = {0, 1, 2}
    ConcurrentAbove = 1
    Flaky = {"genesis"}
    StoreFails = FALSE
    a1 = a1
    a2 = a2
    p1 = p1
    Absent = Absent
    Accounts = {a1, a2}
    Proposals = {p1}
    Chains <- ContractChains
    MaxBlock = 2
    Batch = 2
    MaxReplays = 2
    MaxFaults = 1
    MaxLogs = 3
    GenesisSupply = 1
SPECIFICATION MCSpec
SYMMETRY AccountSymmetry
INVARIANTS
    TypeOK
    LatestIsComplete
    DurableLatestIsComplete
    EventsAreBacked
    ContractsIndexed
    
    SupplyExact
