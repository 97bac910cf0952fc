CONSTANTS
    alice = alice
    bob = bob
    carol = carol
    Addrs = {alice, bob, carol}
    Blocks <- Plain
    Genesis <- Rich
    BatchSize = 2
    MaxInterrupts = 2
    Texts = {"a", "b"}
    Numbers = {2, 10}
    Hidden = {"x"}
    Width = 2
    Labels <- SomeLabels
    Lower <- LowerPart
    Logs <- SomeLogs
    LogFilters <- SomeFilters
    MaxBlockRange = 7
    Latest = 11
    MaxWrites = 2
    Writers = {"w1", "w2"}
    Reported <- Metadata
    ToLower <- LowerName
    MaxOps = 4
    Holders = {"a", "b"}
    Zero = "0"
    Transfers <- TokenTransfers
    MaxCrashes = 3
SPECIFICATION MCSpec
INVARIANTS
    
    BalancesRight
    AddressIndexesExact
    TokensAgree
    
    
    
CHECK_DEADLOCK FALSE
