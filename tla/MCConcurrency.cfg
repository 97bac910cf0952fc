CONSTANTS
    Workers = {"w1", "w2"}
    First = 1
    Last = 4
    Capacity = 2
    MaxRetries = 1
    StoreFails = TRUE
SPECIFICATION MCSpec
INVARIANT HeightsKept
PROPERTIES
    RefinesRangeFetch
    CallReturns
    
    
CHECK_DEADLOCK FALSE
