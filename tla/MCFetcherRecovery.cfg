CONSTANTS
    MaxHeight = 1
    TxCount = 2
    BatchSize = 2
    MaxRetries = 1
    StartHeights = {0, 1}
    ConcurrentAbove = 0
    Flaky = {}
    StoreFails = FALSE
SPECIFICATION FairSpec
INVARIANT ReceiptsHealed
PROPERTY CatchesUp
