CONSTANTS
    MaxHeight = 2
    TxCount = 1
    BatchSize = 2
    MaxRetries = 0
    StartHeights = {0, 2}
    ConcurrentAbove = 1
    Flaky = {}
    StoreFails = FALSE
SPECIFICATION Spec
INVARIANT RecoveryHeals
