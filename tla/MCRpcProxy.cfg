CONSTANTS
    c1 = c1
    c2 = c2
    c3 = c3
    Calls = {c1, c2, c3}
    Scenarios <- MCScenarios
    Workers = {w1}
    QueueSize = 2
    MaxRetries = 1
    MaxSize = 2
    MaxFailures = 2
    HalfOpenRequests = 1
    ConfirmedAfter = 2
    MaxHead = 2
    None = None
SPECIFICATION FairSpec
INVARIANTS
    BreakerCanMove
    StatusNeverGoesBack
    AnswersTheQuestion
PROPERTIES
    AcceptedIsAnswered
CHECK_DEADLOCK FALSE
