CONSTANTS
    Chains = {"chain"}
    Requests = {"r"}
    MaxOperations = 1
    MaxFailures = 1
SPECIFICATION FleetSpec
INVARIANT RestartedIsFetched
CHECK_DEADLOCK FALSE
