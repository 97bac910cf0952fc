CONSTANTS
    c1 = c1
    c2 = c2
    Clients = {c1, c2}
    MaxClients = 1
    SendBuffer = 1
    BroadcastBuffer = 1
    MaxEvents = 2
    MaxRequests = 1
SPECIFICATION FairSpec
INVARIANTS
    MembersOpen
    EventsInOrder
PROPERTIES
    EndsOnBothSides
CHECK_DEADLOCK FALSE
