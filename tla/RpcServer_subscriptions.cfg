SPECIFICATION Spec
CONSTANTS
    None = None
    c1 = c1
    c2 = c2
    AdminPassword = "secret"
    Conns = {c1, c2}
    Opening <- MCOpening
    Kinds = {"logs"}
    LogFilters = {"f"}
    Nodes <- MCNodes
    Batches <- MCBatches
    MaxSubscriptions = 2
    Capacity = 1
    MaxGen = 3
    MaxEvents = 4
INVARIANT
    EventsAccounted
    GenerationsApart
PROPERTY
    BlockedClientsSilent
    UnhealthyRestarts
CHECK_DEADLOCK FALSE
