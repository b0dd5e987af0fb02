SPECIFICATION Spec
CONSTANTS
    None = None
    t1 = t1
    t2 = t2
    t3 = t3
    t4 = t4
    Addresses = {1, 2}
    Nobody = 0
    Slots = {1}
    Bodies <- MCBodies
    MaxU64 = 7
    TestAccounts <- MCTestAccounts
    Edits <- MCEdits
    SlotEdits = {8}
    LogRequests <- MCLogRequests
    MaxLogRange = 10
    Builds <- MCBuilds
    MaxBlock = 2
    MaxTime = 1
    MaxEvents = 2
INVARIANTS
    PastReadsReplay
    LookupsAgree
    LogsAgree
    AnswersAgree
PROPERTY
    DurablePublished
CHECK_DEADLOCK FALSE
