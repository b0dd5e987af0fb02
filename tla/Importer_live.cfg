CONSTANTS
    nonce = nonce
    balance = balance
    Fields = {}
    Unset = unset
    Boots <- LiveBoots
    CommitErrors = TRUE
    Reinit = FALSE
    MaxBatch = 2
    Parallel = 2
    Backlog = 1
    MaxAllowedLag = 1
    MaxHead = 3
    MaxErrors = 1
    MaxCancels = 0
    MaxCrashes = 1
SPECIFICATION FairSpec
INVARIANTS
    EventsBeforeCommit
PROPERTIES
    CatchesUp StalledUnhealthy
CHECK_DEADLOCK FALSE
