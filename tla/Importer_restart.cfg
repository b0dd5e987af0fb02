CONSTANTS
    nonce = nonce
    balance = balance
    Fields = {nonce}
    Unset = unset
    Boots <- RestartBoots
    CommitErrors = FALSE
    Reinit = TRUE
    MaxBatch = 2
    Parallel = 2
    Backlog = 1
    MaxAllowedLag = 1
    MaxHead = 3
    MaxErrors = 0
    MaxCancels = 1
    MaxCrashes = 0
SPECIFICATION Spec
INVARIANTS
    CommitAccepted
CHECK_DEADLOCK FALSE
