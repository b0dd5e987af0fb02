CONSTANTS
    nonce = nonce
    balance = balance
    Fields = {nonce, balance}
    Unset = unset
    Boots <- SafeBoots
    CommitErrors = FALSE
    Reinit = TRUE
    MaxBatch = 2
    Parallel = 2
    Backlog = 1
    MaxAllowedLag = 1
    MaxHead = 3
    MaxErrors = 1
    MaxCancels = 1
    MaxCrashes = 1
SPECIFICATION Spec
INVARIANTS
    AccountMatches
PROPERTIES
    ImplementsReplica
SYMMETRY FieldSymmetry
CHECK_DEADLOCK FALSE
