SPECIFICATION Spec
CONSTANTS
    k1 = k1
    k2 = k2
    Keys = {k1, k2}
    Pinned = {p1}
    Unpinned = {u1}
    Loaders = {d1}
    Loads <- MCLoads
    MaxTx = 2
    None = None
SYMMETRY KeySymmetry
INVARIANTS
    TxReadsCurrent
    PinnedSnapshot
    CacheCoherent
    TxReadsRecent
CHECK_DEADLOCK FALSE
