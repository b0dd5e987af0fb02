SPECIFICATION Spec
CONSTANTS
    None = None
    MARGIN = 2
    MAX_REASSEMBLY_TOTAL = 12
    Wrapper = 1
    EnvelopeSize = 1
    Sizes <- MCSizes
    Limits = {6, 10}
    Txs = {1}
    MaxEvents = 3
INVARIANT
    FetchedWhole
    
PROPERTY
    CatchesUpWithLeader
CHECK_DEADLOCK FALSE
