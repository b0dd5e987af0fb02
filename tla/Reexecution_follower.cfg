SPECIFICATION Spec
CONSTANTS
    None = None
    Coinbase = Coinbase
    Wallets <- MCWallets
    Genesis <- MCGenesis
    ChainId = 5
    LeaderLimit = 9
    FollowerLimit = 11
    CallLimit = 8
    RejectNotContract = TRUE
    Dialects <- MCDialects
    MaxPending = 2
    MaxBlocks = 2
    MaxRepeats = 1
INVARIANTS
    SameState
    
    TracesReplay
    EventsFaithful
    CallsPredict
CHECK_DEADLOCK FALSE
