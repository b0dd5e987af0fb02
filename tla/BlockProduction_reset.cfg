CONSTANTS
    r1 = r1 r2 = r2 r3 = r3 t1 = t1 t2 = t2 t3 = t3
    Requests = {r1, r2, r3}
    Txs = {t1, t2, t3}
    TxOf <- MCTxOfEach
    Panicking = {t2}
    Worker = worker
    IntervalMiner = miner
    Callers = {c1}
    Resetters = {s1, s2}
    Mode = "automine"
    Dev = TRUE
    QueueCapacity = 1
    MaxIdleNumber = 1
    MaxWriteErrors = 1
    MaxCrashes = 1
    GenesisAccounts = genesis
    None = none
SPECIFICATION FairSpec
INVARIANTS
    IndInv ChainContiguous AutomineDurable
PROPERTIES
    EveryRequestAnswered
CHECK_DEADLOCK FALSE
