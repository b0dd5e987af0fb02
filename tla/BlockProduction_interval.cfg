CONSTANTS
    r1 = r1 r2 = r2 r3 = r3 t1 = t1 t2 = t2 t3 = t3
    Requests = {r1, r2, r3}
    Txs = {t1, t2}
    TxOf <- MCTxOf
    Panicking = {}
    Worker = worker
    IntervalMiner = miner
    Callers = {}
    Resetters = {}
    Mode = "interval"
    Dev = FALSE
    QueueCapacity = 1
    MaxIdleNumber = 0
    MaxWriteErrors = 1
    MaxCrashes = 1
    GenesisAccounts = genesis
    None = none
SPECIFICATION FairSpec
INVARIANTS
    HeaderMatches SerialExecution
PROPERTIES
     AcknowledgedMined
CHECK_DEADLOCK FALSE
