----------------------- MODULE BlockProductionLedger ------------------------
(***************************************************************************)
(* Block production on a node that nobody resets: every mined transaction ran *)
(* on exactly the ones before it, and the node implements Ledger.          *)
(***************************************************************************)
EXTENDS BlockProductionProofs, FiniteSetTheorems

(***************************************************************************)
(* Serial execution, on a node that nobody resets.                         *)
(***************************************************************************)
\* The executions of a block ran one after the other, the first on the state base.
Before(b, i) == {b.txs[j].tx : j \in 1..(i - 1)}
RanOn(b, base) == \A i \in DOMAIN b.txs : b.txs[i].saw = base \cup Before(b, i)
MinedBelow(bs, n) == UNION {TxsIn(bs[m]) : m \in {k \in DOMAIN bs : k < n}}

\* Every block of the chain ran on the blocks below it.
SerialChain ==
    \A n \in DOMAIN blocks : RanOn(blocks[n], {GenesisAccounts} \cup MinedBelow(blocks, n))

\* The last finished block is the one in hand while a commit lasts, and is mined after it unless
\* the commit was given up; with no gap in the chain the block in hand ran on the mined state
\* and the pending one on both.
SerialOpen ==
    /\ accounts = TRUE
    /\ \A t \in Miners : InFlight(t) => latest = inhand[t]
    /\ lost = 0 =>
         /\ Uncommitted = {} => TxsOfLatest \subseteq Mined
         /\ \A t \in Uncommitted : RanOn(inhand[t], {GenesisAccounts} \cup Mined)
         /\ RanOn(pending, {GenesisAccounts} \cup Mined \cup TxsOfLatest)

\* An execution whose header is still the pending one when it is saved read what is there then,
\* and its transaction is new: the pending number only grows under the worker.
FreshExecution ==
    /\ pc[Worker] \in {"execute", "save", "save_locked"} => input.number <= pending.header.number
    /\ pc[Worker] \in {"save", "save_locked"} /\ InputMatches
         => saw = View /\ TxOf[cur] \notin View

SerialInv == SerialChain /\ SerialOpen /\ FreshExecution

\* A block without transactions ran on anything.
LEMMA NewRan ==
    ASSUME NEW n, NEW ts, NEW base
    PROVE  RanOn(NewPending(n, ts), base)
BY DEF RanOn, NewPending

\* A node that has just opened its storage has executed nothing.
LEMMA SerialInit == Init => SerialInv
<1> SUFFICES ASSUME Init PROVE SerialInv
  BY Zenon
<1>1. \A n \in DOMAIN blocks : blocks[n] = GenesisBlock
  BY Zenon DEF Init
<1>2. SerialChain
  BY <1>1, NewRan, Zenon DEF SerialChain, GenesisBlock
<1>3. \A t \in Threads : pc[t] \in {"idle", "ready"}
  BY Zenon DEF Init
<1>4. Uncommitted = {} /\ \A t \in Miners : ~InFlight(t)
  BY <1>3, Zenon DEF Uncommitted, InFlight, Threads
<1>5. TxsOfLatest = {}
  BY Zenon DEF Init, TxsOfLatest
<1>6. pending = NewPending(PendingNumberOf(blocks, mined), 0) /\ accounts = TRUE
  BY Zenon DEF Init
<1>7. SerialOpen
  BY <1>4, <1>5, <1>6, NewRan, Zenon DEF SerialOpen
<1>8. Worker \in Threads
  BY Zenon DEF Threads, Miners
<1>9. FreshExecution
  BY <1>3, <1>8, Zenon DEF FreshExecution
<1> QED BY <1>2, <1>7, <1>9, Zenon DEF SerialInv

\* A step that moves no block, starts no commit and gives none up.
LEMMA SerialFrame ==
    ASSUME SerialChain, SerialOpen, UNCHANGED <<pending, latest, blocks, accounts, inhand, lost>>,
           Uncommitted' = Uncommitted, \A t \in Miners : InFlight(t)' => InFlight(t)
    PROVE  SerialChain' /\ SerialOpen' /\ View' = View
<1>2. Mined' = Mined /\ TxsOfLatest' = TxsOfLatest
  BY Zenon DEF Mined, TxsOfLatest
<1>3. SerialChain'
  BY Zenon DEF SerialChain
<1>4. SerialOpen'
  BY <1>2, Zenon DEF SerialOpen
<1>5. View' = View
  BY <1>2, Zenon DEF View
<1> QED BY <1>3, <1>4, <1>5, Zenon

\* The steps that move no block leave the worker's execution as fresh as it was; a new one reads
\* what is there (ReadPendingHeader, Execute).
LEMMA QuietSerial ==
    ASSUME IndInv, SerialInv,
           \/ \E r \in Requests : Submit(r)
           \/ WorkerRecv \/ ReadPendingHeader \/ Execute \/ LockSaveExecution \/ Tick
           \/ \E p \in BOOLEAN : SetPaused(p)
           \/ \E c \in Callers : EvmMine(c)
           \/ \E t \in Miners : LockMineAndCommit(t)
           \/ UNCHANGED vars
    PROVE  SerialInv'
<1> USE DEF IndInv
<1>1. UNCHANGED <<pending, latest, blocks, accounts, inhand, lost>>
  BY Zenon DEF Submit, WorkerRecv, ReadPendingHeader, Execute, LockSaveExecution, Tick, SetPaused,
     EvmMine, LockMineAndCommit, vars, tempVars, permVars, minerVars
<1>2. \A t \in Miners : /\ pc'[t] \in {"commit", "write"} <=> pc[t] \in {"commit", "write"}
                        /\ InFlight(t)' => InFlight(t)
  BY QuietPc, Zenon DEF Threads, InFlight
<1>3. Uncommitted' = Uncommitted
  BY <1>2, Zenon DEF Uncommitted
<1>4. SerialChain' /\ SerialOpen' /\ View' = View
  BY <1>1, <1>2, <1>3, SerialFrame, Zenon DEF SerialInv
<1>5. Worker \in Miners /\ Worker \in Threads
  BY Zenon DEF Threads, Miners
<1>6. pending.header.number \in Nat
  BY NumberType, Zenon DEF TypeOK
<1>7. ASSUME ReadPendingHeader PROVE FreshExecution'
  <2>1. pc'[Worker] = "execute"
    BY <1>5, <1>7, GotoFrame, Zenon DEF ReadPendingHeader
  <2>2. input' = pending'.header
    BY <1>1, <1>7, Zenon DEF ReadPendingHeader
  <2> QED BY <1>1, <1>6, <2>1, <2>2 DEF FreshExecution
<1>8. ASSUME Execute PROVE FreshExecution'
  <2>1. pc[Worker] = "execute" /\ input' = input
    BY <1>8, Zenon DEF Execute
  <2>2. CASE Goto(Worker, "idle")
    <3>1. pc'[Worker] = "idle"
      BY <1>5, <2>2, GotoFrame, Zenon
    <3> QED BY <3>1, Zenon DEF FreshExecution
  <2>3. CASE saw' = View /\ cur' = cur /\ TxOf[cur] \notin View
    BY <1>1, <1>4, <2>1, <2>3, Zenon DEF FreshExecution, SerialInv
  <2> QED BY <1>8, <2>2, <2>3, Zenon DEF Execute, Answer
<1>9. ASSUME WorkerRecv PROVE FreshExecution'
  <2>1. pc'[Worker] = "header"
    BY <1>5, <1>9, GotoFrame, Zenon DEF WorkerRecv
  <2> QED BY <2>1, Zenon DEF FreshExecution
<1>10. ASSUME UNCHANGED <<input, saw, cur>>,
              \/ pc'[Worker] = pc[Worker]
              \/ pc[Worker] = "save" /\ pc'[Worker] = "save_locked"
              \/ pc'[Worker] \in {"mine_and_commit", "mine"}
       PROVE  FreshExecution'
  <2>1. UNCHANGED InputMatches
    BY <1>1, <1>10, Zenon DEF InputMatches
  <2>2. UNCHANGED <<input, saw, cur, pending, View>>
    BY <1>1, <1>4, <1>10, Zenon
  <2>3. FreshExecution
    BY Zenon DEF SerialInv
  <2> QED BY <1>10, <2>1, <2>2, <2>3, Zenon DEF FreshExecution
<1>11. ASSUME \/ \E r \in Requests : Submit(r)
              \/ LockSaveExecution \/ Tick
              \/ \E p \in BOOLEAN : SetPaused(p)
              \/ \E c \in Callers : EvmMine(c)
              \/ \E t \in Miners : LockMineAndCommit(t)
              \/ UNCHANGED vars
       PROVE  FreshExecution'
  <2>1. UNCHANGED <<input, saw, cur>>
    BY <1>11, Zenon DEF Submit, LockSaveExecution, Tick, SetPaused, EvmMine, LockMineAndCommit,
       vars, workerVars
  <2>2. \/ pc' = pc
        \/ pc[Worker] = "save" /\ Goto(Worker, "save_locked")
        \/ \E t \in Miners : Goto(t, "mine_and_commit") \/ Goto(t, "mine")
    BY <1>11, Zenon DEF Submit, LockSaveExecution, Tick, SetPaused, EvmMine, LockMineAndCommit,
       vars, minerVars, Miners
  <2>3. \/ pc'[Worker] = pc[Worker]
        \/ pc[Worker] = "save" /\ pc'[Worker] = "save_locked"
        \/ pc'[Worker] \in {"mine_and_commit", "mine"}
    BY <1>5, <2>2, GotoFrame, Zenon DEF Threads
  <2> QED BY <1>10, <2>1, <2>3, Zenon
<1>12. FreshExecution'
  BY <1>7, <1>8, <1>9, <1>11, Zenon
<1> QED BY <1>4, <1>12, Zenon DEF SerialInv

\* What saving an execution does to the pending block.
LEMMA PushAppends ==
    ASSUME TypeOK, cur \in Requests, PushExecution
    PROVE  LET e == [tx |-> TxOf[cur], input |-> input, saw |-> saw]
           IN  /\ pending.txs \in Seq(Execution) /\ e \in Execution
               /\ pending'.txs = Append(pending.txs, e)
               /\ pending'.header = pending.header
<1> DEFINE e == [tx |-> TxOf[cur], input |-> input, saw |-> saw]
<1>1. pending.txs \in Seq(Execution) /\ e \in Execution
  BY TxAssumption, Zenon DEF TypeOK, Block, Execution
<1>2. pending'.txs = Append(pending.txs, e) /\ pending'.header = pending.header
  BY Zenon DEF PushExecution, TypeOK, Block
<1> QED BY <1>1, <1>2, Zenon

\* A block that ran on base still does with one more execution, made on all of it.
LEMMA PushRan ==
    ASSUME NEW b, NEW c, NEW base, NEW e, b.txs \in Seq(Execution), e \in Execution,
           c.txs = Append(b.txs, e), RanOn(b, base), e.saw = base \cup TxsIn(b)
    PROVE  RanOn(c, base)
<1> DEFINE n == Len(b.txs)
<1>1. n \in Nat /\ DOMAIN b.txs = 1..n
  OBVIOUS
<1>2. /\ DOMAIN c.txs = 1..(n + 1) /\ c.txs[n + 1] = e
      /\ \A i \in 1..n : c.txs[i] = b.txs[i]
  OBVIOUS
<1> HIDE DEF n
<1>3. ASSUME NEW i \in 1..(n + 1) PROVE Before(c, i) = Before(b, i)
  <2>1. \A j \in 1..(i - 1) : c.txs[j] = b.txs[j]
    BY <1>1, <1>2
  <2> QED BY <2>1, Zenon DEF Before
<1>4. Before(b, n + 1) = TxsIn(b)
  BY <1>1 DEF Before, TxsIn
<1>5. ASSUME NEW i \in 1..n PROVE c.txs[i].saw = base \cup Before(c, i)
  BY <1>1, <1>2, <1>3 DEF RanOn
<1>6. c.txs[n + 1].saw = base \cup Before(c, n + 1)
  BY <1>1, <1>2, <1>3, <1>4
<1>7. \A i \in 1..(n + 1) : i \in 1..n \/ i = n + 1
  BY <1>1
<1> QED BY <1>2, <1>5, <1>6, <1>7, Zenon DEF RanOn

\* A saved execution read the mined state, the last finished block and all that is pending.
LEMMA SaveSerial ==
    ASSUME IndInv, SerialInv, SaveExecution \/ SaveExecutionLocked
    PROVE  SerialInv'
<1> USE DEF IndInv
<1>1. UNCHANGED <<latest, blocks, accounts, inhand, lost>> /\ pc[Worker] \in {"save", "save_locked"}
  BY Zenon DEF SaveExecution, SaveExecutionLocked, permVars
<1>2. Worker \in Miners /\ Worker \in Threads /\ cur \in Requests
  BY <1>1, Zenon DEF Threads, Miners, WorkerBusy
<1>3. \E l \in {"idle", "mine_and_commit", "header"} : Goto(Worker, l)
  BY Zenon DEF SaveExecution, SaveExecutionLocked, Answer
<1>4. /\ pc'[Worker] \in {"idle", "mine_and_commit", "header"}
      /\ \A t \in Threads : t # Worker => pc'[t] = pc[t]
  BY <1>2, <1>3, GotoFrame, Zenon
<1>5. FreshExecution'
  BY <1>4, Zenon DEF FreshExecution
<1>6. Uncommitted' = Uncommitted /\ \A t \in Miners : InFlight(t)' => InFlight(t)
  BY <1>1, <1>4, Zenon DEF Uncommitted, InFlight, Threads
<1>7. CASE UNCHANGED pending
  <2>1. SerialChain' /\ SerialOpen'
    BY <1>1, <1>6, <1>7, SerialFrame, Zenon DEF SerialInv
  <2> QED BY <1>5, <2>1, Zenon DEF SerialInv
<1>8. CASE PushExecution /\ InputMatches
  <2> DEFINE base == {GenesisAccounts} \cup Mined \cup TxsOfLatest
  <2>1. saw = base \cup TxsIn(pending)
    <3>1. saw = View /\ accounts = TRUE
      BY <1>1, <1>8, Zenon DEF SerialInv, FreshExecution, SerialOpen
    <3> QED BY <3>1, Zenon DEF View
  <2>2. UNCHANGED <<Mined, TxsOfLatest>> /\ SerialChain'
    BY <1>1, Zenon DEF Mined, TxsOfLatest, SerialChain, SerialInv
  <2>3. RanOn(pending, base) => RanOn(pending', base)
    <3> DEFINE e == [tx |-> TxOf[cur], input |-> input, saw |-> saw]
    <3>1. /\ pending.txs \in Seq(Execution) /\ e \in Execution
          /\ pending'.txs = Append(pending.txs, e)
      BY <1>2, <1>8, PushAppends, Zenon
    <3>2. e.saw = base \cup TxsIn(pending)
      BY <2>1, Zenon
    <3> HIDE DEF e, base
    <3> QED BY <3>1, <3>2, PushRan, Zenon
  <2>4. base' = base
    BY <2>2, Zenon
  <2>5. lost = 0 => RanOn(pending, base)
    BY Zenon DEF SerialInv, SerialOpen
  <2> HIDE DEF base
  <2>6. lost' = 0 => RanOn(pending, base)'
    BY <1>1, <2>3, <2>4, <2>5, Zenon
  <2>7. SerialOpen'
    <3>1. \A t \in Uncommitted : RanOn(inhand'[t], {GenesisAccounts} \cup Mined') <=> RanOn(inhand[t], {GenesisAccounts} \cup Mined)
      BY <1>1, <2>2, Zenon
    <3> QED BY <1>1, <1>6, <2>2, <2>6, <3>1, Zenon DEF SerialInv, SerialOpen, base
  <2> QED BY <1>5, <2>2, <2>7, Zenon DEF SerialInv
<1> QED BY <1>7, <1>8, Zenon DEF SaveExecution, SaveExecutionLocked

\* The block that is finished becomes the latest one and the one in hand; the pending number
\* grows, so that an execution made before is not saved into the new pending block.
LEMMA MineSerial ==
    ASSUME IndInv, SerialInv, NEW t \in Miners, MineLocal(t)
    PROVE  SerialInv'
<1> USE DEF IndInv
<1>1. /\ UNCHANGED <<blocks, accounts, lost, input, saw, cur>> /\ latest' = pending
      /\ pc[t] = "mine" /\ Goto(t, "commit") /\ inhand' = [inhand EXCEPT ![t] = pending]
      /\ \E ts \in NextTimestamps : pending' = NewPending(pending.header.number + 1, ts)
  BY Zenon DEF MineLocal, workerVars, permVars
<1>2. /\ inhand'[t] = pending /\ pc'[t] = "commit"
      /\ \A u \in Miners : u # t => pc'[u] = pc[u]
  <2>1. t \in Threads /\ Miners \subseteq Threads /\ inhand \in [Miners -> Block \cup {None}]
    BY Zenon DEF Threads, TypeOK
  <2> QED BY <1>1, <2>1, GotoFrame, Zenon
<1>3. \A u \in Miners : Mining(u) => u = t
  BY <1>1, OnlyMiner, Zenon DEF Mining
<1>4. Uncommitted = {} /\ Uncommitted' = {t}
  BY <1>1, <1>2, <1>3, Zenon DEF Uncommitted, Mining
<1>5. \A u \in Miners : InFlight(u)' => u = t
  BY <1>2, <1>3, Zenon DEF InFlight, Mining
<1>6. UNCHANGED Mined /\ SerialChain'
  BY <1>1, Zenon DEF Mined, SerialChain, SerialInv
<1>7. lost = 0 => RanOn(pending, {GenesisAccounts} \cup Mined)
  <2> SUFFICES ASSUME lost = 0 PROVE RanOn(pending, {GenesisAccounts} \cup Mined)
    BY Zenon
  <2>1. TxsOfLatest \subseteq Mined /\ RanOn(pending, {GenesisAccounts} \cup Mined \cup TxsOfLatest)
    BY <1>4, Zenon DEF SerialInv, SerialOpen
  <2>2. {GenesisAccounts} \cup Mined \cup TxsOfLatest = {GenesisAccounts} \cup Mined
    BY <2>1, Zenon
  <2> QED BY <2>1, <2>2, Zenon
<1>8. \A base : RanOn(pending', base)
  BY <1>1, NewRan, Zenon
<1>9. SerialOpen'
  <2>1. accounts' = TRUE
    BY <1>1, Zenon DEF SerialInv, SerialOpen
  <2>2. Uncommitted' # {}
    BY <1>4, Zenon
  <2> QED BY <1>1, <1>2, <1>4, <1>5, <1>6, <1>7, <1>8, <2>1, <2>2, Zenon DEF SerialOpen
<1>10. FreshExecution'
  <2>1. /\ pending.header.number \in Nat /\ input.number \in Nat
        /\ pending'.header.number = pending.header.number + 1
    <3>1. NextTimestamps \subseteq Nat /\ pending.header.number \in Nat /\ input.number \in Nat
      BY TimestampType, NumberType, Zenon DEF TypeOK, Header
    <3> QED BY <1>1, <3>1, NewPendingType
  <2>2. Worker \in Miners
    BY Zenon DEF Miners
  <2>3. pc'[Worker] \in {"execute", "save", "save_locked"} => pc'[Worker] = pc[Worker]
    BY <1>2, <2>2, Zenon
  <2>4. pc'[Worker] \in {"execute", "save", "save_locked"} => input'.number < pending'.header.number
    BY <1>1, <2>1, <2>3 DEF SerialInv, FreshExecution
  <2>5. input'.number < pending'.header.number => input'.number <= pending'.header.number /\ ~InputMatches'
    BY <1>1, <2>1 DEF InputMatches
  <2> QED BY <2>4, <2>5, Zenon DEF FreshExecution
<1> QED BY <1>6, <1>9, <1>10, Zenon DEF SerialInv

\* The worker's execution stays fresh while nothing it read changes.
LEMMA FreshFrame ==
    ASSUME FreshExecution, UNCHANGED <<input, saw, pending>>, View' = View,
           \/ pc'[Worker] = pc[Worker] /\ cur' = cur
           \/ pc'[Worker] \notin {"execute", "save", "save_locked"}
    PROVE  FreshExecution'
<1>1. UNCHANGED InputMatches
  BY Zenon DEF InputMatches
<1> QED BY <1>1, Zenon DEF FreshExecution

\* How a commit that fails or ends moves the threads.
LEMMA CommitMoves ==
    ASSUME IndInv, NEW t \in Miners, CommitBlock(t) \/ PermSaveFails(t) \/ PublishMined(t)
    PROVE  /\ UNCHANGED <<pending, latest, blocks, accounts, input, saw>>
           /\ \A u \in Miners : u # t => pc'[u] = pc[u] /\ inhand'[u] = inhand[u]
           /\ \/ pc'[Worker] = pc[Worker] /\ cur' = cur
              \/ pc'[Worker] \notin {"execute", "save", "save_locked"}
           /\ \/ PublishMined(t) /\ pc[t] = "publish" /\ pc'[t] \in {"idle", "done"} /\ lost' = lost
              \/ /\ pc[t] \in {"commit", "write"} /\ pc'[t] \in {"commit", "write"}
                 /\ inhand' = inhand /\ lost' = lost
              \/ /\ pc[t] \in {"commit", "write"} /\ pc'[t] \in {"idle", "done"}
                 /\ lost' = lost + 1 /\ t # IntervalMiner
<1> USE DEF IndInv
<1>1. /\ UNCHANGED <<pending, latest, blocks, accounts, input, saw>>
      /\ \/ PublishMined(t) /\ pc[t] = "publish" /\ Leave(t, "ok") /\ lost' = lost
         \/ /\ pc[t] \in {"commit", "write"} /\ Goto(t, "commit") /\ UNCHANGED <<inhand, cur, lost>>
         \/ /\ pc[t] \in {"commit", "write"} /\ Goto(t, "write") /\ UNCHANGED <<inhand, cur, lost>>
         \/ pc[t] \in {"commit", "write"} /\ t # IntervalMiner /\ Leave(t, "error") /\ lost' = lost + 1
  BY Zenon DEF CommitBlock, PermSaveFails, PublishMined, CommitFails, tempVars, permVars
<1>2. t \in Threads /\ Miners \subseteq Threads /\ Worker \in Miners /\ inhand \in [Miners -> Block \cup {None}]
  BY Zenon DEF Threads, TypeOK, Miners
<1>3. ASSUME NEW l \in {"commit", "write"}, Goto(t, l), UNCHANGED <<inhand, cur>>
      PROVE  /\ pc'[t] \in {"commit", "write"}
             /\ \A u \in Miners : u # t => pc'[u] = pc[u] /\ inhand'[u] = inhand[u]
             /\ \/ pc'[Worker] = pc[Worker] /\ cur' = cur
                \/ pc'[Worker] \notin {"execute", "save", "save_locked"}
  BY <1>2, <1>3, GotoFrame, Zenon
<1>4. ASSUME NEW o, Leave(t, o)
      PROVE  /\ pc'[t] \in {"idle", "done"}
             /\ \A u \in Miners : u # t => pc'[u] = pc[u] /\ inhand'[u] = inhand[u]
             /\ \/ pc'[Worker] = pc[Worker] /\ cur' = cur
                \/ pc'[Worker] \notin {"execute", "save", "save_locked"}
  <2>1. \E l \in {"idle", "done"} : Goto(t, l)
    BY <1>4, Zenon DEF Leave, Answer
  <2>2. inhand' = [inhand EXCEPT ![t] = None] /\ (t = Worker \/ cur' = cur)
    BY <1>4, Zenon DEF Leave
  <2> QED BY <1>2, <2>1, <2>2, GotoFrame, Zenon
<1> QED BY <1>1, <1>3, <1>4, Zenon

\* A commit that is retried or ends changes nothing an execution reads; one that is given up
\* leaves a gap, after which no block is saved until the node restarts.
LEMMA CommitSerial ==
    ASSUME IndInv, SerialInv, NEW t \in Miners, CommitBlock(t) \/ PermSaveFails(t) \/ PublishMined(t)
    PROVE  SerialInv'
<1> USE DEF IndInv
<1>1. /\ UNCHANGED <<pending, latest, blocks, accounts, input, saw>>
      /\ \A u \in Miners : u # t => pc'[u] = pc[u] /\ inhand'[u] = inhand[u]
      /\ \/ pc'[Worker] = pc[Worker] /\ cur' = cur
         \/ pc'[Worker] \notin {"execute", "save", "save_locked"}
  BY CommitMoves, Zenon
<1>2. UNCHANGED <<Mined, TxsOfLatest, View>> /\ SerialChain' /\ accounts' = TRUE
  BY <1>1, Zenon DEF Mined, TxsOfLatest, View, SerialChain, SerialInv, SerialOpen
<1>3. FreshExecution'
  BY <1>1, <1>2, FreshFrame, Zenon DEF SerialInv
<1>4. CASE PublishMined(t) /\ pc[t] = "publish" /\ pc'[t] \in {"idle", "done"} /\ lost' = lost
  <2>1. Uncommitted' = Uncommitted /\ t \notin Uncommitted
    BY <1>1, <1>4, Zenon DEF Uncommitted
  <2>2. \A u \in Miners : InFlight(u)' => u # t /\ InFlight(u)
    BY <1>1, <1>4, Zenon DEF InFlight
  <2>3. \A u \in Uncommitted : u \in Miners /\ inhand'[u] = inhand[u]
    BY <1>1, <2>1, Zenon DEF Uncommitted
  <2>4. SerialOpen'
    BY <1>1, <1>2, <1>4, <2>1, <2>2, <2>3, Zenon DEF SerialOpen, SerialInv
  <2> QED BY <1>2, <1>3, <2>4, Zenon DEF SerialInv
<1>5. CASE /\ pc[t] \in {"commit", "write"} /\ pc'[t] \in {"commit", "write"}
           /\ inhand' = inhand /\ lost' = lost
  <2>1. Uncommitted' = Uncommitted
    BY <1>1, <1>5, Zenon DEF Uncommitted
  <2>2. \A u \in Miners : InFlight(u)' => InFlight(u)
    BY <1>1, <1>5, Zenon DEF InFlight
  <2>3. SerialOpen'
    BY <1>1, <1>5, <2>1, <2>2, SerialFrame, Zenon DEF SerialInv
  <2> QED BY <1>2, <1>3, <2>3, Zenon DEF SerialInv
<1>6. CASE /\ pc[t] \in {"commit", "write"} /\ pc'[t] \in {"idle", "done"}
           /\ lost' = lost + 1
  <2>1. lost' # 0
    BY <1>6 DEF TypeOK
  <2>2. \A u \in Miners : InFlight(u)' => u # t /\ InFlight(u)
    BY <1>1, <1>6, Zenon DEF InFlight
  <2>3. SerialOpen'
    BY <1>1, <1>2, <2>1, <2>2, Zenon DEF SerialOpen, SerialInv
  <2> QED BY <1>2, <1>3, <2>3, Zenon DEF SerialInv
<1> QED BY <1>4, <1>5, <1>6, CommitMoves, Zenon

\* Where a block is written: on top of the chain, with no gap before it.
LEMMA WriteExtends ==
    ASSUME IndInv, NEW t \in Miners, PermSaveBlock(t)
    PROVE  LET k == inhand[t].header.number
           IN  /\ k \in Nat /\ k \notin DOMAIN blocks /\ lost = 0
               /\ DOMAIN blocks = 0..(k - 1)
               /\ DOMAIN blocks' = 0..k /\ blocks'[k] = inhand[t]
               /\ \A n \in DOMAIN blocks : blocks'[n] = blocks[n]
               /\ Mined' = Mined \cup TxsIn(inhand[t])
<1> USE DEF IndInv
<1> DEFINE k == inhand[t].header.number
<1>1. /\ pc[t] = "write"
      /\ blocks' = [n \in DOMAIN blocks \cup {k} |-> IF n = k THEN inhand[t] ELSE blocks[n]]
  BY Zenon DEF PermSaveBlock
<1>2. ~Publishing
  <2>1. \A u \in Miners : Mining(u) => u = t
    BY <1>1, OnlyMiner, Zenon DEF Mining
  <2> QED BY <1>1, <2>1, Zenon DEF Publishing, Mining
<1>3. lost = 0 /\ k = NextToMine
  BY <1>1, Zenon DEF Accounting
<1>4. mined \in Nat /\ ((DOMAIN blocks = {} /\ mined = 0) \/ DOMAIN blocks = 0..mined)
  BY <1>2, Zenon DEF Accounting, TypeOK
<1>5. k \in Nat /\ k \notin DOMAIN blocks /\ DOMAIN blocks = 0..(k - 1)
  BY <1>3, <1>4 DEF NextToMine
<1> HIDE DEF k
<1>6. DOMAIN blocks \cup {k} = 0..k
  BY <1>5
<1>7. /\ DOMAIN blocks' = 0..k /\ blocks'[k] = inhand[t]
      /\ \A n \in DOMAIN blocks : blocks'[n] = blocks[n]
  BY <1>1, <1>5, <1>6, Zenon
<1>8. DOMAIN blocks' = DOMAIN blocks \cup {k}
  BY <1>6, <1>7, Zenon
<1>9. Mined' = Mined \cup TxsIn(inhand[t])
  BY <1>7, <1>8, Zenon DEF Mined
<1> QED BY <1>3, <1>5, <1>7, <1>9, Zenon DEF k

\* The block that is written ran on the chain below it, and moves from the last finished block
\* to the mined state: what an execution reads is the same.
LEMMA WriteSerial ==
    ASSUME IndInv, SerialInv, NEW t \in Miners, PermSaveBlock(t)
    PROVE  SerialInv'
<1> USE DEF IndInv
<1> DEFINE k == inhand[t].header.number
           base == {GenesisAccounts} \cup Mined
<1>1. /\ UNCHANGED <<pending, latest, accounts, inhand, lost, input, saw, cur>>
      /\ pc[t] = "write" /\ Goto(t, "publish")
  BY Zenon DEF PermSaveBlock, workerVars, tempVars
<1>2. pc'[t] = "publish" /\ \A u \in Miners : u # t => pc'[u] = pc[u]
  <2>1. t \in Threads /\ Miners \subseteq Threads
    BY Zenon DEF Threads
  <2> QED BY <1>1, <2>1, GotoFrame, Zenon
<1>3. /\ k \in Nat /\ lost = 0 /\ DOMAIN blocks = 0..(k - 1) /\ DOMAIN blocks' = 0..k
      /\ blocks'[k] = inhand[t] /\ \A n \in DOMAIN blocks : blocks'[n] = blocks[n]
      /\ Mined' = Mined \cup TxsIn(inhand[t])
  BY WriteExtends, Zenon
<1>4. latest = inhand[t] /\ RanOn(inhand[t], base)
  BY <1>1, <1>3, Zenon DEF SerialInv, SerialOpen, InFlight, Uncommitted
<1>5. TxsOfLatest = TxsIn(inhand[t]) /\ TxsOfLatest' = TxsOfLatest
  <2>1. inhand[t] \in Block
    BY <1>1, Zenon DEF Accounting, InFlight
  <2> QED BY <1>1, <1>4, <2>1, NoneAssumption, Zenon DEF TxsOfLatest
<1> HIDE DEF k
<1>6. SerialChain'
  <2>1. MinedBelow(blocks', k) = Mined
    <3>1. {m \in DOMAIN blocks' : m < k} = DOMAIN blocks
      BY <1>3
    <3> QED BY <1>3, <3>1, Zenon DEF MinedBelow, Mined
  <2>2. ASSUME NEW n \in DOMAIN blocks PROVE MinedBelow(blocks', n) = MinedBelow(blocks, n)
    <3>1. /\ {m \in DOMAIN blocks' : m < n} = {m \in DOMAIN blocks : m < n}
          /\ \A m \in {j \in DOMAIN blocks : j < n} : blocks'[m] = blocks[m]
      BY <1>3
    <3> QED BY <3>1, Zenon DEF MinedBelow
  <2>3. \A n \in DOMAIN blocks' : n = k \/ n \in DOMAIN blocks
    BY <1>3
  <2>4. ASSUME NEW n \in DOMAIN blocks
        PROVE  RanOn(blocks'[n], {GenesisAccounts} \cup MinedBelow(blocks', n))
    BY <1>3, <2>2, Zenon DEF SerialChain, SerialInv
  <2>5. RanOn(blocks'[k], {GenesisAccounts} \cup MinedBelow(blocks', k))
    BY <1>3, <1>4, <2>1, Zenon
  <2> QED BY <2>3, <2>4, <2>5, Zenon DEF SerialChain
<1>7. Mined' \cup TxsOfLatest' = Mined \cup TxsOfLatest
  BY <1>3, <1>5, Zenon
<1>8. SerialOpen'
  <2>1. Uncommitted' = {}
    <3>1. \A u \in Miners : Mining(u) => u = t
      BY <1>1, OnlyMiner, Zenon DEF Mining
    <3> QED BY <1>2, <3>1, Zenon DEF Uncommitted, Mining
  <2>2. \A u \in Miners : InFlight(u)' => InFlight(u)
    BY <1>1, <1>2, Zenon DEF InFlight
  <2>3. TxsOfLatest' \subseteq Mined'
    BY <1>3, <1>5, Zenon
  <2>4. RanOn(pending, {GenesisAccounts} \cup Mined' \cup TxsOfLatest')
    <3>1. {GenesisAccounts} \cup Mined' \cup TxsOfLatest' = {GenesisAccounts} \cup Mined \cup TxsOfLatest
      BY <1>7, Zenon
    <3> QED BY <1>3, <3>1, Zenon DEF SerialInv, SerialOpen
  <2> QED BY <1>1, <2>1, <2>2, <2>3, <2>4, Zenon DEF SerialInv, SerialOpen
<1>9. View' = View
  BY <1>1, <1>7, Zenon DEF View
<1>10. FreshExecution'
  <2>1. pc'[Worker] = pc[Worker] \/ pc'[Worker] = "publish"
    BY <1>2, Zenon DEF Miners
  <2> QED BY <1>1, <1>9, <2>1, FreshFrame, Zenon DEF SerialInv
<1> QED BY <1>6, <1>8, <1>10, Zenon DEF SerialInv

\* A node that restarts finds its chain, or writes its genesis, and has nothing open.
LEMMA CrashSerial ==
    ASSUME IndInv, SerialInv, CrashAndRestart
    PROVE  SerialInv'
<1> USE DEF IndInv
<1>1. /\ \A t \in Threads : pc'[t] \in {"idle", "done"}
      /\ latest' = None /\ OpenStorage /\ (accounts => accounts' = TRUE)
      /\ \E n, ts : pending' = NewPending(n, ts)
  BY Zenon DEF CrashAndRestart, OpenStorage
<1>2. blocks' = blocks \/ \A n \in DOMAIN blocks' : blocks'[n] = GenesisBlock
  BY <1>1, Zenon DEF OpenStorage
<1>3. SerialChain'
  BY <1>2, NewRan, Zenon DEF SerialChain, SerialInv, GenesisBlock
<1>4. Uncommitted' = {} /\ \A t \in Miners : ~InFlight(t)'
  BY <1>1, Zenon DEF Uncommitted, InFlight, Threads
<1>5. TxsOfLatest' = {}
  BY <1>1, Zenon DEF TxsOfLatest
<1>6. \A base : RanOn(pending', base)
  BY <1>1, NewRan, Zenon
<1>7. accounts' = TRUE
  BY <1>1, Zenon DEF SerialInv, SerialOpen
<1>8. SerialOpen'
  BY <1>4, <1>5, <1>6, <1>7, Zenon DEF SerialOpen
<1>9. FreshExecution'
  <2>1. Worker \in Threads
    BY Zenon DEF Threads, Miners
  <2> QED BY <1>1, <2>1, Zenon DEF FreshExecution
<1> QED BY <1>3, <1>8, <1>9, Zenon DEF SerialInv

\* Every step of a node that nobody resets preserves SerialInv.
LEMMA SerialStep == Resetters = {} /\ IndInv /\ SerialInv /\ [Next]_vars => SerialInv'
<1> SUFFICES ASSUME Resetters = {}, IndInv, SerialInv, [Next]_vars PROVE SerialInv'
  BY Zenon
<1>1. ~\E r \in Resetters : Reset(r)
  BY Zenon
<1> QED BY <1>1, QuietSerial, SaveSerial, MineSerial, CommitSerial, WriteSerial, CrashSerial, Zenon
        DEF Next, WorkerStep, MineAndCommit

\* On a node that nobody resets every mined transaction ran on the state left by exactly the
\* transactions before it, for any number of requests, of evm_mine calls, of failed commits and
\* of crashes, in both modes.
THEOREM Serial == ASSUME NoGap, Resetters = {} PROVE Spec => []SerialExecution
<1>1. SerialInv => SerialExecution
  <2> SUFFICES ASSUME SerialInv, NEW n \in DOMAIN blocks, NEW i \in DOMAIN blocks[n].txs
               PROVE  blocks[n].txs[i].saw =
                        {GenesisAccounts}
                          \cup (UNION {TxsIn(blocks[m]) : m \in {k \in DOMAIN blocks : k < n}})
                          \cup {blocks[n].txs[j].tx : j \in 1..(i - 1)}
    BY Zenon DEF SerialExecution
  <2> QED BY Zenon DEF SerialInv, SerialChain, RanOn, Before, MinedBelow
<1>2. QED
  BY Inductive, SerialInit, SerialStep, <1>1, PTL DEF Spec


(***************************************************************************)
(* Block production implements Ledger, on a node that nobody resets.       *)
(***************************************************************************)
\* A concatenation splits where its parts met.
LEMMA ConcatSplits ==
    ASSUME NEW S, NEW s \in Seq(S), NEW t \in Seq(S)
    PROVE  /\ SubSeq(s \o t, 1, Len(s)) = s
           /\ SubSeq(s \o t, Len(s) + 1, Len(s \o t)) = t
<1>1. /\ s \o t \in Seq(S) /\ Len(s \o t) = Len(s) + Len(t)
      /\ \A i \in 1 .. Len(s) + Len(t) : (s \o t)[i] = IF i <= Len(s) THEN s[i] ELSE t[i - Len(s)]
  BY ConcatProperties, Zenon
<1>2. /\ Len(s) \in Nat /\ Len(t) \in Nat
      /\ \A i \in 1..Len(s \o t) : (s \o t)[i] \in S
  BY <1>1, LenProperties, ElementOfSeq, Zenon
<1> DEFINE u == s \o t
<1>3. SubSeq(u, 1, Len(s)) = s
  <2>1. \A i \in 1..Len(s) : u[i] \in S
    BY <1>1, <1>2
  <2>2. /\ SubSeq(u, 1, Len(s)) \in Seq(S) /\ Len(SubSeq(u, 1, Len(s))) = Len(s)
        /\ \A i \in 1..Len(s) : SubSeq(u, 1, Len(s))[i] = u[i]
    <3> HIDE DEF u
    <3>1. /\ SubSeq(u, 1, Len(s)) \in Seq(S)
          /\ Len(SubSeq(u, 1, Len(s))) = IF 1 <= Len(s) THEN Len(s) - 1 + 1 ELSE 0
          /\ \A i \in 1..(Len(s) - 1 + 1) : SubSeq(u, 1, Len(s))[i] = u[1 + i - 1]
      BY <1>2, <2>1, SubSeqProperties
    <3> QED BY <1>2, <3>1
  <2>3. \A i \in 1..Len(s) : u[i] = s[i]
    BY <1>1, <1>2
  <2> HIDE DEF u
  <2> QED BY <2>2, <2>3, SeqEqual, Zenon
<1>4. SubSeq(u, Len(s) + 1, Len(u)) = t
  <2> DEFINE v == SubSeq(u, Len(s) + 1, Len(u))
  <2>1. \A i \in (Len(s) + 1)..Len(u) : u[i] \in S
    BY <1>1, <1>2
  <2>2. Len(u) = Len(s) + Len(t)
    BY <1>1, Zenon
  <2>3. /\ v \in Seq(S) /\ Len(v) = Len(t)
        /\ \A i \in 1..Len(t) : v[i] = u[Len(s) + i]
    <3> HIDE DEF u
    <3>1. /\ v \in Seq(S)
          /\ Len(v) = IF Len(s) + 1 <= Len(u) THEN Len(u) - (Len(s) + 1) + 1 ELSE 0
          /\ \A i \in 1..(Len(u) - (Len(s) + 1) + 1) : v[i] = u[Len(s) + 1 + i - 1]
      BY <1>2, <2>1, <2>2, SubSeqProperties
    <3> HIDE DEF v
    <3>2. Len(u) - (Len(s) + 1) + 1 = Len(t) /\ (Len(s) + 1 <= Len(u) \/ Len(t) = 0)
      BY <1>2, <2>2
    <3>3. Len(v) = Len(t)
      BY <1>2, <2>2, <3>1
    <3>4. ASSUME NEW i \in 1..Len(t) PROVE v[i] = u[Len(s) + i]
      <4>1. Len(s) + 1 + i - 1 = Len(s) + i
        BY <1>2
      <4> QED BY <3>1, <3>2, <4>1, Zenon
    <3> QED BY <3>1, <3>3, <3>4, Zenon
  <2>4. \A i \in 1..Len(t) : u[Len(s) + i] = t[i]
    BY <1>1, <1>2
  <2> HIDE DEF u, v
  <2>5. v = t
    BY <2>3, <2>4, SeqEqual, Zenon
  <2> QED BY <2>5, Zenon DEF v
<1> QED BY <1>3, <1>4, Zenon

\* The transactions of a block, in order.
LEMMA TxSeqOf ==
    ASSUME NEW b \in Block
    PROVE  /\ TxSeq(b) \in Seq(Txs) /\ Len(TxSeq(b)) = Len(b.txs)
           /\ LedgerSpec!Entries(TxSeq(b)) = TxsIn(b)
<1>1. b.txs \in Seq(Execution) /\ Len(b.txs) \in Nat /\ DOMAIN b.txs = 1..Len(b.txs)
  BY DEF Block
<1>2. ASSUME NEW i \in 1..Len(b.txs) PROVE b.txs[i].tx \in Txs
  <2>1. b.txs[i] \in Execution
    BY <1>1, ElementOfSeq, Zenon
  <2> QED BY <2>1, Zenon DEF Execution
<1>3. TxSeq(b) = [i \in 1..Len(b.txs) |-> b.txs[i].tx]
  BY <1>1, Zenon DEF TxSeq
<1>4. TxSeq(b) \in Seq(Txs) /\ Len(TxSeq(b)) = Len(b.txs) /\ DOMAIN TxSeq(b) = DOMAIN b.txs
  BY <1>1, <1>2, <1>3
<1>5. LedgerSpec!Entries(TxSeq(b)) = TxsIn(b)
  BY <1>1, <1>3 DEF LedgerSpec!Entries, TxsIn
<1> QED BY <1>4, <1>5, Zenon

\* A new pending block has no transactions.
LEMMA TxSeqNew == ASSUME NEW n, NEW ts PROVE TxSeq(NewPending(n, ts)) = <<>>
BY DEF TxSeq, NewPending

\* At most one block is being committed.
LEMMA OneUncommitted ==
    ASSUME IndInv
    PROVE  /\ \A t \in Uncommitted : Uncommitted = {t} /\ t \in Miners /\ inhand[t] \in Block
           /\ \A t \in Miners : pc[t] \in {"mine", "publish"} => Uncommitted = {}
<1>1. \A t, u \in Miners : Mining(t) /\ Mining(u) => u = t
  BY OnlyMiner, Zenon DEF IndInv
<1>2. \A t \in Uncommitted : t \in Miners /\ Mining(t) /\ InFlight(t) /\ pc[t] \in {"commit", "write"}
  BY Zenon DEF Uncommitted, Mining, InFlight
<1>3. \A t \in Uncommitted : inhand[t] \in Block
  BY <1>2, Zenon DEF IndInv, Accounting
<1>4. \A t \in Uncommitted : Uncommitted = {t}
  BY <1>1, <1>2, Zenon
<1>5. ASSUME NEW t \in Miners, pc[t] \in {"mine", "publish"} PROVE Uncommitted = {}
  BY <1>1, <1>2, <1>5, Zenon DEF Mining
<1> QED BY <1>2, <1>3, <1>4, <1>5, Zenon

\* What the queue of the ledger is.
OpenShape ==
    /\ Uncommitted = {} => OpenTxs = TxSeq(pending)
    /\ \A t \in Uncommitted : OpenTxs = TxSeq(inhand[t]) \o TxSeq(pending)

\* OpenTxs, whose definition chooses the miner of the block in hand, is that.
LEMMA OpenIs ==
    IndInv => /\ OpenShape
              /\ TxSeq(pending) \in Seq(Txs)
              /\ LedgerSpec!Entries(TxSeq(pending)) = TxsIn(pending)
<1> SUFFICES ASSUME IndInv
             PROVE  /\ OpenShape
                    /\ TxSeq(pending) \in Seq(Txs)
                    /\ LedgerSpec!Entries(TxSeq(pending)) = TxsIn(pending)
  BY Zenon
<1>1. pending \in Block
  BY Zenon DEF IndInv, TypeOK
<1>2. TxSeq(pending) \in Seq(Txs) /\ LedgerSpec!Entries(TxSeq(pending)) = TxsIn(pending)
  BY <1>1, TxSeqOf, Zenon
<1>3. Uncommitted = {} => OpenTxs = TxSeq(pending)
  BY <1>2, ConcatEmptySeq, Zenon DEF OpenTxs
<1>4. ASSUME NEW t \in Uncommitted PROVE OpenTxs = TxSeq(inhand[t]) \o TxSeq(pending)
  <2>1. Uncommitted = {t}
    BY OneUncommitted, Zenon
  <2>2. (CHOOSE u \in Uncommitted : TRUE) = t /\ Uncommitted # {}
    BY <2>1, Zenon
  <2> QED BY <2>2, Zenon DEF OpenTxs
<1> QED BY <1>2, <1>3, <1>4, Zenon DEF OpenShape

\* Everything in the queue and in the chain is what an execution reads.
LEMMA OpenSeen ==
    ASSUME IndInv, SerialInv
    PROVE  OpenTxs \in Seq(Txs) /\ LedgerSpec!InChain \cup LedgerSpec!Entries(OpenTxs) \subseteq View
<1>1. OpenTxs \in Seq(Txs) /\ LedgerSpec!Entries(OpenTxs) \subseteq TxsIn(pending) \cup TxsOfLatest
  <2>1. CASE Uncommitted = {}
    BY <2>1, OpenIs, Zenon DEF OpenShape
  <2>2. ASSUME NEW t \in Uncommitted
        PROVE  OpenTxs \in Seq(Txs) /\ LedgerSpec!Entries(OpenTxs) \subseteq TxsIn(pending) \cup TxsOfLatest
    <3> DEFINE s == TxSeq(inhand[t])
               p == TxSeq(pending)
    <3>1. /\ inhand[t] \in Block /\ latest = inhand[t]
      BY OneUncommitted, Zenon DEF Uncommitted, InFlight, SerialInv, SerialOpen
    <3>2. TxsOfLatest = TxsIn(inhand[t])
      BY <3>1, NoneAssumption, Zenon DEF TxsOfLatest
    <3>3. s \in Seq(Txs) /\ LedgerSpec!Entries(s) = TxsIn(inhand[t])
      BY <3>1, TxSeqOf, Zenon
    <3>4. p \in Seq(Txs) /\ LedgerSpec!Entries(p) = TxsIn(pending) /\ OpenTxs = s \o p
      BY OpenIs, Zenon DEF OpenShape
    <3> HIDE DEF s, p
    <3>5. LedgerSpec!Entries(s \o p) \subseteq LedgerSpec!Entries(s) \cup LedgerSpec!Entries(p)
      BY <3>3, <3>4 DEF LedgerSpec!Entries
    <3> QED BY <3>2, <3>3, <3>4, <3>5
  <2> QED BY <2>1, <2>2, Zenon
<1>2. LedgerSpec!InChain \subseteq Mined
  <2>1. ASSUME NEW i \in DOMAIN ChainTxs
        PROVE  LedgerSpec!Entries(ChainTxs[i]) \subseteq Mined
    <3>1. i - 1 \in DOMAIN blocks /\ ChainTxs[i] = TxSeq(blocks[i - 1])
      <4>1. \/ DOMAIN blocks = {} /\ Cardinality(DOMAIN blocks) = 0
            \/ \E m \in Nat : DOMAIN blocks = 0..m /\ Cardinality(DOMAIN blocks) = m + 1
        BY ChainIsRange, FS_EmptySet, FS_Interval
      <4> QED BY <4>1 DEF ChainTxs
    <3>2. blocks[i - 1] \in Block
      BY <3>1, Zenon DEF IndInv, TypeOK
    <3> QED BY <3>1, <3>2, TxSeqOf, MinedHas, Zenon
  <2> QED BY <2>1, Zenon DEF LedgerSpec!InChain
<1> QED BY <1>1, <1>2, Zenon DEF View

\* A step that moves no block and saves no execution is none of the ledger's.
LEMMA LedgerFrame ==
    ASSUME UNCHANGED <<pending, blocks>>, Uncommitted' = Uncommitted, inhand' = inhand \/ Uncommitted = {}
    PROVE  UNCHANGED <<ChainTxs, OpenTxs>>
<1>1. ChainTxs' = ChainTxs
  BY Zenon DEF ChainTxs
<1>2. CASE inhand' = inhand
  <2>1. (CHOOSE t \in Uncommitted : TRUE)' = CHOOSE t \in Uncommitted : TRUE
    BY Zenon
  <2>2. OpenTxs' = OpenTxs
    BY <1>2, <2>1, Zenon DEF OpenTxs
  <2> QED BY <1>1, <2>2, Zenon
<1>3. CASE Uncommitted = {}
  <2>1. OpenTxs = <<>> \o TxSeq(pending)
    BY <1>3, Zenon DEF OpenTxs
  <2>2. Uncommitted' = {}
    BY <1>3, Zenon
  <2>3. OpenTxs' = <<>> \o TxSeq(pending')
    BY <2>2, Zenon DEF OpenTxs
  <2> QED BY <1>1, <2>1, <2>3, Zenon
<1> QED BY <1>2, <1>3, Zenon

\* A saved execution is accepted: its transaction is in none of what it read.
LEMMA SaveAccepts ==
    ASSUME IndInv, IndInv', SerialInv, SaveExecution \/ SaveExecutionLocked
    PROVE  [LedgerSpec!Next]_<<ChainTxs, OpenTxs>>
<1>1. UNCHANGED <<blocks, inhand>> /\ pc[Worker] \in {"save", "save_locked"}
  BY Zenon DEF SaveExecution, SaveExecutionLocked, permVars
<1>2. Worker \in Threads /\ cur \in Requests
  BY <1>1, Zenon DEF Threads, Miners, IndInv, WorkerBusy
<1>3. \E l \in {"idle", "mine_and_commit", "header"} : Goto(Worker, l)
  BY Zenon DEF SaveExecution, SaveExecutionLocked, Answer
<1>4. /\ pc'[Worker] \in {"idle", "mine_and_commit", "header"}
      /\ \A t \in Threads : t # Worker => pc'[t] = pc[t]
  BY <1>2, <1>3, GotoFrame, Zenon DEF IndInv
<1>5. Uncommitted' = Uncommitted
  BY <1>1, <1>4, Zenon DEF Uncommitted, Threads
<1>6. CASE UNCHANGED pending
  BY <1>1, <1>5, <1>6, LedgerFrame, Zenon
<1>7. OpenShape'
  BY OpenIs, PTL
<1>8. CASE PushExecution /\ InputMatches
  <2> DEFINE x == TxOf[cur]
             e == [tx |-> x, input |-> input, saw |-> saw]
             p == TxSeq(pending)
  <2>1. x \notin View /\ x \in Txs
    BY <1>1, <1>2, <1>8, TxAssumption, Zenon DEF SerialInv, FreshExecution
  <2>2. /\ pending.txs \in Seq(Execution) /\ e \in Execution
        /\ pending'.txs = Append(pending.txs, e)
    BY <1>2, <1>8, PushAppends, Zenon DEF IndInv
  <2>3. pending' \in Block /\ pending \in Block
    BY Zenon DEF IndInv, TypeOK
  <2>4. /\ p \in Seq(Txs) /\ Len(p) = Len(pending.txs)
        /\ TxSeq(pending') \in Seq(Txs) /\ Len(TxSeq(pending')) = Len(pending'.txs)
    BY <2>3, TxSeqOf, Zenon
  <2>5. TxSeq(pending') = Append(p, x)
    <3> DEFINE n == Len(pending.txs)
    <3>1. /\ n \in Nat /\ Len(pending'.txs) = n + 1 /\ pending'.txs[n + 1] = e
          /\ \A i \in 1..n : pending'.txs[i] = pending.txs[i]
          /\ DOMAIN pending.txs = 1..n /\ DOMAIN pending'.txs = 1..(n + 1)
      <4> HIDE DEF e
      <4> QED BY <2>2
    <3>2. e.tx = x
      BY Zenon
    <3>3. /\ Append(p, x) \in Seq(Txs) /\ Len(Append(p, x)) = n + 1
          /\ Append(p, x)[n + 1] = x /\ \A i \in 1..n : Append(p, x)[i] = p[i]
      <4> HIDE DEF p, x
      <4> QED BY <2>1, <2>4, AppendProperties
    <3> HIDE DEF e, x, n
    <3>4. \A i \in 1..n : TxSeq(pending')[i] = p[i]
      BY <3>1 DEF TxSeq
    <3>5. TxSeq(pending')[n + 1] = x
      BY <3>1, <3>2 DEF TxSeq
    <3>6. \A i \in 1..(n + 1) : i \in 1..n \/ i = n + 1
      BY <3>1
    <3> HIDE DEF p
    <3>7. \A i \in 1..(n + 1) : TxSeq(pending')[i] = Append(p, x)[i]
      BY <3>3, <3>4, <3>5, <3>6, Zenon
    <3>8. Len(TxSeq(pending')) = n + 1
      BY <2>4, <3>1, Zenon
    <3> QED BY <2>4, <3>3, <3>7, <3>8, SeqEqual, Zenon
  <2>6. OpenTxs' = Append(OpenTxs, x)
    <3>1. CASE Uncommitted = {}
      <4>1. OpenTxs = p
        BY <3>1, OpenIs, Zenon DEF OpenShape
      <4>2. OpenTxs' = TxSeq(pending')
        BY <1>5, <1>7, <3>1, Zenon DEF OpenShape
      <4> QED BY <2>5, <4>1, <4>2, Zenon
    <3>2. ASSUME NEW t \in Uncommitted PROVE OpenTxs' = Append(OpenTxs, x)
      <4> DEFINE s == TxSeq(inhand[t])
      <4>1. OpenTxs = s \o p /\ s \in Seq(Txs)
        BY OpenIs, OneUncommitted, TxSeqOf, Zenon DEF OpenShape
      <4>2. OpenTxs' = s \o TxSeq(pending')
        <5>1. TxSeq(inhand'[t]) = s
          BY <1>1, Zenon
        <5> QED BY <1>5, <1>7, <5>1, Zenon DEF OpenShape
      <4> HIDE DEF s, p, x
      <4>3. s \o Append(p, x) = Append(s \o p, x)
        <5>1. Append(p, x) = p \o <<x>> /\ <<x>> \in Seq(Txs) /\ s \o p \in Seq(Txs)
          BY <2>1, <2>4, <4>1, AppendIsConcat, ConcatProperties
        <5>2. Append(s \o p, x) = (s \o p) \o <<x>>
          BY <2>1, <5>1, AppendIsConcat, Zenon
        <5> QED BY <2>4, <4>1, <5>1, <5>2, ConcatAssociative
      <4> QED BY <2>5, <4>1, <4>2, <4>3, Zenon
    <3> QED BY <3>1, <3>2, Zenon
  <2>7. x \notin LedgerSpec!InChain \cup LedgerSpec!Entries(OpenTxs)
    BY <2>1, OpenSeen, Zenon
  <2>8. ChainTxs' = ChainTxs
    BY <1>1, Zenon DEF ChainTxs
  <2>9. LedgerSpec!Accept(x)
    BY <2>6, <2>7, <2>8, Zenon DEF LedgerSpec!Accept
  <2> QED BY <2>1, <2>9, Zenon DEF LedgerSpec!Next
<1> QED BY <1>6, <1>8, Zenon DEF SaveExecution, SaveExecutionLocked

\* A finished block leaves the pending one for the hand of its miner: the queue stays.
LEMMA MineKeeps ==
    ASSUME IndInv, IndInv', NEW t \in Miners, MineLocal(t)
    PROVE  UNCHANGED <<ChainTxs, OpenTxs>>
<1>1. /\ UNCHANGED blocks /\ pc[t] = "mine" /\ Goto(t, "commit")
      /\ inhand' = [inhand EXCEPT ![t] = pending]
      /\ \E n, ts : pending' = NewPending(n, ts)
  BY Zenon DEF MineLocal, permVars
<1>2. inhand'[t] = pending /\ pc'[t] = "commit"
  <2>1. t \in Threads /\ inhand \in [Miners -> Block \cup {None}]
    BY Zenon DEF Threads, IndInv, TypeOK
  <2> QED BY <1>1, <2>1, GotoFrame, Zenon DEF IndInv
<1>3. Uncommitted = {} /\ t \in Uncommitted'
  BY <1>1, <1>2, OneUncommitted, Zenon DEF Uncommitted
<1>4. OpenTxs = TxSeq(pending) /\ TxSeq(pending) \in Seq(Txs)
  BY <1>3, OpenIs, Zenon DEF OpenShape
<1>5. OpenShape'
  BY OpenIs, PTL
<1>6. OpenTxs' = TxSeq(inhand'[t]) \o TxSeq(pending')
  BY <1>3, <1>5, Zenon DEF OpenShape
<1>7. TxSeq(pending') = <<>>
  BY <1>1, TxSeqNew, Zenon
<1>8. OpenTxs' = OpenTxs
  BY <1>2, <1>4, <1>6, <1>7, ConcatEmptySeq, Zenon
<1> QED BY <1>1, <1>8, Zenon DEF ChainTxs

\* A commit that is retried or ends moves nothing; one that is given up forgets its block.
LEMMA CommitForgets ==
    ASSUME IndInv, IndInv', NEW t \in Miners, CommitBlock(t) \/ PermSaveFails(t) \/ PublishMined(t)
    PROVE  [LedgerSpec!Next]_<<ChainTxs, OpenTxs>>
<1>1. /\ UNCHANGED <<pending, blocks>>
      /\ \A u \in Miners : u # t => pc'[u] = pc[u] /\ inhand'[u] = inhand[u]
  BY CommitMoves, Zenon
<1>2. CASE pc[t] = "publish" /\ pc'[t] \in {"idle", "done"}
  <2>1. Uncommitted = {}
    BY <1>2, OneUncommitted, Zenon
  <2>2. Uncommitted' = Uncommitted
    BY <1>1, <1>2, Zenon DEF Uncommitted
  <2> QED BY <1>1, <2>1, <2>2, LedgerFrame, Zenon
<1>3. CASE pc[t] \in {"commit", "write"} /\ pc'[t] \in {"commit", "write"} /\ inhand' = inhand
  <2>1. Uncommitted' = Uncommitted
    BY <1>1, <1>3, Zenon DEF Uncommitted
  <2> QED BY <1>1, <1>3, <2>1, LedgerFrame, Zenon
<1>4. CASE pc[t] \in {"commit", "write"} /\ pc'[t] \in {"idle", "done"}
  <2> DEFINE s == TxSeq(inhand[t])
             p == TxSeq(pending)
  <2>1. t \in Uncommitted
    BY <1>4, Zenon DEF Uncommitted
  <2>2. inhand[t] \in Block /\ Uncommitted = {t}
    BY <2>1, OneUncommitted, Zenon
  <2>3. Uncommitted' = {}
    BY <1>1, <1>4, <2>2, Zenon DEF Uncommitted
  <2>4. /\ OpenTxs = s \o p /\ s \in Seq(Txs) /\ p \in Seq(Txs)
    BY <2>1, <2>2, OpenIs, TxSeqOf, Zenon DEF OpenShape
  <2>5. OpenShape'
    BY OpenIs, PTL
  <2>6. OpenTxs' = p
    BY <1>1, <2>3, <2>5, Zenon DEF OpenShape
  <2>7. ChainTxs' = ChainTxs
    BY <1>1, Zenon DEF ChainTxs
  <2> HIDE DEF s, p
  <2>8. OpenTxs' = SubSeq(OpenTxs, Len(s) + 1, Len(OpenTxs)) /\ Len(s) \in 0..Len(OpenTxs)
    <3>1. SubSeq(s \o p, Len(s) + 1, Len(s \o p)) = p
      BY <2>4, ConcatSplits, Zenon
    <3>2. Len(s \o p) = Len(s) + Len(p) /\ Len(s) \in Nat /\ Len(p) \in Nat
      BY <2>4, ConcatProperties, LenProperties, Zenon
    <3> QED BY <2>4, <2>6, <3>1, <3>2
  <2>9. LedgerSpec!Forget(Len(s))
    BY <2>7, <2>8, Zenon DEF LedgerSpec!Forget
  <2> QED BY <2>8, <2>9, Zenon DEF LedgerSpec!Next
<1> QED BY <1>2, <1>3, <1>4, CommitMoves, Zenon

\* A function on 1..k is a sequence.
LEMMA TupleIsSeq ==
    ASSUME NEW S, NEW k \in Nat, NEW c \in [1..k -> S]
    PROVE  c \in Seq(S) /\ Len(c) = k
OBVIOUS

\* A block that is written seals what its miner had in hand.
LEMMA WriteSeals ==
    ASSUME IndInv, IndInv', NEW t \in Miners, PermSaveBlock(t)
    PROVE  LedgerSpec!Next
<1> DEFINE k == inhand[t].header.number
           s == TxSeq(inhand[t])
           p == TxSeq(pending)
<1>1. UNCHANGED <<pending, inhand>> /\ pc[t] = "write" /\ Goto(t, "publish")
  BY Zenon DEF PermSaveBlock, tempVars
<1>2. pc'[t] = "publish" /\ \A u \in Miners : u # t => pc'[u] = pc[u]
  <2>1. t \in Threads /\ Miners \subseteq Threads
    BY Zenon DEF Threads
  <2> QED BY <1>1, <2>1, GotoFrame, Zenon DEF IndInv
<1>3. t \in Uncommitted /\ inhand[t] \in Block /\ Uncommitted = {t}
  BY <1>1, OneUncommitted, Zenon DEF Uncommitted
<1>4. Uncommitted' = {}
  BY <1>2, <1>3, Zenon DEF Uncommitted
<1>5. OpenTxs = s \o p /\ s \in Seq(Txs) /\ p \in Seq(Txs)
  BY <1>3, OpenIs, TxSeqOf, Zenon DEF OpenShape
<1>6. OpenTxs' = p
  <2>1. OpenShape'
    BY OpenIs, PTL
  <2> QED BY <1>1, <1>4, <2>1, Zenon DEF OpenShape
<1>7. /\ k \in Nat /\ DOMAIN blocks = 0..(k - 1) /\ DOMAIN blocks' = 0..k
      /\ blocks'[k] = inhand[t] /\ \A n \in DOMAIN blocks : blocks'[n] = blocks[n]
  BY WriteExtends, Zenon
<1> HIDE DEF k, s, p
<1>8. ChainTxs = [i \in 1..k |-> TxSeq(blocks[i - 1])]
  <2>1. Cardinality(0..(k - 1)) = k
    BY <1>7, FS_Interval
  <2> QED BY <1>7, <2>1, Zenon DEF ChainTxs
<1>9. ChainTxs' = [i \in 1..(k + 1) |-> TxSeq(blocks'[i - 1])]
  <2>1. Cardinality(0..k) = k + 1
    BY <1>7, FS_Interval
  <2> QED BY <1>7, <2>1, Zenon DEF ChainTxs
<1>10. ChainTxs' = Append(ChainTxs, s)
  <2>1. ASSUME NEW i \in 1..k PROVE i - 1 \in DOMAIN blocks /\ ChainTxs[i] \in Seq(Txs) /\ ChainTxs'[i] = ChainTxs[i]
    <3>1. i - 1 \in DOMAIN blocks /\ i \in 1..(k + 1)
      BY <1>7
    <3>2. blocks[i - 1] \in Block /\ blocks'[i - 1] = blocks[i - 1]
      BY <1>7, <3>1, Zenon DEF IndInv, TypeOK
    <3>3. ChainTxs[i] = TxSeq(blocks[i - 1]) /\ ChainTxs'[i] = TxSeq(blocks'[i - 1])
      BY <1>8, <1>9, <3>1, Zenon
    <3> QED BY <3>1, <3>2, <3>3, TxSeqOf, Zenon
  <2>2. ChainTxs'[k + 1] = s
    <3>1. PICK i \in 1..(k + 1) : i = k + 1 /\ i - 1 = k
      BY <1>7
    <3>2. ChainTxs'[i] = TxSeq(blocks'[i - 1])
      BY <1>9, Zenon
    <3> QED BY <1>7, <3>1, <3>2, Zenon DEF s
  <2> DEFINE c == ChainTxs
             d == ChainTxs'
  <2>3. DOMAIN c = 1..k /\ DOMAIN d = 1..(k + 1)
    BY <1>8, <1>9, Zenon
  <2>4. c = [i \in DOMAIN c |-> c[i]] /\ d = [i \in DOMAIN d |-> d[i]]
    BY <1>8, <1>9, Zenon
  <2>5. \A i \in 1..(k + 1) : i \in 1..k \/ i = k + 1
    BY <1>7
  <2> HIDE DEF c, d
  <2>6. c \in Seq(Seq(Txs)) /\ Len(c) = k
    <3>1. c \in [1..k -> Seq(Txs)]
      BY <2>1, <2>3, <2>4, Zenon DEF c
    <3> QED BY <1>7, <3>1, TupleIsSeq, Zenon
  <2>7. \A i \in 1..(k + 1) : d[i] \in Seq(Txs)
    BY <1>5, <2>1, <2>2, <2>5, Zenon DEF c, d
  <2>8. d \in Seq(Seq(Txs)) /\ Len(d) = k + 1
    <3>1. d \in [1..(k + 1) -> Seq(Txs)] /\ k + 1 \in Nat
      BY <1>7, <2>3, <2>4, <2>7
    <3> QED BY <3>1, TupleIsSeq, Zenon
  <2>9. /\ Append(c, s) \in Seq(Seq(Txs)) /\ Len(Append(c, s)) = k + 1
        /\ Append(c, s)[k + 1] = s /\ \A i \in 1..k : Append(c, s)[i] = c[i]
    BY <1>5, <2>6, AppendProperties
  <2>10. \A i \in 1..(k + 1) : d[i] = Append(c, s)[i]
    BY <2>1, <2>2, <2>5, <2>9, Zenon DEF c, d
  <2>11. d = Append(c, s)
    BY <2>8, <2>9, <2>10, SeqEqual, Zenon
  <2> QED BY <2>11, Zenon DEF c, d
<1>11. /\ SubSeq(OpenTxs, 1, Len(s)) = s /\ SubSeq(OpenTxs, Len(s) + 1, Len(OpenTxs)) = p
       /\ Len(s) \in 0..Len(OpenTxs)
  <2>1. SubSeq(s \o p, 1, Len(s)) = s /\ SubSeq(s \o p, Len(s) + 1, Len(s \o p)) = p
    BY <1>5, ConcatSplits, Zenon
  <2>2. Len(s \o p) = Len(s) + Len(p) /\ Len(s) \in Nat /\ Len(p) \in Nat
    BY <1>5, ConcatProperties, LenProperties, Zenon
  <2> QED BY <1>5, <2>1, <2>2
<1>12. LedgerSpec!Seal(Len(s))
  BY <1>6, <1>10, <1>11, Zenon DEF LedgerSpec!Seal
<1> QED BY <1>11, <1>12, Zenon DEF LedgerSpec!Next

\* A crash forgets all that was open, and the restart finds the chain: without a reset the dev
\* build never lacks its genesis.
LEMMA CrashForgets ==
    ASSUME Resetters = {}, IndInv, IndInv', SerialInv, CrashAndRestart
    PROVE  LedgerSpec!Next
<1>1. /\ \A t \in Threads : pc'[t] \in {"idle", "done"}
      /\ OpenStorage /\ \E n, ts : pending' = NewPending(n, ts)
  BY Zenon DEF CrashAndRestart, OpenStorage
<1>2. blocks' = blocks
  <2>1. DOMAIN blocks = {} => ~Dev
    BY Zenon DEF IndInv, Accounting
  <2>2. DOMAIN blocks = {} \/ 0 \in DOMAIN blocks
    BY ChainIsRange
  <2> QED BY <1>1, <2>1, <2>2, Zenon DEF OpenStorage
<1>3. ChainTxs' = ChainTxs
  BY <1>2, Zenon DEF ChainTxs
<1>4. Uncommitted' = {}
  BY <1>1, Zenon DEF Uncommitted, Threads
<1>5. OpenTxs' = <<>>
  <2>1. OpenShape'
    BY OpenIs, PTL
  <2>2. TxSeq(pending') = <<>>
    BY <1>1, TxSeqNew, Zenon
  <2> QED BY <1>4, <2>1, <2>2, Zenon DEF OpenShape
<1>6. Len(OpenTxs) \in Nat
  BY OpenSeen, LenProperties, Zenon
<1>7. SubSeq(OpenTxs, Len(OpenTxs) + 1, Len(OpenTxs)) = <<>>
  BY <1>6, SubSeqEmpty
<1>8. LedgerSpec!Forget(Len(OpenTxs)) /\ Len(OpenTxs) \in 0..Len(OpenTxs)
  BY <1>3, <1>5, <1>6, <1>7 DEF LedgerSpec!Forget
<1> QED BY <1>8, Zenon DEF LedgerSpec!Next

\* Every step of a node that nobody resets is a step of the ledger or none.
LEMMA LedgerStep ==
    Resetters = {} /\ IndInv /\ IndInv' /\ SerialInv /\ [Next]_vars
      => [LedgerSpec!Next]_<<ChainTxs, OpenTxs>>
<1> SUFFICES ASSUME Resetters = {}, IndInv, IndInv', SerialInv, [Next]_vars
             PROVE  [LedgerSpec!Next]_<<ChainTxs, OpenTxs>>
  BY Zenon
<1>1. ~\E r \in Resetters : Reset(r)
  BY Zenon
<1>2. ASSUME \/ \E r \in Requests : Submit(r)
             \/ WorkerRecv \/ ReadPendingHeader \/ Execute \/ LockSaveExecution \/ Tick
             \/ \E p \in BOOLEAN : SetPaused(p)
             \/ \E c \in Callers : EvmMine(c)
             \/ \E t \in Miners : LockMineAndCommit(t)
             \/ UNCHANGED vars
      PROVE  UNCHANGED <<ChainTxs, OpenTxs>>
  <2>1. UNCHANGED <<pending, blocks, inhand>>
    BY <1>2, Zenon DEF Submit, WorkerRecv, ReadPendingHeader, Execute, LockSaveExecution, Tick,
       SetPaused, EvmMine, LockMineAndCommit, vars, tempVars, permVars, minerVars
  <2>2. \A t \in Miners : pc'[t] \in {"commit", "write"} <=> pc[t] \in {"commit", "write"}
    BY <1>2, QuietPc, Zenon DEF Threads, IndInv
  <2>3. Uncommitted' = Uncommitted
    BY <2>2, Zenon DEF Uncommitted
  <2> QED BY <2>1, <2>3, LedgerFrame, Zenon
<1> QED BY <1>1, <1>2, SaveAccepts, MineKeeps, CommitForgets, WriteSeals, CrashForgets, Zenon
        DEF Next, WorkerStep, MineAndCommit

\* A new database maps to an empty ledger, or to the one with the genesis of the dev build.
LEMMA LedgerInit == Init => LedgerSpec!Init
<1> SUFFICES ASSUME Init PROVE LedgerSpec!Init
  BY Zenon
<1>1. \A t \in Threads : pc[t] \in {"idle", "ready"}
  BY Zenon DEF Init
<1>2. Uncommitted = {}
  BY <1>1, Zenon DEF Uncommitted, Threads
<1>3. TxSeq(pending) = <<>>
  BY TxSeqNew, Zenon DEF Init
<1>4. OpenTxs = <<>>
  <2>1. OpenTxs = <<>> \o <<>>
    BY <1>2, <1>3, Zenon DEF OpenTxs
  <2> QED BY <2>1
<1>5. ChainTxs \in {<<>>, <<<<>>>>}
  <2>1. CASE Dev
    <3>1. blocks = [n \in {0} |-> GenesisBlock]
      BY <2>1, Zenon DEF Init
    <3>2. DOMAIN blocks = {0} /\ blocks[0] = GenesisBlock
      BY <3>1, Zenon
    <3>3. Cardinality(DOMAIN blocks) = 1
      BY <3>2, FS_Singleton, Zenon
    <3>4. TxSeq(blocks[0]) = <<>>
      BY <3>2, TxSeqNew, Zenon DEF GenesisBlock
    <3>5. ChainTxs = [i \in 1..1 |-> TxSeq(blocks[i - 1])]
      BY <3>3, Zenon DEF ChainTxs
    <3>6. ChainTxs = <<<<>>>>
      BY <3>4, <3>5
    <3> QED BY <3>6, Zenon
  <2>2. CASE ~Dev
    <3>1. DOMAIN blocks = {}
      BY <2>2, Zenon DEF Init
    <3>2. Cardinality(DOMAIN blocks) = 0
      BY <3>1, FS_EmptySet, Zenon
    <3>3. ChainTxs = <<>>
      BY <3>2 DEF ChainTxs
    <3> QED BY <3>3, Zenon
  <2> QED BY <2>1, <2>2, Zenon
<1> QED BY <1>4, <1>5, Zenon DEF LedgerSpec!Init

\* On a node that nobody resets block production implements Ledger: transactions reach the chain
\* in the order their executions were saved, each once, blocks are only added at its end, and
\* only a crash or a commit given up forgets an accepted one.  It holds for any number of
\* requests, of evm_mine calls, of failed writes and of crashes, in both modes.
THEOREM RefinesLedger == ASSUME NoGap, Resetters = {} PROVE Spec => ImplementsLedger
<1>1. QED
  BY Inductive, SerialInit, SerialStep, LedgerInit, LedgerStep, PTL
  DEF Spec, ImplementsLedger, LedgerSpec!Spec
=============================================================================
