----------------------- MODULE BlockProductionProofs ------------------------
(***************************************************************************)
(* IndInv is an invariant of BlockProduction, and what block production    *)
(* owes its clients follows from it.  First facts about the operators and  *)
(* what the steps (a failed commit, a thread that leaves, one that keeps   *)
(* the numbers) do; then every step preserves the parts about the worker,  *)
(* the locks and the types, and the account of the block numbers; then the *)
(* theorems about the chain; last, that a mined transaction ran under its  *)
(* block's header, and that in automine an acknowledged transaction is in  *)
(* RocksDB.                                                                *)
(***************************************************************************)
EXTENDS BlockProduction, SequenceTheorems, TLAPS


\* A commit that is given up cannot be the one of block zero: the dev build opens on
\* its genesis, and the interval miner never gives up.
NoGap == Mode = "interval" \/ Dev

\* A chain that starts at the genesis has it, and not the number after its last.
LEMMA RangeEnds ==
    ASSUME NEW m \in Nat
    PROVE  0 \in 0..m /\ m + 1 \notin 0..m
OBVIOUS

LEMMA NoneLost == ~(0 > 0)
OBVIOUS

\* What appending an execution leaves of a sequence.
LEMMA AppendFacts ==
    ASSUME NEW q \in Seq(Execution), NEW x \in Execution
    PROVE  /\ Len(q) \in Nat /\ DOMAIN q = 1..Len(q)
           /\ DOMAIN Append(q, x) = 1..(Len(q) + 1)
           /\ Append(q, x)[Len(q) + 1] = x
           /\ \A i \in 1..Len(q) : Append(q, x)[i] = q[i]
OBVIOUS

\* The last block of a chain without a gap is its highest number.
LEMMA LastBlockOfRange ==
    ASSUME NEW bs, NEW m \in Nat, DOMAIN bs = 0..m
    PROVE  LastBlock(bs) = m
<1>1. m \in DOMAIN bs /\ \A k \in DOMAIN bs : k <= m
  OBVIOUS
<1>2. ASSUME NEW n \in 0..m, \A k \in 0..m : k <= n
      PROVE  n = m
  BY <1>2
<1>3. (CHOOSE n \in 0..m : \A k \in 0..m : k <= n) = m
  BY <1>1, <1>2, Zenon
<1>4. QED
  BY <1>1, <1>3, Zenon DEF LastBlock

\* The last block of an empty database is taken to be 0, as read_mined_block_number does.
LEMMA LastBlockOfNone ==
    ASSUME NEW bs, DOMAIN bs = {}
    PROVE  LastBlock(bs) = 0
BY Zenon DEF LastBlock

\* A fresh pending block is well typed.
LEMMA NewPendingType ==
    ASSUME NEW n \in Nat, NEW ts \in Nat
    PROVE  /\ NewPending(n, ts) \in Block
           /\ NewPending(n, ts).header.number = n
BY DEF NewPending, Block, Header

\* The genesis block is a block with the number 0.
LEMMA GenesisType == GenesisBlock \in Block /\ GenesisBlock.header.number = 0
BY NewPendingType, Zenon DEF GenesisBlock

\* The number of a block is a natural number.
LEMMA NumberType ==
    ASSUME NEW b \in Block
    PROVE  b.header.number \in Nat
BY Zenon DEF Block, Header

\* Opening the database at the first start establishes the inductive invariant.
LEMMA InitInv == Init => IndInv
<1> SUFFICES ASSUME Init PROVE IndInv
  BY Zenon
<1>1. GenesisBlock \in Block /\ pending \in Block /\ pending.header.number = IF Dev THEN 1 ELSE 0
  <2>1. PendingNumberOf(blocks, mined) = IF Dev THEN 1 ELSE 0
    BY ModeAssumption DEF Init, PendingNumberOf
  <2>2. pending = NewPending(IF Dev THEN 1 ELSE 0, 0)
    BY <2>1, Zenon DEF Init
  <2>3. QED
    BY <2>2, NewPendingType, Zenon DEF GenesisBlock, NewPending
<1>2. TypeOK
  <2>1. /\ queue \in Seq(Requests)
        /\ reply \in [Requests -> {"none", "waiting"} \cup Outcomes]
        /\ cur \in Requests \cup {None}
        /\ input \in Header
        /\ saw \in SUBSET (Txs \cup {GenesisAccounts})
    BY DEF Init, Header
  <2>2. DOMAIN blocks \subseteq Nat /\ blocks \in [DOMAIN blocks -> Block]
    BY <1>1, ModeAssumption DEF Init
  <2>3. /\ latest \in Block \cup {None}
        /\ clock \in Nat /\ accounts \in BOOLEAN /\ mined \in Nat
        /\ paused \in BOOLEAN
        /\ lost \in Nat /\ errors \in Nat /\ crashes \in Nat
    BY Zenon DEF Init
  <2>4. /\ locks \in [LockNames -> Threads \cup {None}]
        /\ inhand \in [Miners -> Block \cup {None}]
        /\ pc \in [Threads -> WorkerLabels \cup ResetLabels]
    BY Zenon DEF Init, WorkerLabels, MinerLabels, ResetLabels
  <2>5. QED
    BY <1>1, <2>1, <2>2, <2>3, <2>4, Zenon DEF TypeOK
<1>3. WorkerBusy /\ LockDiscipline
  BY ThreadAssumption, Zenon DEF Init, WorkerBusy, LockDiscipline, Mining, Threads, Miners,
     ResetLabels
<1>4. Accounting
  <2>1. \A n \in DOMAIN blocks : blocks[n].header.number = n
    BY Zenon DEF Init, GenesisBlock, NewPending
  <2>2. DOMAIN blocks = IF Dev THEN 0..0 ELSE {}
    BY DEF Init
  <2>3. \A t \in Miners : ~InFlight(t) /\ pc[t] = "idle"
    BY Zenon DEF Init, InFlight, Threads
  <2>4. \A r \in Resetters : pc[r] = "ready"
    BY ThreadAssumption, Zenon DEF Init, Threads, Miners
  <2>5. mined = 0 /\ lost = 0
    BY Zenon DEF Init
  <2>6. QED
    BY <1>1, <2>1, <2>2, <2>3, <2>4, <2>5 DEF Accounting, Resetting, Publishing, NextToMine
<1>5. QED
  BY <1>2, <1>3, <1>4, Zenon DEF IndInv

\* The transactions taken from pending executions are transactions.
LEMMA TxsInType ==
    ASSUME NEW b \in Block
    PROVE  TxsIn(b) \subseteq Txs
<1>1. b.txs \in Seq(Execution)
  BY Zenon DEF Block
<1>2. ASSUME NEW i \in DOMAIN b.txs
      PROVE  b.txs[i].tx \in Txs
  <2>1. b.txs[i] \in Execution
    BY <1>1, <1>2, ElementOfSeq
  <2>2. QED
    BY <2>1, Zenon DEF Execution
<1>3. QED
  BY <1>2, Zenon DEF TxsIn

\* What an execution reads are transactions and the genesis accounts.
LEMMA ViewType == TypeOK => View \subseteq Txs \cup {GenesisAccounts}
<1> SUFFICES ASSUME TypeOK PROVE View \subseteq Txs \cup {GenesisAccounts}
  BY Zenon
<1>1. Mined \subseteq Txs
  <2>1. \A n \in DOMAIN blocks : blocks[n] \in Block
    BY Zenon DEF TypeOK
  <2>2. \A n \in DOMAIN blocks : TxsIn(blocks[n]) \subseteq Txs
    BY <2>1, TxsInType, Zenon
  <2>3. QED
    BY <2>2, Zenon DEF Mined
<1>2. TxsOfLatest \subseteq Txs
  BY TxsInType, Zenon DEF TypeOK, TxsOfLatest
<1>3. TxsIn(pending) \subseteq Txs
  BY TxsInType, Zenon DEF TypeOK
<1>4. QED
  BY <1>1, <1>2, <1>3, Zenon DEF View

\* A saved execution leaves a block with the same header.
LEMMA PushType ==
    ASSUME TypeOK, cur \in Requests, PushExecution
    PROVE  pending' \in Block /\ pending'.header = pending.header
<1>1. [tx |-> TxOf[cur], input |-> input, saw |-> saw] \in Execution
  BY TxAssumption, Zenon DEF TypeOK, Execution
<1>2. pending.txs \in Seq(Execution) /\ pending.header \in Header
  BY Zenon DEF TypeOK, Block
<1>3. Append(pending.txs, [tx |-> TxOf[cur], input |-> input, saw |-> saw]) \in Seq(Execution)
  BY <1>1, <1>2, AppendProperties, Zenon
<1>4. QED
  BY <1>2, <1>3, Zenon DEF TypeOK, PushExecution, Block

\* The clock yields natural numbers.
LEMMA TimestampType == TypeOK => NextTimestamps \subseteq Nat
BY DEF TypeOK, NextTimestamps

\* Whatever a commit or a reset was doing, the blocks in RocksDB are 0..m for some m.
LEMMA ChainIsRange ==
    IndInv => DOMAIN blocks = {} \/ \E m \in Nat : DOMAIN blocks = 0..m
<1> SUFFICES ASSUME IndInv PROVE DOMAIN blocks = {} \/ \E m \in Nat : DOMAIN blocks = 0..m
  BY Zenon
<1>1. CASE ~Publishing
  BY <1>1, Zenon DEF IndInv, TypeOK, Accounting
<1>2. CASE Publishing
  <2>1. PICK t \in Miners : pc[t] = "publish"
    BY <1>2, Zenon DEF Publishing
  <2>2. inhand[t] \in Block /\ DOMAIN blocks = 0..inhand[t].header.number
    BY <2>1, Zenon DEF IndInv, Accounting, InFlight
  <2>3. QED
    BY <2>2, Zenon DEF Block, Header
<1>3. QED
  BY <1>1, <1>2, Zenon

\* What a restart finds: the blocks it had, or the genesis, and a pending number after
\* the last of them.
LEMMA OpenStorageInv ==
    ASSUME IndInv, OpenStorage
    PROVE  /\ DOMAIN blocks' \subseteq Nat /\ blocks' \in [DOMAIN blocks' -> Block]
           /\ mined' \in Nat /\ clock' \in Nat /\ pending' \in Block
           /\ accounts' \in BOOLEAN /\ latest' = None
           /\ \A n \in DOMAIN blocks' : blocks'[n].header.number = n
           /\ \/ DOMAIN blocks' = {} /\ mined' = 0 /\ ~Dev
              \/ DOMAIN blocks' = 0..mined'
           /\ pending'.header.number = IF DOMAIN blocks' = {} THEN 0 ELSE mined' + 1
<1>1. /\ DOMAIN blocks' \subseteq Nat /\ blocks' \in [DOMAIN blocks' -> Block]
      /\ \A n \in DOMAIN blocks' : blocks'[n].header.number = n
  <2>1. CASE Dev /\ 0 \notin DOMAIN blocks
    BY <2>1, NewPendingType DEF OpenStorage, GenesisBlock
  <2>2. CASE ~(Dev /\ 0 \notin DOMAIN blocks)
    <3>1. blocks' = blocks
      BY <2>2, Zenon DEF OpenStorage
    <3>2. QED
      BY <3>1, Zenon DEF IndInv, TypeOK, Accounting
  <2>3. QED
    BY <2>1, <2>2, Zenon
<1>2. (DOMAIN blocks' = {} /\ ~Dev) \/ \E m \in Nat : DOMAIN blocks' = 0..m
  <2>1. CASE Dev /\ 0 \notin DOMAIN blocks
    BY <2>1 DEF OpenStorage
  <2>2. CASE ~(Dev /\ 0 \notin DOMAIN blocks)
    <3>1. blocks' = blocks
      BY <2>2, Zenon DEF OpenStorage
    <3>2. QED
      BY <2>2, <3>1, ChainIsRange, Zenon
  <2>3. QED
    BY <2>1, <2>2, Zenon
<1>3. \/ DOMAIN blocks' = {} /\ mined' = 0 /\ ~Dev
      \/ mined' \in Nat /\ DOMAIN blocks' = 0..mined'
  <2>1. mined' = LastBlock(blocks')
    BY Zenon DEF OpenStorage
  <2>2. CASE DOMAIN blocks' = {} /\ ~Dev
    BY <2>1, <2>2, LastBlockOfNone, Zenon
  <2>3. CASE \E m \in Nat : DOMAIN blocks' = 0..m
    BY <2>1, <2>3, LastBlockOfRange, Zenon
  <2>4. QED
    BY <1>2, <2>2, <2>3, Zenon
<1>4. PICK ts \in NextTimestamps :
        clock' = ts /\ pending' = NewPending(PendingNumberOf(blocks', mined'), ts)
  BY Zenon DEF OpenStorage
<1>5. PendingNumberOf(blocks', mined') = IF DOMAIN blocks' = {} THEN 0 ELSE mined' + 1
  BY <1>3 DEF PendingNumberOf
<1>6. ts \in Nat
  BY <1>4, TimestampType, Zenon DEF IndInv
<1>7. pending' \in Block /\ pending'.header.number = IF DOMAIN blocks' = {} THEN 0 ELSE mined' + 1
  <2>1. PendingNumberOf(blocks', mined') \in Nat
    BY <1>3, <1>5
  <2>2. QED
    BY <1>4, <1>5, <1>6, <2>1, NewPendingType, Zenon
<1>8. accounts' \in BOOLEAN /\ latest' = None
  <2>1. accounts' = (accounts \/ (Dev /\ 0 \notin DOMAIN blocks)) /\ latest' = None
    BY Zenon DEF OpenStorage
  <2>2. QED
    BY <2>1, Zenon
<1>9. QED
  BY <1>1, <1>3, <1>4, <1>6, <1>7, <1>8

\* A thread that moves to a label moves alone.
LEMMA GotoFrame ==
    ASSUME TypeOK, NEW t \in Threads, NEW label, Goto(t, label)
    PROVE  pc'[t] = label /\ \A u \in Threads : u # t => pc'[u] = pc[u]
BY Zenon DEF TypeOK, Goto

ResetPhases == {"reset_temp", "reset_block", "reset_accounts"}
CommitPhases == {"commit", "write", "publish"}

\* While a thread mines, no other one does and no reset has begun to change anything.
LEMMA OnlyMiner ==
    ASSUME LockDiscipline, NEW t \in Miners, Mining(t)
    PROVE  /\ \A u \in Miners : Mining(u) => u = t
           /\ \A r \in Resetters : pc[r] \notin ResetPhases \cup {"reset_perm"}
BY ThreadAssumption, Zenon DEF LockDiscipline, ResetLabels, Miners, ResetPhases

\* While a reset changes the storage, no thread mines and no other reset runs.
LEMMA OnlyReset ==
    ASSUME LockDiscipline, NEW r \in Resetters, pc[r] \in ResetPhases \cup {"reset_perm"}
    PROVE  /\ \A t \in Miners : ~Mining(t)
           /\ \A q \in Resetters : pc[q] \in ResetPhases \cup {"reset_perm"} => q = r
BY ThreadAssumption, Zenon DEF LockDiscipline, ResetLabels, Miners, ResetPhases, Mining

\* A step that moves no thread into, out of or within a commit or a reset, and leaves the
\* numbers alone, preserves Accounting.
LEMMA AccountingFrame ==
    ASSUME Accounting,
           UNCHANGED <<blocks, mined, lost>>,
           pending'.header = pending.header,
           \A t \in Miners : \A l \in CommitPhases : (pc'[t] = l) <=> (pc[t] = l),
           \A t \in Miners : pc[t] \in CommitPhases => inhand'[t] = inhand[t],
           \A r \in Resetters : \A l \in ResetPhases : (pc'[r] = l) <=> (pc[r] = l)
    PROVE  Accounting'
<1>1. \A t \in Miners : InFlight(t)' <=> InFlight(t)
  BY Zenon DEF InFlight, CommitPhases
<1>2. Publishing' <=> Publishing
  BY Zenon DEF Publishing, CommitPhases
<1>3. Resetting' <=> Resetting
  BY Zenon DEF Resetting, ResetPhases
<1>4. NextToMine' = NextToMine
  BY Zenon DEF NextToMine
<1>5. QED
  BY <1>1, <1>2, <1>3, <1>4 DEF Accounting, CommitPhases, ResetPhases, InFlight

\* With no commit and no reset under way, Accounting says that the chain has no gap and that
\* the pending number is the next one past the blocks given up.
LEMMA QuietAccounting ==
    ASSUME \A t \in Miners : pc'[t] \notin CommitPhases,
           \A r \in Resetters : pc'[r] \notin ResetPhases,
           \A n \in DOMAIN blocks' : blocks'[n].header.number = n,
           \/ DOMAIN blocks' = {} /\ mined' = 0 /\ lost' = 0 /\ ~Dev
           \/ DOMAIN blocks' = 0..mined' /\ DOMAIN blocks' # {},
           pending'.header.number = (NextToMine + lost)'
    PROVE  Accounting'
<1>1. (\A t \in Miners : ~InFlight(t) /\ pc[t] \notin {"commit", "write", "publish"})'
  BY Zenon DEF InFlight, CommitPhases
<1>2. (\A r \in Resetters : pc[r] \notin {"reset_temp", "reset_block", "reset_accounts"})'
  BY Zenon DEF ResetPhases
<1>3. QED
  BY <1>1, <1>2, Zenon DEF Accounting

\* While one reset is under way and no commit is, Accounting says what the step the reset
\* has reached leaves in the storages.
LEMMA ResettingAccounting ==
    ASSUME NEW r \in Resetters, pc'[r] \in ResetPhases,
           \A t \in Miners : pc'[t] \notin CommitPhases,
           \A q \in Resetters : q # r => pc'[q] \notin ResetPhases,
           \A n \in DOMAIN blocks' : blocks'[n].header.number = n,
           mined' = 0,
           \/ pc'[r] \in {"reset_temp", "reset_block"} /\ DOMAIN blocks' = {}
           \/ pc'[r] = "reset_accounts" /\ DOMAIN blocks' = 0..0 /\ DOMAIN blocks' # {},
           pc'[r] # "reset_temp" => lost' = 0 /\ pending'.header.number = 1
    PROVE  Accounting'
<1>1. (\A t \in Miners : ~InFlight(t) /\ pc[t] \notin {"commit", "write", "publish"})'
  BY Zenon DEF InFlight, CommitPhases
<1>2. Resetting'
  BY Zenon DEF Resetting, ResetPhases
<1>3. (\A q \in Resetters :
         /\ pc[q] \in {"reset_temp", "reset_block"} => DOMAIN blocks = {}
         /\ pc[q] \in {"reset_block", "reset_accounts"} => lost = 0 /\ pending.header.number = 1
         /\ pc[q] = "reset_accounts" => DOMAIN blocks = 0..0)'
  BY Zenon DEF ResetPhases
<1>4. QED
  BY <1>1, <1>2, <1>3, Zenon DEF Accounting

\* A thread that releases every lock it owns and leaves breaks no other thread's claim.
LEMMA LeaveLocks ==
    ASSUME TypeOK, LockDiscipline, NEW t \in Threads, NEW label \in {"idle", "done"},
           locks' = [l \in LockNames |-> IF locks[l] = t THEN None ELSE locks[l]],
           pc' = [pc EXCEPT ![t] = label]
    PROVE  LockDiscipline'
<1>1. \A u \in Threads, l \in LockNames :
        pc'[u] \notin {"idle", "done"} /\ locks[l] = u => pc'[u] = pc[u] /\ locks'[l] = u
  BY Zenon DEF TypeOK
<1>2. \A u \in Threads : pc'[u] = pc[u] \/ pc'[u] \in {"idle", "done"}
  BY Zenon DEF TypeOK
<1>3. (pc[Worker] \in {"save_locked", "mine_and_commit", "mine", "commit", "write", "publish"}
         => locks["save_execution"] = Worker)'
  BY <1>1, <1>2 DEF LockDiscipline, LockNames, Threads
<1>4. (\A u \in Miners : /\ Mining(u) => locks["mine_and_commit"] = u
                         /\ pc[u] \in {"write", "publish"} => locks["commit"] = u)'
  <2>1. Miners \subseteq Threads
    BY Zenon DEF Miners, Threads
  <2>2. QED
    BY <1>1, <1>2, <2>1, Zenon DEF LockDiscipline, Mining, LockNames
<1>5. (\A q \in Resetters :
         /\ pc[q] \in ResetLabels \ {"ready", "done"} => locks["save_execution"] = q
         /\ pc[q] \in ResetLabels \ {"ready", "done", "reset_2"} => locks["mine_and_commit"] = q
         /\ pc[q] \in ResetLabels \ {"ready", "done", "reset_2", "reset_3"} => locks["mine"] = q
         /\ pc[q] \in ResetLabels \ {"ready", "done", "reset_2", "reset_3", "reset_4"}
              => locks["commit"] = q)'
  BY <1>1, <1>2 DEF LockDiscipline, LockNames, ResetLabels, Threads
<1>6. QED
  BY <1>3, <1>4, <1>5, Zenon DEF LockDiscipline

\* A commit that fails either is tried again or gives the block up and counts it.
LEMMA CommitFailsInv ==
    ASSUME NoGap, IndInv, NEW t \in Miners, pc[t] \in {"commit", "write"}, CommitFails(t),
           UNCHANGED <<pending, blocks, mined>>
    PROVE  Accounting'
<1> USE DEF IndInv
<1>1. /\ \A u \in Miners : u # t => pc[u] \notin CommitPhases
      /\ \A r \in Resetters : pc[r] \notin ResetPhases
  BY OnlyMiner, Zenon DEF Mining, CommitPhases
<1>2. /\ inhand[t] \in Block
      /\ inhand[t].header.number = NextToMine + lost
      /\ pending.header.number = inhand[t].header.number + 1
  BY DEF Accounting, InFlight, TypeOK, NextToMine
<1>3. /\ \A n \in DOMAIN blocks : blocks[n].header.number = n
      /\ (DOMAIN blocks = {} /\ mined = 0) \/ DOMAIN blocks = 0..mined
      /\ DOMAIN blocks = {} => lost = 0 /\ ~Dev
  BY <1>1, Zenon DEF Accounting, Publishing, CommitPhases, ResetPhases
<1>4. NextToMine' = NextToMine
  BY Zenon DEF NextToMine
<1>5. CASE t = IntervalMiner
  <2>1. /\ pc'[t] = "commit" /\ \A u \in Miners : u # t => pc'[u] = pc[u]
        /\ \A r \in Resetters : pc'[r] = pc[r]
        /\ UNCHANGED <<inhand, lost>>
    BY <1>5, ThreadAssumption, Zenon DEF CommitFails, Goto, TypeOK, Threads, Miners
  <2>2. /\ \A u \in Miners : u # t => pc'[u] \notin CommitPhases
        /\ \A r \in Resetters : pc'[r] \notin ResetPhases
    BY <1>1, <2>1, Zenon
  <2>3. /\ InFlight(t)' /\ ~Publishing' /\ ~Resetting'
        /\ \A u \in Miners : u # t => ~InFlight(u)'
    BY <2>1, <2>2, Zenon DEF InFlight, Publishing, Resetting, CommitPhases, ResetPhases
  <2>4. /\ \A n \in DOMAIN blocks' : blocks'[n].header.number = n
        /\ (DOMAIN blocks' = {} /\ mined' = 0) \/ DOMAIN blocks' = 0..mined'
        /\ DOMAIN blocks' = {} => lost' = 0 /\ ~Dev
    BY <1>3, <2>1, Zenon
  <2>5. \A u \in Miners :
          /\ InFlight(u)' => /\ inhand'[u] \in Block
                             /\ pending'.header.number = inhand'[u].header.number + 1
          /\ pc'[u] = "commit" => inhand'[u].header.number = (NextToMine + lost)'
          /\ pc'[u] \notin {"write", "publish"}
    BY <1>2, <1>4, <2>1, <2>2, <2>3, Zenon DEF CommitPhases
  <2>6. QED
    BY <2>2, <2>3, <2>4, <2>5, Zenon DEF Accounting, ResetPhases
<1>6. CASE t # IntervalMiner
  <2>1. /\ pc'[t] \in {"idle", "done"} /\ \A u \in Miners : u # t => pc'[u] = pc[u]
        /\ \A r \in Resetters : pc'[r] = pc[r]
        /\ lost' = lost + 1
    BY <1>6, ThreadAssumption DEF CommitFails, Leave, Answer, Goto, TypeOK, Threads, Miners
  <2>2. Dev
    BY <1>6, DevAssumption, ModeAssumption, Zenon DEF NoGap, WorkerBusy, Miners
  <2>3. DOMAIN blocks # {} /\ DOMAIN blocks = 0..mined
    BY <1>3, <2>2, Zenon
  <2>4. pending.header.number = NextToMine + lost'
    <3>1. NextToMine \in Nat /\ lost \in Nat
      BY DEF TypeOK, NextToMine
    <3>2. QED
      BY <1>2, <2>1, <3>1
  <2>5. \A u \in Miners : pc'[u] \notin CommitPhases
    BY <1>1, <2>1, Zenon DEF CommitPhases
  <2>6. \A r \in Resetters : pc'[r] \notin ResetPhases
    BY <1>1, <2>1, Zenon
  <2>7. QED
    BY <1>3, <1>4, <2>3, <2>4, <2>5, <2>6, Zenon
    DEF Accounting, InFlight, Resetting, Publishing, CommitPhases, ResetPhases
<1>7. QED
  BY <1>5, <1>6, Zenon

\* What a step of lock_state_for_reset takes, and where it leads.
LEMMA ResetStep ==
  ASSUME NEW r \in Resetters, NEW i \in 1..4, LockStateForReset(r, i)
  PROVE  \E l \in LockNames, label \in ResetLabels :
           /\ locks[l] = None
           /\ locks' = [locks EXCEPT ![l] = r]
           /\ pc' = [pc EXCEPT ![r] = label]
           /\ \/ pc[r] = "ready" /\ l = "save_execution" /\ label = "reset_2"
              \/ pc[r] = "reset_2" /\ l = "mine_and_commit" /\ label = "reset_3"
              \/ pc[r] = "reset_3" /\ l = "mine" /\ label = "reset_4"
              \/ pc[r] = "reset_4" /\ l = "commit" /\ label = "reset_perm"
<1>1. CASE i = 1
  BY <1>1 DEF LockStateForReset, Free, Take, Goto, ResetPc, LockOrder, LockNames, ResetLabels
<1>2. CASE i = 2
  BY <1>2 DEF LockStateForReset, Free, Take, Goto, ResetPc, LockOrder, LockNames, ResetLabels
<1>3. CASE i = 3
  BY <1>3 DEF LockStateForReset, Free, Take, Goto, ResetPc, LockOrder, LockNames, ResetLabels
<1>4. CASE i = 4
  BY <1>4 DEF LockStateForReset, Free, Take, Goto, ResetPc, LockOrder, LockNames, ResetLabels
<1>5. QED
  BY <1>1, <1>2, <1>3, <1>4

\* A commit that fails releases the commit lock to try again, or every lock to leave.
LEMMA CommitFailsLocks ==
  ASSUME IndInv, NEW t \in Miners, pc[t] \in {"commit", "write"}, CommitFails(t)
  PROVE  LockDiscipline'
<1> USE DEF IndInv
<1>1. CASE t = IntervalMiner
  BY <1>1, ThreadAssumption DEF CommitFails, Release, Goto, TypeOK, LockDiscipline, Mining,
     Miners, Threads, LockNames, ResetLabels
<1>2. CASE t # IntervalMiner
  <2>1. PICK label \in {"idle", "done"} : pc' = [pc EXCEPT ![t] = label]
    BY <1>2, Zenon DEF CommitFails, Leave, Answer, Goto
  <2>2. locks' = [l \in LockNames |-> IF locks[l] = t THEN None ELSE locks[l]]
    BY <1>2, Zenon DEF CommitFails, Leave, Release
  <2>3. QED
    BY <2>1, <2>2, LeaveLocks, Zenon DEF Threads, Miners
<1>3. QED
  BY <1>1, <1>2, Zenon

\* A commit that fails leaves every variable it touches in its type.
LEMMA CommitFailsType ==
  ASSUME TypeOK, NEW t \in Miners, CommitFails(t)
  PROVE  /\ inhand' \in [Miners -> Block \cup {None}]
         /\ locks' \in [LockNames -> Threads \cup {None}]
         /\ pc' \in [Threads -> WorkerLabels \cup ResetLabels]
         /\ reply' \in [Requests -> {"none", "waiting"} \cup Outcomes]
         /\ cur' \in Requests \cup {None}
         /\ lost' \in Nat
<1>1. CASE t = IntervalMiner
  BY <1>1, ThreadAssumption DEF CommitFails, Release, Goto, TypeOK, WorkerLabels,
     MinerLabels, Miners, Threads, LockNames
<1>2. CASE t # IntervalMiner
  <2>1. Leave(t, "error") /\ lost' = lost + 1
    BY <1>2, Zenon DEF CommitFails
  <2>2. inhand' \in [Miners -> Block \cup {None}] /\ lost' \in Nat
    BY <2>1 DEF Leave, TypeOK
  <2>3. locks' \in [LockNames -> Threads \cup {None}]
    BY <2>1, Zenon DEF Leave, Release, TypeOK
  <2>4. /\ pc' \in [Threads -> WorkerLabels \cup ResetLabels]
        /\ reply' \in [Requests -> {"none", "waiting"} \cup Outcomes]
        /\ cur' \in Requests \cup {None}
    <3>1. CASE t = Worker
      <4>1. /\ reply' = [reply EXCEPT ![cur] = "error"]
            /\ cur' = None
            /\ pc' = [pc EXCEPT ![Worker] = "idle"]
        BY <2>1, <3>1, Zenon DEF Leave, Answer, Goto
      <4>2. "error" \in Outcomes /\ "idle" \in WorkerLabels
        BY Zenon DEF Outcomes, WorkerLabels, MinerLabels
      <4>3. QED
        BY <4>1, <4>2, Zenon DEF TypeOK
    <3>2. CASE t # Worker
      <4>1. pc' = [pc EXCEPT ![t] = "done"] /\ reply' = reply /\ cur' = cur
        BY <1>2, <2>1, <3>2, Zenon DEF Leave, Goto
      <4>2. "done" \in ResetLabels
        BY Zenon DEF ResetLabels
      <4>3. QED
        BY <4>1, <4>2, Zenon DEF TypeOK
    <3>3. QED
      BY <3>1, <3>2, Zenon
  <2>5. QED
    BY <2>2, <2>3, <2>4, Zenon
<1>3. QED
  BY <1>1, <1>2, Zenon

-----------------------------------------------------------------------------
(***************************************************************************)
(* The worker, the locks and the types.                                    *)
(***************************************************************************)
\* No step leaves the worker mining or answering without a request.
LEMMA WorkerStepInv ==
    NoGap /\ IndInv /\ [Next]_vars => WorkerBusy'
<1> SUFFICES ASSUME NoGap, IndInv, [Next]_vars
             PROVE  WorkerBusy'
    BY Zenon
<1> USE DEF IndInv
<1>1. ASSUME NEW r \in Requests, Submit(r)
      PROVE  WorkerBusy'
  BY <1>1, ThreadAssumption, Zenon DEF Submit, workerVars, tempVars, permVars, minerVars,
     boundVars, TypeOK, WorkerBusy, Miners, Threads
<1>2. ASSUME WorkerRecv
      PROVE  WorkerBusy'
  BY <1>2, ThreadAssumption DEF WorkerRecv, Goto, workerVars, tempVars, permVars,
     minerVars, boundVars, TypeOK, WorkerBusy, Miners, Threads
<1>3. ASSUME ReadPendingHeader
      PROVE  WorkerBusy'
  BY <1>3, ThreadAssumption, Zenon DEF ReadPendingHeader, Goto, workerVars, tempVars, permVars,
     minerVars, boundVars, TypeOK, WorkerBusy, Miners, Threads
<1>4. ASSUME Execute
      PROVE  WorkerBusy'
  BY <1>4, ThreadAssumption, Zenon DEF Execute, Goto, Answer, workerVars, tempVars, permVars,
     minerVars, boundVars, TypeOK, WorkerBusy, Miners, Threads
<1>5. ASSUME SaveExecution
      PROVE  WorkerBusy'
  BY <1>5, ThreadAssumption, Zenon DEF SaveExecution, Goto, Answer, PushExecution, InputMatches,
     workerVars, tempVars, permVars, minerVars, boundVars, TypeOK, WorkerBusy, Miners,
     Threads
<1>6. ASSUME LockSaveExecution
      PROVE  WorkerBusy'
  BY <1>6, ThreadAssumption, Zenon DEF LockSaveExecution, Goto, Take, Free, workerVars, tempVars,
     permVars, minerVars, boundVars, TypeOK, WorkerBusy, Miners, Threads
<1>7. ASSUME SaveExecutionLocked
      PROVE  WorkerBusy'
  BY <1>7, ThreadAssumption, Zenon DEF SaveExecutionLocked, Goto, Release, PushExecution,
     InputMatches, workerVars, tempVars, permVars, minerVars, boundVars, TypeOK,
     WorkerBusy, Miners, Threads
<1>8. ASSUME Tick
      PROVE  WorkerBusy'
  BY <1>8, ThreadAssumption, Zenon DEF Tick, Goto, workerVars, tempVars, permVars, minerVars,
     boundVars, TypeOK, WorkerBusy, Miners, Threads
<1>9. ASSUME NEW p \in BOOLEAN, SetPaused(p)
      PROVE  WorkerBusy'
  BY <1>9, ThreadAssumption, Zenon DEF SetPaused, workerVars, tempVars, permVars, minerVars,
     boundVars, TypeOK, WorkerBusy, Miners, Threads
<1>10. ASSUME NEW c \in Callers, EvmMine(c)
      PROVE  WorkerBusy'
  BY <1>10, ThreadAssumption, Zenon DEF EvmMine, Goto, workerVars, tempVars, permVars, minerVars,
     boundVars, TypeOK, WorkerBusy, Miners, Threads
<1>11. ASSUME NEW t \in Miners, LockMineAndCommit(t)
      PROVE  WorkerBusy'
  BY <1>11, ThreadAssumption, Zenon DEF LockMineAndCommit, Goto, Take, Free, workerVars,
     tempVars, permVars, minerVars, boundVars, TypeOK, WorkerBusy, Miners, Threads
<1>12. ASSUME NEW t \in Miners, MineLocal(t)
      PROVE  WorkerBusy'
  BY <1>12, ThreadAssumption, Zenon DEF MineLocal, Goto, Free, workerVars, tempVars, permVars,
     minerVars, boundVars, TypeOK, WorkerBusy, Miners, Threads
<1>13. ASSUME NEW t \in Miners, CommitBlock(t)
      PROVE  WorkerBusy'
  BY <1>13, ThreadAssumption DEF CommitBlock, Goto, Free, Take, CommitFails, Leave,
     Answer, Release, workerVars, tempVars, permVars, minerVars, boundVars, TypeOK,
     WorkerBusy, Miners, Threads
<1>14. ASSUME NEW t \in Miners, PermSaveBlock(t)
      PROVE  WorkerBusy'
  BY <1>14, ThreadAssumption, Zenon DEF PermSaveBlock, Goto, workerVars, tempVars, permVars,
     minerVars, boundVars, TypeOK, WorkerBusy, Miners, Threads
<1>15. ASSUME NEW t \in Miners, PermSaveFails(t)
      PROVE  WorkerBusy'
  BY <1>15, ThreadAssumption, Zenon DEF PermSaveFails, CommitFails, Leave, Answer, Release, Goto,
     workerVars, tempVars, permVars, minerVars, boundVars, TypeOK, WorkerBusy, Miners,
     Threads
<1>16. ASSUME NEW t \in Miners, PublishMined(t)
      PROVE  WorkerBusy'
  BY <1>16, ThreadAssumption, Zenon DEF PublishMined, Leave, Answer, Release, Goto, workerVars,
     tempVars, permVars, minerVars, boundVars, TypeOK, WorkerBusy, Miners, Threads
<1>17. ASSUME NEW r \in Resetters, NEW i \in 1..4, LockStateForReset(r, i)
      PROVE  WorkerBusy'
  BY <1>17, ThreadAssumption, Zenon DEF LockStateForReset, Free, Take, Goto, ResetPc, LockOrder,
     workerVars, tempVars, permVars, minerVars, boundVars, TypeOK, WorkerBusy, Miners,
     Threads
<1>18. ASSUME NEW r \in Resetters, ResetPerm(r)
      PROVE  WorkerBusy'
  BY <1>18, ThreadAssumption, Zenon DEF ResetPerm, Goto, workerVars, tempVars, permVars,
     minerVars, boundVars, TypeOK, WorkerBusy, Miners, Threads
<1>19. ASSUME NEW r \in Resetters, ResetTemp(r)
      PROVE  WorkerBusy'
  BY <1>19, ThreadAssumption, Zenon DEF ResetTemp, Goto, workerVars, tempVars, permVars,
     minerVars, boundVars, TypeOK, WorkerBusy, Miners, Threads
<1>20. ASSUME NEW r \in Resetters, ResetSaveGenesis(r)
      PROVE  WorkerBusy'
  BY <1>20, ThreadAssumption, Zenon DEF ResetSaveGenesis, Goto, Release, workerVars, tempVars,
     permVars, minerVars, boundVars, TypeOK, WorkerBusy, Miners, Threads
<1>21. ASSUME NEW r \in Resetters, ResetSaveAccounts(r)
      PROVE  WorkerBusy'
  BY <1>21, ThreadAssumption, Zenon DEF ResetSaveAccounts, Goto, Release, workerVars, tempVars,
     permVars, minerVars, boundVars, TypeOK, WorkerBusy, Miners, Threads
<1>22. ASSUME CrashAndRestart
      PROVE  WorkerBusy'
  BY <1>22, ThreadAssumption, Zenon DEF CrashAndRestart, workerVars, tempVars, permVars,
     minerVars, boundVars, TypeOK, WorkerBusy, Miners, Threads
<1>23. CASE UNCHANGED vars
  BY <1>23, ThreadAssumption, Zenon DEF vars, workerVars, tempVars, permVars, minerVars,
     boundVars, TypeOK, WorkerBusy, Miners, Threads
<1>24. QED
  BY <1>1, <1>2, <1>3, <1>4, <1>5, <1>6, <1>7, <1>8, <1>9, <1>10, <1>11, <1>12, <1>13, <1>14,
     <1>15, <1>16, <1>17, <1>18, <1>19, <1>20, <1>21, <1>22, <1>23, Zenon
  DEF Next, WorkerStep, MineAndCommit, Reset

\* Every step preserves the ownership of the locks.
LEMMA LockStepInv ==
    NoGap /\ IndInv /\ [Next]_vars => LockDiscipline'
<1> SUFFICES ASSUME NoGap, IndInv, [Next]_vars
             PROVE  LockDiscipline'
    BY Zenon
<1> USE DEF IndInv
<1>1. ASSUME NEW r \in Requests, Submit(r)
      PROVE  LockDiscipline'
  BY <1>1, ThreadAssumption, Zenon DEF Submit, workerVars, tempVars, permVars, minerVars,
     boundVars, TypeOK, LockDiscipline, Mining, Miners, Threads, LockNames, ResetLabels
<1>2. ASSUME WorkerRecv
      PROVE  LockDiscipline'
  BY <1>2, ThreadAssumption, Zenon DEF WorkerRecv, Goto, workerVars, tempVars, permVars,
     minerVars, boundVars, TypeOK, LockDiscipline, Mining, Miners, Threads, LockNames,
     ResetLabels
<1>3. ASSUME ReadPendingHeader
      PROVE  LockDiscipline'
  BY <1>3, ThreadAssumption, Zenon DEF ReadPendingHeader, Goto, workerVars, tempVars, permVars,
     minerVars, boundVars, TypeOK, LockDiscipline, Mining, Miners, Threads, LockNames,
     ResetLabels
<1>4. ASSUME Execute
      PROVE  LockDiscipline'
  BY <1>4, ThreadAssumption DEF Execute, Goto, Answer, workerVars, tempVars, permVars,
     minerVars, boundVars, TypeOK, LockDiscipline, Mining, Miners, Threads, LockNames,
     ResetLabels
<1>5. ASSUME SaveExecution
      PROVE  LockDiscipline'
  BY <1>5, ThreadAssumption DEF SaveExecution, Goto, Answer, PushExecution, InputMatches,
     workerVars, tempVars, permVars, minerVars, boundVars, TypeOK, LockDiscipline, Mining,
     Miners, Threads, LockNames, ResetLabels
<1>6. ASSUME LockSaveExecution
      PROVE  LockDiscipline'
  BY <1>6, ThreadAssumption DEF LockSaveExecution, Goto, Take, Free, workerVars, tempVars,
     permVars, minerVars, boundVars, TypeOK, LockDiscipline, Mining, Miners, Threads,
     LockNames, ResetLabels
<1>7. ASSUME SaveExecutionLocked
      PROVE  LockDiscipline'
  BY <1>7, ThreadAssumption DEF SaveExecutionLocked, Goto, Release, PushExecution,
     InputMatches, workerVars, tempVars, permVars, minerVars, boundVars, TypeOK,
     LockDiscipline, Mining, Miners, Threads, LockNames, ResetLabels
<1>8. ASSUME Tick
      PROVE  LockDiscipline'
  BY <1>8, ThreadAssumption, Zenon DEF Tick, Goto, workerVars, tempVars, permVars, minerVars,
     boundVars, TypeOK, LockDiscipline, Mining, Miners, Threads, LockNames, ResetLabels
<1>9. ASSUME NEW p \in BOOLEAN, SetPaused(p)
      PROVE  LockDiscipline'
  BY <1>9, ThreadAssumption, Zenon DEF SetPaused, workerVars, tempVars, permVars, minerVars,
     boundVars, TypeOK, LockDiscipline, Mining, Miners, Threads, LockNames, ResetLabels
<1>10. ASSUME NEW c \in Callers, EvmMine(c)
      PROVE  LockDiscipline'
  BY <1>10, ThreadAssumption, Zenon DEF EvmMine, Goto, workerVars, tempVars, permVars, minerVars,
     boundVars, TypeOK, LockDiscipline, Mining, Miners, Threads, LockNames, ResetLabels
<1>11. ASSUME NEW t \in Miners, LockMineAndCommit(t)
      PROVE  LockDiscipline'
  BY <1>11, ThreadAssumption DEF LockMineAndCommit, Goto, Take, Free, workerVars,
     tempVars, permVars, minerVars, boundVars, TypeOK, LockDiscipline, Mining, Miners,
     Threads, LockNames, ResetLabels
<1>12. ASSUME NEW t \in Miners, MineLocal(t)
      PROVE  LockDiscipline'
  BY <1>12, ThreadAssumption, Zenon DEF MineLocal, Goto, Free, workerVars, tempVars, permVars,
     minerVars, boundVars, TypeOK, LockDiscipline, Mining, Miners, Threads, LockNames,
     ResetLabels
<1>13. ASSUME NEW t \in Miners, CommitBlock(t)
      PROVE  LockDiscipline'
  <2>1. CASE CommitFails(t)
    BY <1>13, <2>1, CommitFailsLocks, Zenon DEF CommitBlock
  <2>2. CASE ~CommitFails(t)
    BY <1>13, <2>2, ThreadAssumption DEF CommitBlock, Goto, Free, Take, TypeOK,
       LockDiscipline, Mining, Miners, Threads, LockNames, ResetLabels
  <2>3. QED
    BY <2>1, <2>2, Zenon
<1>14. ASSUME NEW t \in Miners, PermSaveBlock(t)
      PROVE  LockDiscipline'
  BY <1>14, ThreadAssumption, Zenon DEF PermSaveBlock, Goto, workerVars, tempVars, permVars,
     minerVars, boundVars, TypeOK, LockDiscipline, Mining, Miners, Threads, LockNames,
     ResetLabels
<1>15. ASSUME NEW t \in Miners, PermSaveFails(t)
      PROVE  LockDiscipline'
  BY <1>15, CommitFailsLocks, Zenon DEF PermSaveFails
<1>16. ASSUME NEW t \in Miners, PublishMined(t)
      PROVE  LockDiscipline'
  <2>1. PICK label \in {"idle", "done"} : pc' = [pc EXCEPT ![t] = label]
    BY <1>16, Zenon DEF PublishMined, Leave, Answer, Goto
  <2>2. locks' = [l \in LockNames |-> IF locks[l] = t THEN None ELSE locks[l]]
    BY <1>16, Zenon DEF PublishMined, Leave, Release
  <2>3. QED
    BY <2>1, <2>2, LeaveLocks, Zenon DEF Threads, Miners
<1>17. ASSUME NEW r \in Resetters, NEW i \in 1..4, LockStateForReset(r, i)
      PROVE  LockDiscipline'
  <2>1. PICK l \in LockNames, label \in ResetLabels :
           /\ locks[l] = None
           /\ locks' = [locks EXCEPT ![l] = r]
           /\ pc' = [pc EXCEPT ![r] = label]
           /\ \/ pc[r] = "ready" /\ l = "save_execution" /\ label = "reset_2"
              \/ pc[r] = "reset_2" /\ l = "mine_and_commit" /\ label = "reset_3"
              \/ pc[r] = "reset_3" /\ l = "mine" /\ label = "reset_4"
              \/ pc[r] = "reset_4" /\ l = "commit" /\ label = "reset_perm"
    BY <1>17, ResetStep, Zenon
  <2>2. r \in Threads /\ r \notin Miners /\ r # None
    BY ThreadAssumption, Zenon DEF Miners, Threads
  <2>3. (pc[Worker] \in {"save_locked", "mine_and_commit", "mine", "commit", "write", "publish"}
           => locks["save_execution"] = Worker)'
    BY <2>1, <2>2, ThreadAssumption, Zenon DEF TypeOK, LockDiscipline, Miners, Threads, LockNames
  <2>4. (\A t \in Miners : /\ Mining(t) => locks["mine_and_commit"] = t
                           /\ pc[t] \in {"write", "publish"} => locks["commit"] = t)'
    BY <2>1, <2>2, ThreadAssumption DEF TypeOK, LockDiscipline, Mining, Miners, Threads, LockNames
  <2>5. (\A q \in Resetters :
           /\ pc[q] \in ResetLabels \ {"ready", "done"} => locks["save_execution"] = q
           /\ pc[q] \in ResetLabels \ {"ready", "done", "reset_2"} => locks["mine_and_commit"] = q
           /\ pc[q] \in ResetLabels \ {"ready", "done", "reset_2", "reset_3"} => locks["mine"] = q
           /\ pc[q] \in ResetLabels \ {"ready", "done", "reset_2", "reset_3", "reset_4"}
                => locks["commit"] = q)'
    BY <2>1, <2>2, ThreadAssumption DEF TypeOK, LockDiscipline, Threads, LockNames, ResetLabels
  <2>6. QED
    BY <2>3, <2>4, <2>5, Zenon DEF LockDiscipline
<1>18. ASSUME NEW r \in Resetters, ResetPerm(r)
      PROVE  LockDiscipline'
  BY <1>18, ThreadAssumption, Zenon DEF ResetPerm, Goto, workerVars, tempVars, permVars,
     minerVars, boundVars, TypeOK, LockDiscipline, Mining, Miners, Threads, LockNames,
     ResetLabels
<1>19. ASSUME NEW r \in Resetters, ResetTemp(r)
      PROVE  LockDiscipline'
  BY <1>19, ThreadAssumption, Zenon DEF ResetTemp, Goto, workerVars, tempVars, permVars,
     minerVars, boundVars, TypeOK, LockDiscipline, Mining, Miners, Threads, LockNames,
     ResetLabels
<1>20. ASSUME NEW r \in Resetters, ResetSaveGenesis(r)
      PROVE  LockDiscipline'
  <2>1. ~SaveBlockRefuses(0)
    BY <1>20 DEF ResetSaveGenesis, Accounting, SaveBlockRefuses, MinedNumberConflict,
       PendingNumberConflict, BlockConflict
  <2>2. pc[r] = "reset_block" /\ Goto(r, "reset_accounts") /\ UNCHANGED locks
    BY <1>20, <2>1, Zenon DEF ResetSaveGenesis
  <2>3. QED
    BY <2>2, ThreadAssumption, Zenon DEF Goto, TypeOK, LockDiscipline, Mining, Miners, Threads,
       ResetLabels
<1>21. ASSUME NEW r \in Resetters, ResetSaveAccounts(r)
      PROVE  LockDiscipline'
  BY <1>21, ThreadAssumption, Zenon DEF ResetSaveAccounts, Goto, Release, workerVars, tempVars,
     permVars, minerVars, boundVars, TypeOK, LockDiscipline, Mining, Miners, Threads,
     LockNames, ResetLabels
<1>22. ASSUME CrashAndRestart
      PROVE  LockDiscipline'
  BY <1>22, ThreadAssumption, Zenon DEF CrashAndRestart, workerVars, tempVars, permVars,
     minerVars, boundVars, TypeOK, LockDiscipline, Mining, Miners, Threads, LockNames,
     ResetLabels
<1>23. CASE UNCHANGED vars
  BY <1>23, ThreadAssumption, Zenon DEF vars, workerVars, tempVars, permVars, minerVars,
     boundVars, TypeOK, LockDiscipline, Mining, Miners, Threads, LockNames, ResetLabels
<1>24. QED
  BY <1>1, <1>2, <1>3, <1>4, <1>5, <1>6, <1>7, <1>8, <1>9, <1>10, <1>11, <1>12, <1>13, <1>14,
     <1>15, <1>16, <1>17, <1>18, <1>19, <1>20, <1>21, <1>22, <1>23, Zenon
  DEF Next, WorkerStep, MineAndCommit, Reset

\* Every step preserves the type invariant.
LEMMA TypeStepInv ==
    NoGap /\ IndInv /\ [Next]_vars => TypeOK'
<1> SUFFICES ASSUME NoGap, IndInv, [Next]_vars
             PROVE  TypeOK'
    BY Zenon
<1> USE DEF IndInv
<1>1. ASSUME NEW r \in Requests, Submit(r)
      PROVE  TypeOK'
  BY <1>1 DEF Submit, workerVars, tempVars, permVars, minerVars, boundVars, TypeOK,
     WorkerLabels, MinerLabels, ResetLabels, Outcomes, Miners, Threads, LockNames
<1>2. ASSUME WorkerRecv
      PROVE  TypeOK'
  BY <1>2 DEF WorkerRecv, Goto, workerVars, tempVars, permVars, minerVars, boundVars,
     TypeOK, WorkerLabels, MinerLabels, ResetLabels, Outcomes, Miners, Threads, LockNames
<1>3. ASSUME ReadPendingHeader
      PROVE  TypeOK'
  BY <1>3, Zenon DEF ReadPendingHeader, Goto, workerVars, tempVars, permVars, minerVars,
     boundVars, TypeOK, WorkerLabels, MinerLabels, ResetLabels, Outcomes, Miners, Threads,
     LockNames, Block
<1>4. ASSUME Execute
      PROVE  TypeOK'
  <2>1. saw' \in SUBSET (Txs \cup {GenesisAccounts})
    BY <1>4, ViewType, Zenon DEF Execute, TypeOK
  <2>2. reply' \in [Requests -> {"none", "waiting"} \cup Outcomes] /\ cur' \in Requests \cup {None}
    BY <1>4, Zenon DEF Execute, Answer, TypeOK, Outcomes
  <2>3. pc' \in [Threads -> WorkerLabels \cup ResetLabels]
    BY <1>4, Zenon DEF Execute, Answer, Goto, TypeOK, WorkerLabels, MinerLabels
  <2>4. QED
    BY <1>4, <2>1, <2>2, <2>3, Zenon DEF Execute, tempVars, permVars, boundVars, TypeOK
<1>5. ASSUME SaveExecution
      PROVE  TypeOK'
  <2>1. pending' \in Block
    BY <1>5, PushType, Zenon DEF SaveExecution, WorkerBusy, TypeOK
  <2>2. QED
    BY <1>5, <2>1, Zenon DEF SaveExecution, Answer, Outcomes, Goto, TypeOK, WorkerLabels,
       MinerLabels, Threads, LockNames, workerVars, permVars, boundVars
<1>6. ASSUME LockSaveExecution
      PROVE  TypeOK'
  BY <1>6, Zenon DEF LockSaveExecution, Goto, Take, Free, workerVars, tempVars, permVars,
     minerVars, boundVars, TypeOK, WorkerLabels, MinerLabels, ResetLabels, Outcomes,
     Miners, Threads, LockNames
<1>7. ASSUME SaveExecutionLocked
      PROVE  TypeOK'
  <2>1. pending' \in Block
    BY <1>7, PushType, Zenon DEF SaveExecutionLocked, WorkerBusy, TypeOK
  <2>2. QED
    BY <1>7, <2>1, Zenon DEF SaveExecutionLocked, Release, Goto, TypeOK, WorkerLabels, MinerLabels,
       Threads, LockNames, workerVars, permVars, boundVars
<1>8. ASSUME Tick
      PROVE  TypeOK'
  BY <1>8, Zenon DEF Tick, Goto, workerVars, tempVars, permVars, minerVars, boundVars, TypeOK,
     WorkerLabels, MinerLabels, ResetLabels, Outcomes, Miners, Threads, LockNames
<1>9. ASSUME NEW p \in BOOLEAN, SetPaused(p)
      PROVE  TypeOK'
  BY <1>9, Zenon DEF SetPaused, workerVars, tempVars, permVars, minerVars, boundVars, TypeOK,
     WorkerLabels, MinerLabels, ResetLabels, Outcomes, Miners, Threads, LockNames
<1>10. ASSUME NEW c \in Callers, EvmMine(c)
      PROVE  TypeOK'
  BY <1>10, Zenon DEF EvmMine, Goto, workerVars, tempVars, permVars, minerVars, boundVars,
     TypeOK, WorkerLabels, MinerLabels, ResetLabels, Outcomes, Miners, Threads, LockNames
<1>11. ASSUME NEW t \in Miners, LockMineAndCommit(t)
      PROVE  TypeOK'
  BY <1>11, Zenon DEF LockMineAndCommit, Goto, Take, Free, workerVars, tempVars, permVars,
     minerVars, boundVars, TypeOK, WorkerLabels, MinerLabels, ResetLabels, Outcomes,
     Miners, Threads, LockNames
<1>12. ASSUME NEW t \in Miners, MineLocal(t)
      PROVE  TypeOK'
  <2>1. clock' \in Nat /\ pending' \in Block
    <3>1. PICK ts \in NextTimestamps : clock' = ts /\ pending' = NewPending(pending.header.number + 1, ts)
      BY <1>12, Zenon DEF MineLocal
    <3>2. ts \in Nat /\ pending.header.number + 1 \in Nat
      BY <3>1, TimestampType, NumberType DEF TypeOK
    <3>3. QED
      BY <3>1, <3>2, NewPendingType, Zenon
  <2>2. QED
    BY <1>12, <2>1, Zenon DEF MineLocal, Goto, TypeOK, WorkerLabels, MinerLabels, ResetLabels,
       Threads, workerVars, permVars, boundVars
<1>13. ASSUME NEW t \in Miners, CommitBlock(t)
      PROVE  TypeOK'
  <2>1. CASE CommitFails(t)
    <3>1. UNCHANGED <<queue, input, saw, tempVars, permVars, paused, boundVars>>
      BY <1>13, Zenon DEF CommitBlock
    <3>2. QED
      BY <2>1, <3>1, CommitFailsType, Zenon DEF TypeOK, tempVars, permVars, boundVars
  <2>2. CASE ~CommitFails(t)
    BY <1>13, <2>2, ThreadAssumption DEF CommitBlock, Goto, Take, tempVars, permVars,
       boundVars, TypeOK, WorkerLabels, MinerLabels, Miners, Threads, LockNames
  <2>3. QED
    BY <2>1, <2>2, Zenon
<1>14. ASSUME NEW t \in Miners, PermSaveBlock(t)
      PROVE  TypeOK'
  <2>1. inhand[t] \in Block /\ inhand[t].header.number \in Nat
    BY <1>14, NumberType, Zenon DEF PermSaveBlock, Accounting, InFlight
  <2>2. DOMAIN blocks' \subseteq Nat /\ blocks' \in [DOMAIN blocks' -> Block]
    BY <1>14, <2>1, Zenon DEF PermSaveBlock, TypeOK
  <2>3. pc' \in [Threads -> WorkerLabels \cup ResetLabels]
    BY <1>14, Zenon DEF PermSaveBlock, Goto, TypeOK, WorkerLabels, MinerLabels
  <2>4. QED
    BY <1>14, <2>2, <2>3, Zenon DEF PermSaveBlock, TypeOK, workerVars, tempVars, boundVars
<1>15. ASSUME NEW t \in Miners, PermSaveFails(t)
      PROVE  TypeOK'
  <2>1. /\ CommitFails(t)
        /\ errors' = errors + 1
        /\ UNCHANGED <<queue, input, saw, tempVars, permVars, paused, crashes>>
    BY <1>15, Zenon DEF PermSaveFails
  <2>2. QED
    BY <2>1, CommitFailsType DEF TypeOK, tempVars, permVars
<1>16. ASSUME NEW t \in Miners, PublishMined(t)
      PROVE  TypeOK'
  <2>1. mined' \in Nat
    BY <1>16, Zenon DEF PublishMined, Accounting, InFlight, Block, Header
  <2>2. QED
    BY <1>16, <2>1, Zenon DEF PublishMined, Leave, Release, Answer, Goto, TypeOK, Outcomes,
       WorkerLabels, MinerLabels, Threads, LockNames, tempVars, boundVars
<1>17. ASSUME NEW r \in Resetters, NEW i \in 1..4, LockStateForReset(r, i)
      PROVE  TypeOK'
  <2>1. PICK l \in LockNames, label \in ResetLabels :
           locks' = [locks EXCEPT ![l] = r] /\ pc' = [pc EXCEPT ![r] = label]
    BY <1>17, ResetStep
  <2>2. UNCHANGED <<workerVars, tempVars, permVars, inhand, paused, lost, boundVars>>
    BY <1>17, Zenon DEF LockStateForReset
  <2>3. QED
    BY <2>1, <2>2, Zenon DEF TypeOK, workerVars, tempVars, permVars, boundVars, Threads
<1>18. ASSUME NEW r \in Resetters, ResetPerm(r)
      PROVE  TypeOK'
  BY <1>18, Zenon DEF ResetPerm, Goto, workerVars, tempVars, permVars, minerVars, boundVars,
     TypeOK, WorkerLabels, MinerLabels, ResetLabels, Outcomes, Miners, Threads, LockNames
<1>19. ASSUME NEW r \in Resetters, ResetTemp(r)
      PROVE  TypeOK'
  <2>1. clock' \in Nat /\ pending' \in Block
    <3>1. PICK ts \in NextTimestamps : clock' = ts /\ pending' = NewPending(1, ts)
      BY <1>19, Zenon DEF ResetTemp
    <3>2. ts \in Nat /\ 1 \in Nat
      BY <3>1, TimestampType, NumberType, Zenon DEF TypeOK
    <3>3. QED
      BY <3>1, <3>2, NewPendingType, Zenon
  <2>2. QED
    BY <1>19, <2>1, Zenon DEF ResetTemp, Goto, TypeOK, WorkerLabels, MinerLabels, ResetLabels,
       Threads, workerVars, permVars, boundVars
<1>20. ASSUME NEW r \in Resetters, ResetSaveGenesis(r)
      PROVE  TypeOK'
  <2>1. DOMAIN blocks' \subseteq Nat /\ blocks' \in [DOMAIN blocks' -> Block]
    BY <1>20, GenesisType DEF ResetSaveGenesis, TypeOK
  <2>2. QED
    BY <1>20, <2>1, Zenon DEF ResetSaveGenesis, Release, Goto, TypeOK, ResetLabels, Threads,
       LockNames, workerVars, tempVars, boundVars
<1>21. ASSUME NEW r \in Resetters, ResetSaveAccounts(r)
      PROVE  TypeOK'
  BY <1>21, Zenon DEF ResetSaveAccounts, Goto, Release, workerVars, tempVars, permVars,
     minerVars, boundVars, TypeOK, WorkerLabels, MinerLabels, ResetLabels, Outcomes,
     Miners, Threads, LockNames
<1>22. ASSUME CrashAndRestart
      PROVE  TypeOK'
  <2>1. queue' \in Seq(Requests)
    BY <1>22 DEF CrashAndRestart
  <2>2. reply' \in [Requests -> {"none", "waiting"} \cup Outcomes]
    BY <1>22, Zenon DEF CrashAndRestart, TypeOK, Outcomes
  <2>3. pc' \in [Threads -> WorkerLabels \cup ResetLabels]
    BY <1>22, Zenon DEF CrashAndRestart, WorkerLabels, MinerLabels
  <2>4. OpenStorage
    BY <1>22, Zenon DEF CrashAndRestart
  <2>5. /\ pending' \in Block /\ latest' = None /\ clock' \in Nat
        /\ DOMAIN blocks' \subseteq Nat /\ blocks' \in [DOMAIN blocks' -> Block]
        /\ accounts' \in BOOLEAN /\ mined' \in Nat
    BY <2>4, OpenStorageInv, Zenon
  <2>6. /\ cur' \in Requests \cup {None} /\ input' \in Header
        /\ saw' \in SUBSET (Txs \cup {GenesisAccounts})
        /\ locks' \in [LockNames -> Threads \cup {None}]
        /\ inhand' \in [Miners -> Block \cup {None}]
    BY <1>22, Zenon DEF CrashAndRestart, TypeOK
  <2>7. paused' \in BOOLEAN
    BY <1>22, Zenon DEF CrashAndRestart
  <2>8. lost' \in Nat /\ errors' \in Nat /\ crashes' \in Nat
    BY <1>22 DEF CrashAndRestart, TypeOK
  <2>9. QED
    BY <2>1, <2>2, <2>3, <2>5, <2>6, <2>7, <2>8, Zenon DEF TypeOK
<1>23. CASE UNCHANGED vars
  BY <1>23, Zenon DEF vars, workerVars, tempVars, permVars, minerVars, boundVars, TypeOK,
     WorkerLabels, MinerLabels, ResetLabels, Outcomes, Miners, Threads, LockNames
<1>24. QED
  BY <1>1, <1>2, <1>3, <1>4, <1>5, <1>6, <1>7, <1>8, <1>9, <1>10, <1>11, <1>12, <1>13, <1>14,
     <1>15, <1>16, <1>17, <1>18, <1>19, <1>20, <1>21, <1>22, <1>23, Zenon
  DEF Next, WorkerStep, MineAndCommit, Reset


\* Every step preserves the account of the block numbers.
LEMMA AccountingStepInv ==
    NoGap /\ IndInv /\ [Next]_vars => Accounting'
<1> SUFFICES ASSUME NoGap, IndInv, [Next]_vars
             PROVE  Accounting'
    BY Zenon
<1> USE DEF IndInv
<1>1. ASSUME NEW r \in Requests, Submit(r)
      PROVE  Accounting'
  BY <1>1, AccountingFrame, ThreadAssumption, Zenon DEF Submit, workerVars, tempVars, permVars,
     minerVars, boundVars, TypeOK, CommitPhases, ResetPhases, Miners, Threads
<1>2. ASSUME WorkerRecv
      PROVE  Accounting'
  BY <1>2, AccountingFrame, ThreadAssumption, Zenon DEF WorkerRecv, Goto, workerVars, tempVars,
     permVars, minerVars, boundVars, TypeOK, CommitPhases, ResetPhases, Miners, Threads
<1>3. ASSUME ReadPendingHeader
      PROVE  Accounting'
  BY <1>3, AccountingFrame, ThreadAssumption, Zenon DEF ReadPendingHeader, Goto, workerVars,
     tempVars, permVars, minerVars, boundVars, TypeOK, CommitPhases, ResetPhases, Miners,
     Threads
<1>4. ASSUME Execute
      PROVE  Accounting'
  BY <1>4, AccountingFrame, ThreadAssumption, Zenon DEF Execute, Goto, Answer, workerVars,
     tempVars, permVars, minerVars, boundVars, TypeOK, CommitPhases, ResetPhases, Miners,
     Threads
<1>5. ASSUME SaveExecution
      PROVE  Accounting'
  <2>1. pending'.header = pending.header
    BY <1>5, PushType, Zenon DEF SaveExecution, WorkerBusy
  <2>2. QED
    BY <1>5, <2>1, AccountingFrame, ThreadAssumption, Zenon DEF SaveExecution, Goto, Answer,
       TypeOK, permVars, CommitPhases, ResetPhases, Miners, Threads
<1>6. ASSUME LockSaveExecution
      PROVE  Accounting'
  BY <1>6, AccountingFrame, ThreadAssumption, Zenon DEF LockSaveExecution, Goto, Take, Free,
     workerVars, tempVars, permVars, minerVars, boundVars, TypeOK, CommitPhases,
     ResetPhases, Miners, Threads
<1>7. ASSUME SaveExecutionLocked
      PROVE  Accounting'
  <2>1. pending'.header = pending.header
    BY <1>7, PushType, Zenon DEF SaveExecutionLocked, WorkerBusy
  <2>2. QED
    BY <1>7, <2>1, AccountingFrame, ThreadAssumption, Zenon DEF SaveExecutionLocked, Goto, Release,
       TypeOK, permVars, CommitPhases, ResetPhases, Miners, Threads
<1>8. ASSUME Tick
      PROVE  Accounting'
  BY <1>8, AccountingFrame, ThreadAssumption, Zenon DEF Tick, Goto, workerVars, tempVars,
     permVars, minerVars, boundVars, TypeOK, CommitPhases, ResetPhases, Miners, Threads
<1>9. ASSUME NEW p \in BOOLEAN, SetPaused(p)
      PROVE  Accounting'
  BY <1>9, AccountingFrame, ThreadAssumption, Zenon DEF SetPaused, workerVars, tempVars,
     permVars, minerVars, boundVars, TypeOK, CommitPhases, ResetPhases, Miners, Threads
<1>10. ASSUME NEW c \in Callers, EvmMine(c)
      PROVE  Accounting'
  BY <1>10, AccountingFrame, ThreadAssumption, Zenon DEF EvmMine, Goto, workerVars, tempVars,
     permVars, minerVars, boundVars, TypeOK, CommitPhases, ResetPhases, Miners, Threads
<1>11. ASSUME NEW t \in Miners, LockMineAndCommit(t)
      PROVE  Accounting'
  BY <1>11, AccountingFrame, ThreadAssumption, Zenon DEF LockMineAndCommit, Goto, Take, Free,
     workerVars, tempVars, permVars, minerVars, boundVars, TypeOK, CommitPhases,
     ResetPhases, Miners, Threads
<1>12. ASSUME NEW t \in Miners, MineLocal(t)
      PROVE  Accounting'
  <2>1. /\ \A u \in Miners : u # t => pc[u] \notin CommitPhases
        /\ \A r \in Resetters : pc[r] \notin ResetPhases
    BY <1>12, OnlyMiner, Zenon DEF MineLocal, Mining, CommitPhases
  <2>2. pending.header.number = NextToMine + lost
    BY <1>12, <2>1, Zenon DEF MineLocal, Accounting, InFlight, Resetting, CommitPhases, ResetPhases
  <2>3. /\ inhand'[t] = pending /\ pending \in Block
        /\ pending'.header.number = pending.header.number + 1
    BY <1>12 DEF MineLocal, TypeOK, NewPending
  <2>4. /\ pc'[t] = "commit" /\ \A u \in Miners : u # t => pc'[u] = pc[u]
        /\ \A r \in Resetters : pc'[r] = pc[r]
    BY <1>12, ThreadAssumption, Zenon DEF MineLocal, Goto, TypeOK, Threads, Miners
  <2>5. UNCHANGED <<blocks, mined, lost>>
    BY <1>12, Zenon DEF MineLocal, permVars
  <2>6. ~Publishing
    BY <1>12, <2>1, Zenon DEF MineLocal, Publishing, CommitPhases
  <2>7. QED
    BY <2>1, <2>2, <2>3, <2>4, <2>5, <2>6, Zenon
       DEF Accounting, InFlight, Resetting, Publishing, NextToMine, CommitPhases, ResetPhases
<1>13. ASSUME NEW t \in Miners, CommitBlock(t)
      PROVE  Accounting'
  <2>1. CASE SaveBlockRefuses(inhand[t].header.number)
    <3>1. CommitFails(t) /\ UNCHANGED <<pending, blocks, mined>>
      BY <1>13, <2>1, Zenon DEF CommitBlock, tempVars, permVars
    <3>2. QED
      BY <1>13, <3>1, CommitFailsInv, Zenon DEF CommitBlock
  <2>2. CASE ~SaveBlockRefuses(inhand[t].header.number)
    <3>1. /\ \A u \in Miners : u # t => pc[u] \notin CommitPhases
          /\ \A r \in Resetters : pc[r] \notin ResetPhases
      BY <1>13, OnlyMiner, Zenon DEF CommitBlock, Mining, CommitPhases
    <3>2. inhand[t].header.number = 0 \/ inhand[t].header.number = mined + 1
      BY <2>2, Zenon DEF SaveBlockRefuses, MinedNumberConflict
    <3>3. /\ inhand[t] \in Block
          /\ inhand[t].header.number = NextToMine + lost
          /\ pending.header.number = inhand[t].header.number + 1
      BY <1>13, Zenon DEF CommitBlock, Accounting, InFlight
    <3>4. DOMAIN blocks = {} => lost = 0
      BY <3>1, Zenon DEF Accounting, ResetPhases
    <3>5. lost = 0 /\ inhand[t].header.number = NextToMine
      BY <3>2, <3>3, <3>4 DEF NextToMine, TypeOK
    <3>6. /\ pc'[t] = "write" /\ \A u \in Miners : u # t => pc'[u] = pc[u]
          /\ \A r \in Resetters : pc'[r] = pc[r]
          /\ UNCHANGED <<inhand, lost, pending, blocks, mined>>
      BY <1>13, <2>2, ThreadAssumption, Zenon DEF CommitBlock, Goto, TypeOK, Threads, Miners,
         tempVars, permVars
    <3>7. ~Publishing
      BY <1>13, <3>1, Zenon DEF CommitBlock, Publishing, CommitPhases
    <3>8. NextToMine' = NextToMine /\ InFlight(t)'
      BY <3>6, Zenon DEF NextToMine, InFlight
    <3>9. (\A u \in Miners :
             /\ InFlight(u) => /\ inhand[u] \in Block
                               /\ pending.header.number = inhand[u].header.number + 1
             /\ pc[u] \notin {"commit", "publish"}
             /\ pc[u] = "write" => lost = 0 /\ inhand[u].header.number = NextToMine)'
      BY <3>1, <3>3, <3>5, <3>6, <3>8, Zenon DEF InFlight, CommitPhases
    <3>10. (\A r \in Resetters : pc[r] \notin {"reset_temp", "reset_block", "reset_accounts"})'
      BY <3>1, <3>6, Zenon DEF ResetPhases
    <3>11. /\ \A n \in DOMAIN blocks : blocks[n].header.number = n
           /\ (DOMAIN blocks = {} /\ mined = 0) \/ DOMAIN blocks = 0..mined
           /\ DOMAIN blocks = {} => lost = 0 /\ ~Dev
      BY <3>1, <3>7, Zenon DEF Accounting, ResetPhases
    <3>12. QED
      BY <3>6, <3>8, <3>9, <3>10, <3>11, Zenon DEF Accounting
  <2>3. QED
    BY <2>1, <2>2, Zenon
<1>14. ASSUME NEW t \in Miners, PermSaveBlock(t)
      PROVE  Accounting'
  <2>1. /\ \A u \in Miners : u # t => pc[u] \notin CommitPhases
        /\ \A r \in Resetters : pc[r] \notin ResetPhases
    BY <1>14, OnlyMiner, Zenon DEF PermSaveBlock, Mining, CommitPhases
  <2>2. /\ inhand[t] \in Block /\ lost = 0
        /\ inhand[t].header.number = NextToMine
        /\ pending.header.number = inhand[t].header.number + 1
    BY <1>14, Zenon DEF PermSaveBlock, Accounting, InFlight
  <2>3. DOMAIN blocks = {} \/ DOMAIN blocks = 0..mined
    BY <1>14, <2>1, Zenon DEF PermSaveBlock, Accounting, Publishing, CommitPhases
  <2>4. DOMAIN blocks' = 0..inhand[t].header.number
    <3>1. DOMAIN blocks' = DOMAIN blocks \cup {NextToMine}
      BY <1>14, <2>2, Zenon DEF PermSaveBlock
    <3>2. QED
      BY <2>2, <2>3, <3>1 DEF NextToMine, TypeOK
  <2>5. \A n \in DOMAIN blocks' : blocks'[n].header.number = n
    BY <1>14, Zenon DEF PermSaveBlock, Accounting
  <2>6. /\ pc'[t] = "publish"
        /\ \A u \in Miners : u # t => pc'[u] = pc[u]
        /\ \A r \in Resetters : pc'[r] = pc[r]
        /\ UNCHANGED <<inhand, lost, pending>>
    BY <1>14, ThreadAssumption, Zenon DEF PermSaveBlock, Goto, tempVars, TypeOK, Threads, Miners
  <2>7. Publishing' /\ InFlight(t)' /\ DOMAIN blocks' # {}
    <3>1. inhand[t].header.number \in Nat
      BY <2>2, NumberType, Zenon
    <3>2. 0 \in DOMAIN blocks'
      BY <2>4, <3>1
    <3>3. QED
      BY <2>6, <3>2, Zenon DEF Publishing, InFlight
  <2>8. (\A u \in Miners :
           /\ InFlight(u) => /\ inhand[u] \in Block
                             /\ pending.header.number = inhand[u].header.number + 1
           /\ pc[u] \notin {"commit", "write"}
           /\ pc[u] = "publish" => /\ lost = 0
                                   /\ DOMAIN blocks = 0..inhand[u].header.number)'
    BY <2>1, <2>2, <2>4, <2>6, Zenon DEF InFlight, CommitPhases
  <2>9. (\A r \in Resetters : pc[r] \notin {"reset_temp", "reset_block", "reset_accounts"})'
    BY <2>1, <2>6, Zenon DEF ResetPhases
  <2>10. QED
    BY <2>5, <2>7, <2>8, <2>9, Zenon DEF Accounting
<1>15. ASSUME NEW t \in Miners, PermSaveFails(t)
      PROVE  Accounting'
  BY <1>15, CommitFailsInv, Zenon DEF PermSaveFails, tempVars, permVars
<1>16. ASSUME NEW t \in Miners, PublishMined(t)
      PROVE  Accounting'
  <2>1. /\ \A u \in Miners : u # t => pc[u] \notin CommitPhases
        /\ \A r \in Resetters : pc[r] \notin ResetPhases
    BY <1>16, OnlyMiner, Zenon DEF PublishMined, Mining, CommitPhases
  <2>2. /\ inhand[t] \in Block /\ lost = 0
        /\ DOMAIN blocks = 0..inhand[t].header.number
        /\ pending.header.number = inhand[t].header.number + 1
        /\ \A n \in DOMAIN blocks : blocks[n].header.number = n
    BY <1>16, Zenon DEF PublishMined, Accounting, InFlight
  <2>3. /\ pc'[t] \in {"idle", "done"}
        /\ \A u \in Miners : u # t => pc'[u] = pc[u]
        /\ \A r \in Resetters : pc'[r] = pc[r]
        /\ mined' = inhand[t].header.number
        /\ UNCHANGED <<lost, pending, blocks>>
    BY <1>16, ThreadAssumption DEF PublishMined, Leave, Answer, Goto, tempVars, TypeOK,
       Threads, Miners
  <2>4. DOMAIN blocks' = 0..mined' /\ 0 \in DOMAIN blocks'
    BY <2>2, <2>3, NumberType
  <2>5. pending'.header.number = (NextToMine + lost)'
    BY <2>2, <2>3, <2>4, NumberType DEF NextToMine
  <2>6. \A u \in Miners : pc'[u] \notin CommitPhases
    BY <2>1, <2>3, Zenon DEF CommitPhases
  <2>7. QED
    BY <2>1, <2>2, <2>3, <2>4, <2>5, <2>6, QuietAccounting, Zenon
<1>17. ASSUME NEW r \in Resetters, NEW i \in 1..4, LockStateForReset(r, i)
      PROVE  Accounting'
  <2>1. PICK label \in ResetLabels :
           /\ pc' = [pc EXCEPT ![r] = label]
           /\ pc[r] \in {"ready", "reset_2", "reset_3", "reset_4"}
           /\ label \in {"reset_2", "reset_3", "reset_4", "reset_perm"}
    BY <1>17, ResetStep, Zenon
  <2>2. UNCHANGED <<pending, blocks, mined, lost, inhand>>
    BY <1>17, Zenon DEF LockStateForReset, tempVars, permVars
  <2>3. /\ \A t \in Miners : pc'[t] = pc[t]
        /\ \A q \in Resetters : q # r => pc'[q] = pc[q]
        /\ pc'[r] = label
    BY <2>1, ThreadAssumption, Zenon DEF TypeOK, Miners, Threads
  <2>4. \A q \in Resetters : \A l \in ResetPhases : (pc'[q] = l) <=> (pc[q] = l)
    BY <2>1, <2>3, Zenon DEF ResetPhases
  <2>5. QED
    BY <2>2, <2>3, <2>4, AccountingFrame, Zenon
<1>18. ASSUME NEW r \in Resetters, ResetPerm(r)
      PROVE  Accounting'
  <2>1. /\ \A t \in Miners : pc[t] \notin CommitPhases
        /\ \A q \in Resetters : q # r => pc[q] \notin ResetPhases
    BY <1>18, OnlyReset, Zenon DEF ResetPerm, Mining, CommitPhases, ResetPhases
  <2>2. /\ pc'[r] = "reset_temp"
        /\ \A t \in Miners : pc'[t] = pc[t]
        /\ \A q \in Resetters : q # r => pc'[q] = pc[q]
        /\ mined' = 0 /\ DOMAIN blocks' = {}
    BY <1>18, ThreadAssumption, Zenon DEF ResetPerm, Goto, TypeOK, Threads, Miners
  <2>3. QED
    BY <2>1, <2>2, ResettingAccounting, Zenon DEF ResetPhases
<1>19. ASSUME NEW r \in Resetters, ResetTemp(r)
      PROVE  Accounting'
  <2>1. /\ \A t \in Miners : pc[t] \notin CommitPhases
        /\ \A q \in Resetters : q # r => pc[q] \notin ResetPhases
    BY <1>19, OnlyReset, Zenon DEF ResetTemp, Mining, CommitPhases, ResetPhases
  <2>2. /\ pc'[r] = "reset_block"
        /\ \A t \in Miners : pc'[t] = pc[t]
        /\ \A q \in Resetters : q # r => pc'[q] = pc[q]
        /\ lost' = 0 /\ pending'.header.number = 1
        /\ UNCHANGED <<blocks, mined>>
    BY <1>19, ThreadAssumption DEF ResetTemp, Goto, NewPending, permVars, TypeOK, Threads,
       Miners
  <2>3. DOMAIN blocks = {} /\ mined = 0
    <3>1. DOMAIN blocks = {}
      BY <1>19, Zenon DEF ResetTemp, Accounting
    <3>2. mined = 0 \/ 0 \in DOMAIN blocks
      BY <2>1 DEF Accounting, Publishing, CommitPhases, TypeOK
    <3>3. QED
      BY <3>1, <3>2, Zenon
  <2>4. QED
    BY <2>1, <2>2, <2>3, ResettingAccounting, Zenon DEF ResetPhases
<1>20. ASSUME NEW r \in Resetters, ResetSaveGenesis(r)
      PROVE  Accounting'
  <2>1. /\ \A t \in Miners : pc[t] \notin CommitPhases
        /\ \A q \in Resetters : q # r => pc[q] \notin ResetPhases
    BY <1>20, OnlyReset, Zenon DEF ResetSaveGenesis, Mining, CommitPhases, ResetPhases
  <2>2. DOMAIN blocks = {} /\ lost = 0 /\ pending.header.number = 1
    BY <1>20, Zenon DEF ResetSaveGenesis, Accounting
  <2>3. ~SaveBlockRefuses(0)
    BY <2>2 DEF SaveBlockRefuses, MinedNumberConflict, PendingNumberConflict, BlockConflict
  <2>4. /\ DOMAIN blocks' = 0..0 /\ mined' = 0
        /\ \A n \in DOMAIN blocks' : blocks'[n].header.number = n
    BY <1>20, <2>2, <2>3, GenesisType DEF ResetSaveGenesis
  <2>5. /\ pc'[r] = "reset_accounts"
        /\ \A t \in Miners : pc'[t] = pc[t]
        /\ \A q \in Resetters : q # r => pc'[q] = pc[q]
        /\ UNCHANGED <<lost, pending>>
    BY <1>20, <2>3, ThreadAssumption DEF ResetSaveGenesis, Goto, tempVars, TypeOK, Threads, Miners
  <2>6. QED
    BY <2>1, <2>2, <2>4, <2>5, ResettingAccounting DEF ResetPhases
<1>21. ASSUME NEW r \in Resetters, ResetSaveAccounts(r)
      PROVE  Accounting'
  <2>1. /\ \A t \in Miners : pc[t] \notin CommitPhases
        /\ \A q \in Resetters : q # r => pc[q] \notin ResetPhases
    BY <1>21, OnlyReset, Zenon DEF ResetSaveAccounts, Mining, CommitPhases, ResetPhases
  <2>2. /\ DOMAIN blocks = 0..0 /\ lost = 0 /\ pending.header.number = 1
        /\ \A n \in DOMAIN blocks : blocks[n].header.number = n
    BY <1>21, Zenon DEF ResetSaveAccounts, Accounting
  <2>3. /\ pc'[r] = "done"
        /\ \A t \in Miners : pc'[t] = pc[t]
        /\ \A q \in Resetters : q # r => pc'[q] = pc[q]
        /\ mined' = 0 /\ UNCHANGED <<blocks, lost, pending>>
    BY <1>21, ThreadAssumption, Zenon DEF ResetSaveAccounts, Goto, tempVars, TypeOK, Threads,
       Miners
  <2>4. pending'.header.number = (NextToMine + lost)'
    <3>1. NextToMine' = 1
      BY <2>2, <2>3 DEF NextToMine
    <3>2. QED
      BY <2>2, <2>3, <3>1
  <2>5. \A q \in Resetters : pc'[q] \notin ResetPhases
    BY <2>1, <2>3, Zenon DEF ResetPhases
  <2>6. QED
    BY <2>1, <2>2, <2>3, <2>4, <2>5, QuietAccounting
<1>22. ASSUME CrashAndRestart
      PROVE  Accounting'
  <2>1. OpenStorage
    BY <1>22, Zenon DEF CrashAndRestart
  <2>2. /\ \A t \in Miners : pc'[t] \in {"idle", "done"}
        /\ \A r \in Resetters : pc'[r] = "done"
        /\ lost' = 0
    BY <1>22, ThreadAssumption, Zenon DEF CrashAndRestart, Threads, Miners
  <2>3. /\ mined' \in Nat
        /\ \A n \in DOMAIN blocks' : blocks'[n].header.number = n
        /\ \/ DOMAIN blocks' = {} /\ mined' = 0 /\ ~Dev
           \/ DOMAIN blocks' = 0..mined'
        /\ pending'.header.number = IF DOMAIN blocks' = {} THEN 0 ELSE mined' + 1
    BY <2>1, OpenStorageInv, Zenon
  <2>4. pending'.header.number = (NextToMine + lost)'
    <3>1. CASE DOMAIN blocks' = {}
      <4>1. pending'.header.number = 0 /\ NextToMine' = 0 /\ lost' = 0
        BY <2>2, <2>3, <3>1, Zenon DEF NextToMine
      <4>2. QED
        BY <4>1
    <3>2. CASE DOMAIN blocks' # {}
      <4>1. pending'.header.number = mined' + 1 /\ NextToMine' = mined' + 1 /\ lost' = 0
        BY <2>2, <2>3, <3>2, Zenon DEF NextToMine
      <4>2. mined' \in Nat
        BY <2>3, Zenon
      <4>3. (mined' + 1) + 0 = mined' + 1
        BY <4>2
      <4>4. QED
        BY <4>1, <4>3, Zenon
    <3>3. QED
      BY <3>1, <3>2, Zenon
  <2>5. /\ \A t \in Miners : pc'[t] \notin CommitPhases
        /\ \A r \in Resetters : pc'[r] \notin ResetPhases
    BY <2>2, Zenon DEF CommitPhases, ResetPhases
  <2>6. DOMAIN blocks' = 0..mined' => DOMAIN blocks' # {}
    BY <2>3
  <2>7. QED
    BY <2>2, <2>3, <2>4, <2>5, <2>6, QuietAccounting, Zenon
<1>23. CASE UNCHANGED vars
  BY <1>23, AccountingFrame, Zenon DEF vars, tempVars, permVars, minerVars
<1>24. QED
  BY <1>1, <1>2, <1>3, <1>4, <1>5, <1>6, <1>7, <1>8, <1>9, <1>10, <1>11, <1>12, <1>13, <1>14,
     <1>15, <1>16, <1>17, <1>18, <1>19, <1>20, <1>21, <1>22, <1>23, Zenon
  DEF Next, WorkerStep, MineAndCommit, Reset

\* IndInv is an invariant of the specification for every set of requests, transactions,
\* callers and resetters, every queue capacity and any number of failed writes and crashes.
THEOREM Inductive == ASSUME NoGap PROVE Spec => []IndInv
<1>1. IndInv /\ [Next]_vars => IndInv'
  BY TypeStepInv, WorkerStepInv, LockStepInv, AccountingStepInv, Zenon DEF IndInv
<1>2. QED
  BY InitInv, <1>1, PTL DEF Spec

\* The worker, the storages and the miner keep the types their declarations give them.
THEOREM TypeCorrect == ASSUME NoGap PROVE Spec => []TypeOK
<1>1. IndInv => TypeOK
  BY Zenon DEF IndInv
<1>2. QED
  BY Inductive, <1>1, PTL

\* Mining, committing and resetting exclude each other, whatever threads run them.
THEOREM MutualExclusion == ASSUME NoGap PROVE Spec => []LockDiscipline
<1>1. IndInv => LockDiscipline
  BY Zenon DEF IndInv
<1>2. QED
  BY Inductive, <1>1, PTL

\* The chain in RocksDB never has a gap, through failed commits, crashes at any point of a
\* commit or a reset, and resets: the checks of save_block and the locks suffice.
THEOREM Contiguous == ASSUME NoGap PROVE Spec => []ChainContiguous
<1>1. IndInv => ChainContiguous
  <2> SUFFICES ASSUME IndInv PROVE ChainContiguous
    BY Zenon
  <2>1. DOMAIN blocks = {} \/ DOMAIN blocks = 0..LastBlock(blocks)
    BY ChainIsRange, LastBlockOfRange, Zenon
  <2>2. ~Publishing => mined = LastBlock(blocks)
    BY LastBlockOfNone, LastBlockOfRange, Zenon DEF IndInv, TypeOK, Accounting
  <2>3. QED
    BY <2>1, <2>2, Zenon DEF ChainContiguous, IndInv, Accounting
<1>2. QED
  BY Inductive, <1>1, PTL

\* The pending number and the mined number never drift apart beyond the blocks whose
\* commit was given up.
THEOREM InSync == ASSUME NoGap PROVE Spec => []NumbersInSync
<1>1. IndInv => NumbersInSync
  BY Zenon DEF IndInv, Accounting, NumbersInSync, NextToMine
<1>2. QED
  BY Inductive, <1>1, PTL

(***************************************************************************)
(* Headers.                                                                *)
(***************************************************************************)
Matching(b) == \A i \in DOMAIN b.txs : b.txs[i].input = b.header

\* HeaderMatches is not inductive alone: it holds of the pending block and of a finished
\* one that is not committed yet for the same reason.
HeaderInv ==
    /\ Matching(pending)
    /\ \A n \in DOMAIN blocks : Matching(blocks[n])
    /\ \A t \in Miners : InFlight(t) => Matching(inhand[t])

\* A block without transactions has none that ran under another header.
LEMMA NewMatching ==
    ASSUME NEW n, NEW ts
    PROVE  Matching(NewPending(n, ts)) /\ TxsIn(NewPending(n, ts)) = {}
BY DEF Matching, NewPending, TxsIn

\* An execution saved under the pending header (save_pending_execution) keeps the pending
\* block matching, and its transaction is in it beside the earlier ones.
LEMMA PushMatching ==
    ASSUME TypeOK, cur \in Requests, PushExecution, InputMatches, Matching(pending)
    PROVE  Matching(pending')
<1> DEFINE e == [tx |-> TxOf[cur], input |-> input, saw |-> saw]
<1>1. pending.txs \in Seq(Execution) /\ e \in Execution
  BY TxAssumption, Zenon DEF TypeOK, Block, Execution
<1>2. pending'.txs = Append(pending.txs, e) /\ pending'.header = pending.header
  BY Zenon DEF PushExecution, TypeOK, Block
<1>3. e.input = pending.header
  BY Zenon DEF InputMatches
<1> HIDE DEF e
<1>4. /\ DOMAIN Append(pending.txs, e) = 1..(Len(pending.txs) + 1)
      /\ Append(pending.txs, e)[Len(pending.txs) + 1] = e
      /\ \A i \in 1..Len(pending.txs) : Append(pending.txs, e)[i] = pending.txs[i]
  BY <1>1, AppendFacts, Zenon
<1>5. Len(pending.txs) \in Nat /\ DOMAIN pending.txs = 1..Len(pending.txs)
  BY <1>1, AppendFacts, Zenon
<1>6. ASSUME NEW i \in DOMAIN pending'.txs
      PROVE  pending'.txs[i].input = pending'.header
  <2>1. i \in 1..Len(pending.txs) \/ i = Len(pending.txs) + 1
    BY <1>2, <1>4, <1>5, <1>6
  <2>2. CASE i \in 1..Len(pending.txs)
    BY <1>2, <1>4, <1>5, <2>2, Zenon DEF Matching
  <2>3. CASE i = Len(pending.txs) + 1
    BY <1>2, <1>3, <1>4, <2>3, Zenon
  <2>4. QED
    BY <2>1, <2>2, <2>3, Zenon
<1>7. QED
  BY <1>6, Zenon DEF Matching

\* Where the steps in which no block moves can lead a thread.
LEMMA QuietPc ==
    ASSUME TypeOK,
           \/ \E r \in Requests : Submit(r)
           \/ WorkerRecv \/ ReadPendingHeader \/ Execute \/ LockSaveExecution \/ Tick
           \/ \E p \in BOOLEAN : SetPaused(p)
           \/ \E c \in Callers : EvmMine(c)
           \/ \E t \in Miners : LockMineAndCommit(t)
           \/ UNCHANGED vars
    PROVE  \E u \in Miners :
             /\ \A t \in Threads : t # u => pc'[t] = pc[t]
             /\ \/ pc' = pc
                \/ u = Worker /\ pc'[u] \in {"idle", "header", "execute", "save", "save_locked"}
                          /\ pc[u] \in {"idle", "header", "execute", "save"}
                \/ u # Worker /\ pc'[u] = "mine_and_commit" /\ pc[u] = "idle"
                \/ pc[u] = "mine_and_commit" /\ pc'[u] = "mine"
<1> DEFINE Quiet(u) ==
             /\ \A t \in Threads : t # u => pc'[t] = pc[t]
             /\ \/ pc' = pc
                \/ u = Worker /\ pc'[u] \in {"idle", "header", "execute", "save", "save_locked"}
                          /\ pc[u] \in {"idle", "header", "execute", "save"}
                \/ u # Worker /\ pc'[u] = "mine_and_commit" /\ pc[u] = "idle"
                \/ pc[u] = "mine_and_commit" /\ pc'[u] = "mine"
<1>1. /\ Worker \in Miners /\ IntervalMiner \in Miners /\ Callers \subseteq Miners
      /\ Miners \subseteq Threads /\ IntervalMiner # Worker /\ Worker \notin Callers
  BY ThreadAssumption, Zenon DEF Miners, Threads
<1>2. ASSUME pc' = pc
      PROVE  Quiet(Worker)
  BY <1>2, Zenon
<1>3. ASSUME NEW l \in {"idle", "header", "execute", "save", "save_locked"}, Goto(Worker, l),
             pc[Worker] \in {"idle", "header", "execute", "save"}
      PROVE  Quiet(Worker)
  BY <1>1, <1>3, GotoFrame, Zenon
<1>4. ASSUME NEW u \in Miners, u # Worker, Goto(u, "mine_and_commit"), pc[u] = "idle"
      PROVE  Quiet(u)
  BY <1>1, <1>4, GotoFrame, Zenon
<1>5. ASSUME NEW u \in Miners, LockMineAndCommit(u)
      PROVE  Quiet(u)
  BY <1>1, <1>5, GotoFrame, Zenon DEF LockMineAndCommit
<1>6. ASSUME WorkerRecv \/ ReadPendingHeader \/ Execute \/ LockSaveExecution
      PROVE  Quiet(Worker)
  BY <1>3, <1>6, Zenon DEF WorkerRecv, ReadPendingHeader, Execute, Answer, LockSaveExecution
<1>7. ASSUME Tick PROVE Quiet(IntervalMiner)
  BY <1>1, <1>4, <1>7, Zenon DEF Tick
<1>8. ASSUME NEW c \in Callers, EvmMine(c) PROVE Quiet(c)
  BY <1>1, <1>4, <1>8, Zenon DEF EvmMine
<1>9. (\E r \in Requests : Submit(r)) \/ (\E p \in BOOLEAN : SetPaused(p)) \/ UNCHANGED vars
        => pc' = pc
  BY Zenon DEF Submit, SetPaused, vars, minerVars
<1> HIDE DEF Quiet
<1>10. \E u \in Miners : Quiet(u)
  BY <1>1, <1>2, <1>5, <1>6, <1>7, <1>8, <1>9, Zenon
<1>11. QED
  BY <1>10, Zenon DEF Quiet

\* A step that changes neither the pending block nor the chain, and starts no commit.
LEMMA HeaderFrame ==
    ASSUME HeaderInv, UNCHANGED <<pending, blocks>>,
           \A t \in Miners : InFlight(t)' => InFlight(t) /\ inhand'[t] = inhand[t]
    PROVE  HeaderInv'
BY Zenon DEF HeaderInv, Matching

\* A commit that fails or ends leaves the other blocks in hand alone.
LEMMA LeavingKeepsOthers ==
    ASSUME TypeOK, NEW t \in Miners, NEW outcome, CommitFails(t) \/ Leave(t, outcome)
    PROVE  \A u \in Miners : InFlight(u)' =>
             /\ inhand'[u] = inhand[u]
             /\ \/ pc'[u] = pc[u]
                \/ u = t /\ t = IntervalMiner /\ pc'[u] = "commit"
BY ThreadAssumption
   DEF TypeOK, CommitFails, Leave, Answer, Goto, InFlight, Threads, Miners

\* A node that has just opened its storage has executed nothing.
LEMMA HeaderInit == Init => HeaderInv
<1> SUFFICES ASSUME Init PROVE HeaderInv
  BY Zenon
<1>1. Matching(pending) /\ \A n \in DOMAIN blocks : Matching(blocks[n])
  BY NewMatching, Zenon DEF Init, GenesisBlock
<1>2. \A t \in Miners : ~InFlight(t)
  BY Zenon DEF Init, InFlight, Threads
<1>3. QED
  BY <1>1, <1>2, Zenon DEF HeaderInv

\* Every step preserves HeaderInv.
LEMMA HeaderStepInv == IndInv /\ HeaderInv /\ [Next]_vars => HeaderInv'
<1> SUFFICES ASSUME IndInv, HeaderInv, [Next]_vars
             PROVE  HeaderInv'
  BY Zenon
<1> USE DEF IndInv
<1>1. ASSUME \/ \E r \in Requests : Submit(r)
             \/ WorkerRecv \/ ReadPendingHeader \/ LockSaveExecution \/ Tick
             \/ \E p \in BOOLEAN : SetPaused(p)
             \/ \E c \in Callers : EvmMine(c)
             \/ \E t \in Miners : LockMineAndCommit(t)
             \/ UNCHANGED vars
      PROVE  HeaderInv'
  <2>1. UNCHANGED <<pending, blocks, inhand>>
    BY <1>1, Zenon DEF Submit, WorkerRecv, ReadPendingHeader, LockSaveExecution, Tick, SetPaused,
       EvmMine, LockMineAndCommit, vars, tempVars, permVars, minerVars
  <2>2. \A t \in Miners : InFlight(t)' => InFlight(t)
    BY <1>1, QuietPc, Zenon DEF InFlight, Threads
  <2>3. QED
    BY <2>1, <2>2, HeaderFrame, Zenon
<1>2. ASSUME Execute
      PROVE  HeaderInv'
  <2>1. UNCHANGED <<pending, blocks, inhand>>
    BY <1>2, Zenon DEF Execute, tempVars, permVars
  <2>2. \A t \in Miners : InFlight(t)' => InFlight(t)
    BY <1>2, ThreadAssumption, Zenon DEF Execute, Answer, Goto, TypeOK, InFlight, Threads, Miners
  <2>3. QED
    BY <2>1, <2>2, HeaderFrame, Zenon
<1>3. ASSUME SaveExecution \/ SaveExecutionLocked
      PROVE  HeaderInv'
  <2>1. UNCHANGED <<blocks, inhand>> /\ cur \in Requests
    BY <1>3, Zenon DEF SaveExecution, SaveExecutionLocked, permVars, WorkerBusy
  <2>2. \A t \in Miners : InFlight(t)' => InFlight(t)
    BY <1>3, ThreadAssumption, Zenon DEF SaveExecution, SaveExecutionLocked, Answer, Goto, TypeOK,
       InFlight, Threads, Miners
  <2>3. Matching(pending')
    <3>1. UNCHANGED pending \/ (PushExecution /\ InputMatches)
      BY <1>3, Zenon DEF SaveExecution, SaveExecutionLocked
    <3>2. QED
      BY <2>1, <3>1, PushMatching, Zenon DEF HeaderInv, Matching
  <2>4. QED
    BY <2>1, <2>2, <2>3, Zenon DEF HeaderInv, Matching
<1>4. ASSUME NEW t \in Miners, MineLocal(t)
      PROVE  HeaderInv'
  <2>1. UNCHANGED blocks /\ Matching(pending')
    BY <1>4, NewMatching, Zenon DEF MineLocal, permVars
  <2>2. /\ inhand'[t] = pending
        /\ \A u \in Miners : u # t => inhand'[u] = inhand[u] /\ pc'[u] = pc[u]
    BY <1>4, Zenon DEF MineLocal, Goto, TypeOK, Threads
  <2>3. QED
    BY <2>1, <2>2 DEF HeaderInv, Matching, InFlight
<1>5. ASSUME NEW t \in Miners, CommitBlock(t) \/ PermSaveFails(t) \/ PublishMined(t)
      PROVE  HeaderInv'
  <2>1. UNCHANGED <<pending, blocks>> /\ InFlight(t)
    BY <1>5, Zenon DEF CommitBlock, PermSaveFails, PublishMined, tempVars, permVars, InFlight
  <2>2. \/ CommitFails(t) \/ Leave(t, "ok")
        \/ UNCHANGED inhand /\ Goto(t, "write")
    BY <1>5, Zenon DEF CommitBlock, PermSaveFails, PublishMined
  <2>3. \A u \in Miners : InFlight(u)' => InFlight(u) /\ inhand'[u] = inhand[u]
    BY <2>1, <2>2, LeavingKeepsOthers, Zenon DEF Goto, InFlight, TypeOK, Threads
  <2>4. QED
    BY <2>1, <2>3, HeaderFrame, Zenon
<1>6. ASSUME NEW t \in Miners, PermSaveBlock(t)
      PROVE  HeaderInv'
  <2>1. UNCHANGED <<pending, inhand>> /\ InFlight(t)
    BY <1>6, Zenon DEF PermSaveBlock, tempVars, InFlight
  <2>2. \A u \in Miners : InFlight(u)' => InFlight(u)
    BY <1>6, Zenon DEF PermSaveBlock, Goto, InFlight, TypeOK, Threads
  <2>3. \A n \in DOMAIN blocks' : Matching(blocks'[n])
    BY <1>6, <2>1, Zenon DEF PermSaveBlock, HeaderInv
  <2>4. QED
    BY <2>1, <2>2, <2>3, Zenon DEF HeaderInv, Matching
<1>7. ASSUME NEW r \in Resetters,
             \/ \E i \in 1..4 : LockStateForReset(r, i)
             \/ ResetPerm(r) \/ ResetTemp(r) \/ ResetSaveGenesis(r) \/ ResetSaveAccounts(r)
      PROVE  HeaderInv'
  <2>1. UNCHANGED inhand
    BY <1>7, Zenon DEF LockStateForReset, ResetPerm, ResetTemp, ResetSaveGenesis, ResetSaveAccounts
  <2>2. \A t \in Miners : pc'[t] = pc[t]
    BY <1>7, ThreadAssumption, Zenon DEF LockStateForReset, ResetPerm, ResetTemp, ResetSaveGenesis,
       ResetSaveAccounts, Goto, TypeOK, Threads, Miners
  <2>3. Matching(pending')
    <3>1. UNCHANGED pending \/ \E ts \in NextTimestamps : pending' = NewPending(1, ts)
      BY <1>7, Zenon DEF LockStateForReset, ResetPerm, ResetTemp, ResetSaveGenesis,
         ResetSaveAccounts, tempVars
    <3>2. QED
      BY <3>1, NewMatching DEF HeaderInv, Matching
  <2>4. \A n \in DOMAIN blocks' : Matching(blocks'[n])
    <3>1. \A n \in DOMAIN blocks' : blocks'[n] = GenesisBlock \/ (n \in DOMAIN blocks /\ blocks'[n] = blocks[n])
      BY <1>7, Zenon DEF LockStateForReset, ResetPerm, ResetTemp, ResetSaveGenesis,
         ResetSaveAccounts, permVars
    <3>2. QED
      BY <3>1, NewMatching, Zenon DEF HeaderInv, GenesisBlock
  <2>5. QED
    BY <2>1, <2>2, <2>3, <2>4, Zenon DEF HeaderInv, Matching, InFlight
<1>8. ASSUME CrashAndRestart
      PROVE  HeaderInv'
  <2>1. \A t \in Miners : ~InFlight(t)'
    BY <1>8, Zenon DEF CrashAndRestart, InFlight, Threads
  <2>2. Matching(pending')
    BY <1>8, NewMatching, Zenon DEF CrashAndRestart, OpenStorage
  <2>3. \A n \in DOMAIN blocks' : blocks'[n] = GenesisBlock \/ (n \in DOMAIN blocks /\ blocks'[n] = blocks[n])
    BY <1>8, Zenon DEF CrashAndRestart, OpenStorage
  <2>4. \A n \in DOMAIN blocks' : Matching(blocks'[n])
    BY <2>3, NewMatching, Zenon DEF HeaderInv, GenesisBlock
  <2>5. QED
    BY <2>1, <2>2, <2>4, Zenon DEF HeaderInv, Matching
<1>9. QED
  BY <1>1, <1>2, <1>3, <1>4, <1>5, <1>6, <1>7, <1>8, Zenon DEF Next, WorkerStep, MineAndCommit,
     Reset

\* Every mined transaction ran with the number and the timestamp of its block, whatever mines,
\* resets, fails or crashes between the reading of the header and the saving of the execution.
THEOREM HeadersMatch == ASSUME NoGap PROVE Spec => []HeaderMatches
<1>1. HeaderInv => HeaderMatches
  BY Zenon DEF HeaderInv, HeaderMatches, Matching
<1>2. QED
  BY Inductive, HeaderInit, HeaderStepInv, <1>1, PTL DEF Spec

(***************************************************************************)
(* Acknowledgements in automine.                                           *)
(***************************************************************************)
Awaiting == {"mine_and_commit", "mine", "commit", "write", "publish"}
Finished == UNION {TxsIn(inhand[t]) : t \in Uncommitted}

\* From the moment its execution is saved until it answers, the worker's transaction is in
\* RocksDB, in a finished block somebody else is about to commit, or in the pending one: another
\* thread may mine it first (evm_mine).  If that commit was given up the chain has a gap, and
\* the worker's own commit fails too.
WorkerTxKept ==
    /\ pc[Worker] \in {"mine_and_commit", "mine"}
         => lost > 0 \/ TxOf[cur] \in Mined \cup Finished \cup TxsIn(pending)
    /\ pc[Worker] \in {"commit", "write"}
         => lost > 0 \/ TxOf[cur] \in Mined \cup TxsIn(inhand[Worker])
    /\ pc[Worker] = "publish" => TxOf[cur] \in Mined

DurableInv == Mode = "automine" /\ ~ResetStarted =>
    /\ WorkerTxKept
    /\ \A r \in Requests : reply[r] = "ok" => TxOf[r] \in Mined

\* The transactions of a stored block are mined.
LEMMA MinedHas ==
    ASSUME NEW n \in DOMAIN blocks
    PROVE  TxsIn(blocks[n]) \subseteq Mined
BY Zenon DEF Mined

\* An execution that is saved puts its transaction into the pending block.
LEMMA PushHas ==
    ASSUME TypeOK, cur \in Requests, PushExecution
    PROVE  TxOf[cur] \in TxsIn(pending')
<1> DEFINE e == [tx |-> TxOf[cur], input |-> input, saw |-> saw]
<1>1. pending.txs \in Seq(Execution) /\ e \in Execution
  BY TxAssumption, Zenon DEF TypeOK, Block, Execution
<1>2. pending'.txs = Append(pending.txs, e)
  BY Zenon DEF PushExecution, TypeOK, Block
<1>3. /\ Len(pending.txs) + 1 \in DOMAIN Append(pending.txs, e)
      /\ Append(pending.txs, e)[Len(pending.txs) + 1] = e
  BY <1>1
<1>4. e.tx = TxOf[cur]
  BY Zenon
<1> HIDE DEF e
<1>5. QED
  BY <1>2, <1>3, <1>4, Zenon DEF TxsIn

\* A step that moves the worker nowhere it is waiting, acknowledges nothing, and changes none of
\* the three places its transaction can be in.
LEMMA DurableFrame ==
    ASSUME DurableInv, ResetStarted => ResetStarted',
           UNCHANGED <<pending, blocks, inhand, lost>>, Uncommitted' = Uncommitted,
           \A r \in Requests : reply'[r] = "ok" => reply[r] = "ok",
           pc'[Worker] \in Awaiting => cur' = cur,
           \/ pc'[Worker] = pc[Worker]
           \/ pc'[Worker] \notin Awaiting
           \/ pc[Worker] = "mine_and_commit" /\ pc'[Worker] = "mine"
    PROVE  DurableInv'
<1> SUFFICES ASSUME Mode = "automine", ~ResetStarted'
             PROVE  WorkerTxKept' /\ \A r \in Requests : reply'[r] = "ok" => TxOf[r] \in Mined'
  BY Zenon DEF DurableInv
<1>1. /\ WorkerTxKept /\ \A r \in Requests : reply[r] = "ok" => TxOf[r] \in Mined
      /\ Mined' = Mined /\ Finished' = Finished /\ TxsIn(pending)' = TxsIn(pending)
      /\ TxsIn(inhand[Worker])' = TxsIn(inhand[Worker])
  BY DEF DurableInv, Mined, Finished, TxsIn
<1>2. QED
  BY <1>1, Zenon DEF WorkerTxKept, Awaiting

\* A node that has just opened its storage has acknowledged nothing.
LEMMA DurableInit == Init => DurableInv
BY ThreadAssumption, Zenon DEF Init, DurableInv, WorkerTxKept, Threads, Miners

\* A reset that has begun, or is over, stays so.
LEMMA ResetStays == TypeOK /\ [Next]_vars /\ ResetStarted => ResetStarted'
<1> SUFFICES ASSUME TypeOK, [Next]_vars, NEW r \in Resetters,
                    pc[r] \notin {"ready", "reset_2", "reset_3", "reset_4"}
             PROVE  pc'[r] \notin {"ready", "reset_2", "reset_3", "reset_4"}
  BY Zenon DEF ResetStarted
<1>1. ASSUME NEW t \in Threads \ Resetters, NEW label, Goto(t, label)
      PROVE  pc'[r] = pc[r]
  BY <1>1 DEF Goto, TypeOK
<1>2. ASSUME NEW t \in Miners, MineAndCommit(t)
      PROVE  pc'[r] = pc[r]
  <2>1. t \in Threads \ Resetters
    BY ThreadAssumption, Zenon DEF Threads, Miners
  <2>2. \E label : Goto(t, label)
    BY <1>2, Zenon DEF MineAndCommit, LockMineAndCommit, MineLocal, CommitBlock, PermSaveBlock,
       PermSaveFails, PublishMined, CommitFails, Leave, Answer
  <2>3. QED
    BY <1>1, <2>1, <2>2, Zenon
<1>3. ASSUME WorkerStep \/ Tick \/ \E c \in Callers : EvmMine(c)
      PROVE  pc'[r] = pc[r]
  <2>1. {Worker, IntervalMiner} \cup Callers \subseteq Threads \ Resetters
    BY ThreadAssumption, Zenon DEF Threads, Miners
  <2>2. \E t \in {Worker, IntervalMiner} \cup Callers : \E label : Goto(t, label)
    BY <1>3, Zenon DEF WorkerStep, WorkerRecv, ReadPendingHeader, Execute, SaveExecution,
       LockSaveExecution, SaveExecutionLocked, Answer, Tick, EvmMine
  <2>3. QED
    BY <1>1, <2>1, <2>2, Zenon
<1>4. ASSUME NEW q \in Resetters, Reset(q)
      PROVE  pc'[r] \notin {"ready", "reset_2", "reset_3", "reset_4"}
  <2>1. ASSUME NEW i \in 1..4, LockStateForReset(q, i)
        PROVE  pc'[r] = pc[r]
    <3>1. q # r
      BY <2>1 DEF LockStateForReset, ResetPc
    <3>2. QED
      BY <2>1, <3>1, Zenon DEF LockStateForReset, Goto, TypeOK, Threads
  <2>2. ASSUME ResetPerm(q) \/ ResetTemp(q) \/ ResetSaveGenesis(q) \/ ResetSaveAccounts(q)
        PROVE  \E label \in {"reset_temp", "reset_block", "reset_accounts", "done"} : Goto(q, label)
    BY <2>2, Zenon DEF ResetPerm, ResetTemp, ResetSaveGenesis, ResetSaveAccounts
  <2>3. QED
    BY <1>4, <2>1, <2>2, Zenon DEF Reset, Goto, TypeOK, Threads
<1>5. ASSUME CrashAndRestart
      PROVE  pc'[r] = "done"
  BY <1>5, ThreadAssumption, Zenon DEF CrashAndRestart, Threads
<1>6. QED
  BY <1>2, <1>3, <1>4, <1>5, Zenon DEF Next, Submit, SetPaused, vars, minerVars

\* The steps in which neither a block moves nor a commit begins or ends.
LEMMA QuietDurable ==
    ASSUME IndInv, DurableInv, ResetStarted => ResetStarted',
           \/ \E r \in Requests : Submit(r)
           \/ WorkerRecv \/ ReadPendingHeader \/ Execute \/ LockSaveExecution \/ Tick
           \/ \E p \in BOOLEAN : SetPaused(p)
           \/ \E c \in Callers : EvmMine(c)
           \/ \E t \in Miners : LockMineAndCommit(t)
           \/ UNCHANGED vars
    PROVE  DurableInv'
<1> USE DEF IndInv
<1>1. UNCHANGED <<pending, blocks, inhand, lost>>
  BY Zenon DEF Submit, WorkerRecv, ReadPendingHeader, Execute, LockSaveExecution, Tick, SetPaused,
     EvmMine, LockMineAndCommit, vars, tempVars, permVars, minerVars
<1>2. \A t \in Miners : pc'[t] \in {"commit", "write"} <=> pc[t] \in {"commit", "write"}
  BY QuietPc, Zenon DEF Threads
<1>3. \A r \in Requests : reply'[r] = "ok" => reply[r] = "ok"
  <2>1. ASSUME Execute
        PROVE  \A r \in Requests : reply'[r] = "ok" => reply[r] = "ok"
    BY <2>1, Zenon DEF Execute, Answer, TypeOK
  <2>2. ASSUME NEW q \in Requests, Submit(q)
        PROVE  \A r \in Requests : reply'[r] = "ok" => reply[r] = "ok"
    BY <2>2, Zenon DEF Submit, TypeOK
  <2>3. QED
    BY <2>1, <2>2, Zenon DEF WorkerRecv, ReadPendingHeader, LockSaveExecution, Tick, SetPaused,
       EvmMine, LockMineAndCommit, vars, workerVars
<1>4. /\ pc'[Worker] \in Awaiting => cur' = cur
      /\ \/ pc'[Worker] = pc[Worker]
         \/ pc'[Worker] \notin Awaiting
         \/ pc[Worker] = "mine_and_commit" /\ pc'[Worker] = "mine"
  <2>1. Worker \in Threads
    BY Zenon DEF Threads, Miners
  <2>2. \/ pc'[Worker] = pc[Worker]
        \/ pc'[Worker] \notin Awaiting
        \/ pc[Worker] = "mine_and_commit" /\ pc'[Worker] = "mine"
    BY <2>1, QuietPc, Zenon DEF Awaiting
  <2>3. \/ cur' = cur
        \/ Goto(Worker, "header")
        \/ Goto(Worker, "idle")
    BY Zenon DEF Submit, WorkerRecv, ReadPendingHeader, Execute, Answer, LockSaveExecution, Tick,
       SetPaused, EvmMine, LockMineAndCommit, vars, workerVars
  <2>4. pc'[Worker] \in Awaiting => cur' = cur
    <3>1. ASSUME NEW l \in {"header", "idle"}, Goto(Worker, l)
          PROVE  pc'[Worker] \notin Awaiting
      BY <2>1, <3>1, GotoFrame, Zenon DEF Awaiting
    <3>2. QED
      BY <2>3, <3>1, Zenon
  <2>5. QED
    BY <2>2, <2>4, Zenon
<1>5. Uncommitted' = Uncommitted
  BY <1>2, Zenon DEF Uncommitted
<1>6. QED
  BY <1>1, <1>3, <1>4, <1>5, DurableFrame, Zenon

\* Every step preserves DurableInv.
LEMMA DurableStepInv == NoGap /\ IndInv /\ DurableInv /\ [Next]_vars => DurableInv'
<1> SUFFICES ASSUME NoGap, IndInv, DurableInv, [Next]_vars
             PROVE  DurableInv'
  BY Zenon
<1> USE DEF IndInv
<1>0. ResetStarted => ResetStarted'
  BY ResetStays, Zenon
<1>1. ASSUME \/ \E r \in Requests : Submit(r)
             \/ WorkerRecv \/ ReadPendingHeader \/ Execute \/ LockSaveExecution \/ Tick
             \/ \E p \in BOOLEAN : SetPaused(p)
             \/ \E c \in Callers : EvmMine(c)
             \/ \E t \in Miners : LockMineAndCommit(t)
             \/ UNCHANGED vars
      PROVE  DurableInv'
  BY <1>0, <1>1, QuietDurable, Zenon
<1>2. ASSUME SaveExecution
      PROVE  DurableInv'
  BY <1>2, Zenon DEF SaveExecution, DurableInv
<1>3. ASSUME NEW r \in Resetters, Reset(r)
      PROVE  DurableInv'
  <2>1. ASSUME NEW i \in 1..4, LockStateForReset(r, i)
        PROVE  DurableInv'
    <3>1. UNCHANGED <<pending, blocks, inhand, lost, reply, cur>>
      BY <2>1, Zenon DEF LockStateForReset, workerVars, tempVars, permVars
    <3>2. \A t \in Miners : pc'[t] = pc[t]
      BY <2>1, ThreadAssumption DEF LockStateForReset, Goto, TypeOK, Threads, Miners
    <3>3. Uncommitted' = Uncommitted /\ pc'[Worker] = pc[Worker]
      BY <3>2, Zenon DEF Uncommitted, Miners
    <3>4. QED
      BY <1>0, <3>1, <3>3, DurableFrame, Zenon
  <2>2. ASSUME ResetPerm(r) \/ ResetTemp(r) \/ ResetSaveGenesis(r) \/ ResetSaveAccounts(r)
        PROVE  ResetStarted'
    <3>1. pc[r] \in {"reset_perm", "reset_temp", "reset_block", "reset_accounts"}
      BY <2>2, Zenon DEF ResetPerm, ResetTemp, ResetSaveGenesis, ResetSaveAccounts
    <3>2. QED
      BY <1>0, <3>1, Zenon DEF ResetStarted
  <2>3. QED
    BY <1>3, <2>1, <2>2, Zenon DEF Reset, DurableInv
<1> SUFFICES ASSUME Mode = "automine", ~ResetStarted', ~ResetStarted,
                    WorkerTxKept, \A r \in Requests : reply[r] = "ok" => TxOf[r] \in Mined,
                    \/ SaveExecutionLocked \/ CrashAndRestart
                    \/ \E t \in Miners : \/ MineLocal(t) \/ CommitBlock(t) \/ PermSaveBlock(t)
                                         \/ PermSaveFails(t) \/ PublishMined(t)
             PROVE  WorkerTxKept' /\ \A r \in Requests : reply'[r] = "ok" => TxOf[r] \in Mined'
  BY <1>0, <1>1, <1>2, <1>3, Zenon DEF DurableInv, Next, WorkerStep, MineAndCommit
<1>4. ASSUME SaveExecutionLocked
      PROVE  WorkerTxKept' /\ \A r \in Requests : reply'[r] = "ok" => TxOf[r] \in Mined'
  <2>1. UNCHANGED <<blocks, reply, cur>> /\ cur \in Requests
    BY <1>4, Zenon DEF SaveExecutionLocked, workerVars, permVars, WorkerBusy
  <2>2. Mined' = Mined
    BY <2>1, Zenon DEF Mined
  <2>3. \/ PushExecution /\ pc'[Worker] = "mine_and_commit"
        \/ pc'[Worker] = "header"
    BY <1>4, Zenon DEF SaveExecutionLocked, Goto, TypeOK, Threads, Miners
  <2>4. PushExecution => TxOf[cur] \in TxsIn(pending')
    BY <2>1, PushHas, Zenon
  <2>5. QED
    BY <2>1, <2>2, <2>3, <2>4, Zenon DEF WorkerTxKept
<1>5. ASSUME CrashAndRestart
      PROVE  WorkerTxKept' /\ \A r \in Requests : reply'[r] = "ok" => TxOf[r] \in Mined'
  <2>1. pc'[Worker] = "idle" /\ \A r \in Requests : reply'[r] = "ok" => reply[r] = "ok"
    BY <1>5, Zenon DEF CrashAndRestart, Threads, Miners, TypeOK
  <2>2. Mined \subseteq Mined'
    <3>1. blocks' = blocks \/ 0 \notin DOMAIN blocks
      BY <1>5, Zenon DEF CrashAndRestart, OpenStorage
    <3>2. DOMAIN blocks = {} \/ 0 \in DOMAIN blocks
      BY ChainIsRange, RangeEnds, Zenon
    <3>3. QED
      BY <3>1, <3>2, Zenon DEF Mined
  <2>3. QED
    BY <2>1, <2>2, Zenon DEF WorkerTxKept
<1>6. ASSUME NEW t \in Miners, MineLocal(t)
      PROVE  WorkerTxKept' /\ \A r \in Requests : reply'[r] = "ok" => TxOf[r] \in Mined'
  <2>1. /\ UNCHANGED <<blocks, reply, cur, lost>> /\ inhand'[t] = pending
        /\ pc'[t] = "commit" /\ pc[t] = "mine"
        /\ \A u \in Miners : u # t => pc'[u] = pc[u] /\ inhand'[u] = inhand[u]
    <3>1. t \in Threads /\ Miners \subseteq Threads /\ inhand \in [Miners -> Block \cup {None}]
      BY Zenon DEF Threads, TypeOK
    <3>2. /\ UNCHANGED <<blocks, reply, cur, lost>> /\ pc[t] = "mine" /\ Goto(t, "commit")
          /\ inhand' = [inhand EXCEPT ![t] = pending]
      BY <1>6, Zenon DEF MineLocal, workerVars, permVars
    <3>3. QED
      BY <3>1, <3>2, GotoFrame, Zenon
  <2>2. Mined' = Mined
    BY <2>1, Zenon DEF Mined
  <2>3. \A u \in Miners : Mining(u) => u = t
    BY <2>1, OnlyMiner, Zenon DEF Mining
  <2>4. Uncommitted = {} /\ Uncommitted' = {t}
    BY <2>1, <2>3, Zenon DEF Uncommitted, Mining
  <2>5. Finished = {} /\ Finished' = TxsIn(pending)
    BY <2>1, <2>4, Zenon DEF Finished
  <2>6. CASE t = Worker
    BY <2>1, <2>2, <2>5, <2>6, Zenon DEF WorkerTxKept
  <2>7. CASE t # Worker
    <3>1. pc'[Worker] = pc[Worker] /\ pc[Worker] \notin {"mine", "commit", "write", "publish"}
      BY <2>1, <2>3, <2>7, Zenon DEF Mining, Miners
    <3>2. QED
      BY <2>1, <2>2, <2>5, <3>1, Zenon DEF WorkerTxKept
  <2>8. QED
    BY <2>6, <2>7, Zenon
<1>7. ASSUME NEW t \in Miners, PermSaveBlock(t)
      PROVE  WorkerTxKept' /\ \A r \in Requests : reply'[r] = "ok" => TxOf[r] \in Mined'
  <2> DEFINE k == inhand[t].header.number
  <2>1. /\ UNCHANGED <<reply, cur, lost, pending, inhand>>
        /\ pc[t] = "write" /\ pc'[t] = "publish"
        /\ \A u \in Miners : u # t => pc'[u] = pc[u]
        /\ DOMAIN blocks' = DOMAIN blocks \cup {k} /\ blocks'[k] = inhand[t]
        /\ \A n \in DOMAIN blocks : n # k => blocks'[n] = blocks[n]
    <3>1. t \in Threads /\ Miners \subseteq Threads
      BY Zenon DEF Threads
    <3>2. /\ UNCHANGED <<reply, cur, lost, pending, inhand>>
          /\ pc[t] = "write" /\ Goto(t, "publish")
          /\ blocks' = [n \in DOMAIN blocks \cup {k} |-> IF n = k THEN inhand[t] ELSE blocks[n]]
      BY <1>7, Zenon DEF PermSaveBlock, workerVars, tempVars
    <3>3. pc'[t] = "publish" /\ \A u \in Miners : u # t => pc'[u] = pc[u]
      BY <3>1, <3>2, GotoFrame, Zenon
    <3> HIDE DEF k
    <3>4. /\ DOMAIN blocks' = DOMAIN blocks \cup {k} /\ blocks'[k] = inhand[t]
          /\ \A n \in DOMAIN blocks : n # k => blocks'[n] = blocks[n]
      BY <3>2, Zenon
    <3>5. QED
      BY <3>2, <3>3, <3>4, Zenon
  <2>2. \A u \in Miners : Mining(u) => u = t
    BY <2>1, OnlyMiner, Zenon DEF Mining
  <2>3. k \notin DOMAIN blocks /\ lost = 0
    <3>1. lost = 0 /\ k = NextToMine
      BY <2>1, Zenon DEF Accounting
    <3>2. ~Publishing
      BY <2>1, <2>2, Zenon DEF Publishing, Mining
    <3>3. DOMAIN blocks = {} \/ (DOMAIN blocks = 0..mined /\ mined \in Nat)
      BY <3>2, Zenon DEF Accounting, TypeOK
    <3>4. QED
      BY <3>1, <3>3, RangeEnds, Zenon DEF NextToMine
  <2> HIDE DEF k
  <2>4. Mined \subseteq Mined' /\ TxsIn(inhand[t]) \subseteq Mined'
    BY <2>1, <2>3, Zenon DEF Mined
  <2>5. Finished \subseteq TxsIn(inhand[t])
    BY <2>2, Zenon DEF Finished, Uncommitted, Mining
  <2>6. CASE t = Worker
    <3>1. TxOf[cur] \in Mined'
      <4>1. ~(lost > 0)
        BY <2>3, NoneLost, Zenon
      <4>2. QED
        BY <2>1, <2>4, <2>6, <4>1, Zenon DEF WorkerTxKept
    <3>2. \A r \in Requests : reply'[r] = "ok" => TxOf[r] \in Mined'
      BY <2>1, <2>4, Zenon
    <3>3. pc'[Worker] = "publish" /\ cur' = cur
      BY <2>1, <2>6, Zenon
    <3>4. QED
      BY <3>1, <3>2, <3>3, Zenon DEF WorkerTxKept
  <2>7. CASE t # Worker
    <3>1. pc'[Worker] = pc[Worker] /\ pc[Worker] \notin {"mine", "commit", "write", "publish"}
      BY <2>1, <2>2, <2>7, Zenon DEF Mining, Miners
    <3>2. QED
      BY <2>1, <2>3, <2>4, <2>5, <3>1, Zenon DEF WorkerTxKept
  <2>8. QED
    BY <2>6, <2>7, <2>1, <2>4, Zenon
<1>8. ASSUME NEW t \in Miners, PublishMined(t)
      PROVE  WorkerTxKept' /\ \A r \in Requests : reply'[r] = "ok" => TxOf[r] \in Mined'
  <2>1. /\ UNCHANGED <<blocks, pending, lost>> /\ pc[t] = "publish" /\ Leave(t, "ok")
    BY <1>8, Zenon DEF PublishMined, tempVars
  <2>2. Mined' = Mined
    BY <2>1, Zenon DEF Mined
  <2>3. CASE t = Worker
    <3>1. pc'[Worker] = "idle" /\ cur \in Requests
      BY <2>1, <2>3, Zenon DEF Leave, Answer, Goto, TypeOK, Threads, WorkerBusy
    <3>2. \A r \in Requests : reply'[r] = "ok" => reply[r] = "ok" \/ r = cur
      BY <2>1, <2>3, Zenon DEF Leave, Answer, TypeOK
    <3>3. TxOf[cur] \in Mined
      BY <2>1, <2>3, Zenon DEF WorkerTxKept
    <3>4. QED
      BY <2>2, <3>1, <3>2, <3>3, Zenon DEF WorkerTxKept
  <2>4. CASE t # Worker
    <3>1. /\ UNCHANGED <<reply, cur>>
          /\ \A u \in Miners : u # t => pc'[u] = pc[u] /\ inhand'[u] = inhand[u]
          /\ pc'[t] \in {"idle", "done"}
      BY <2>1, <2>4, Zenon DEF Leave, Goto, TypeOK, Threads
    <3>2. Uncommitted' = Uncommitted /\ t \notin Uncommitted
      BY <2>1, <3>1, Zenon DEF Uncommitted
    <3>3. Finished' = Finished
      <4>1. \A u \in Uncommitted : inhand'[u] = inhand[u]
        BY <3>1, <3>2, Zenon DEF Uncommitted
      <4>2. QED
        BY <3>2, <4>1, Zenon DEF Finished
    <3>4. Worker \in Miners
      BY Zenon DEF Miners
    <3>5. QED
      BY <2>1, <2>2, <2>4, <3>1, <3>3, <3>4, Zenon DEF WorkerTxKept
  <2>5. QED
    BY <2>3, <2>4, Zenon
<1>9. ASSUME NEW t \in Miners, CommitBlock(t) \/ PermSaveFails(t)
      PROVE  WorkerTxKept' /\ \A r \in Requests : reply'[r] = "ok" => TxOf[r] \in Mined'
  <2>1. /\ UNCHANGED <<blocks, pending>> /\ pc[t] \in {"commit", "write"}
    BY <1>9, Zenon DEF CommitBlock, PermSaveFails, tempVars, permVars
  <2>2. Mined' = Mined /\ TxsIn(pending)' = TxsIn(pending)
    BY <2>1, Zenon DEF Mined
  <2>3. ASSUME t # IntervalMiner, CommitFails(t)
        PROVE  WorkerTxKept' /\ \A r \in Requests : reply'[r] = "ok" => TxOf[r] \in Mined'
    <3>1. lost' > 0
      BY <2>3 DEF CommitFails, TypeOK
    <3>2. pc'[Worker] # "publish"
      <4>1. pc'[Worker] = pc[Worker] \/ pc'[Worker] = "idle"
        BY <2>3, Zenon DEF CommitFails, Leave, Answer, Goto, TypeOK, Threads, Miners
      <4>2. pc[Worker] # "publish"
        BY <2>1, OnlyMiner, Zenon DEF Mining, Miners
      <4>3. QED
        BY <4>1, <4>2, Zenon
    <3>3. \A r \in Requests : reply'[r] = "ok" => reply[r] = "ok"
      BY <2>3, Zenon DEF CommitFails, Leave, Answer, TypeOK
    <3>4. QED
      BY <2>2, <3>1, <3>2, <3>3, Zenon DEF WorkerTxKept
  <2>4. ASSUME \/ t = IntervalMiner /\ CommitFails(t)
               \/ pc[t] = "commit" /\ Goto(t, "write") /\ UNCHANGED <<inhand, reply, cur, lost>>
        PROVE  WorkerTxKept' /\ \A r \in Requests : reply'[r] = "ok" => TxOf[r] \in Mined'
    <3>1. UNCHANGED <<inhand, reply, cur, lost>>
      BY <2>4, Zenon DEF CommitFails
    <3>2. /\ pc'[t] \in {"commit", "write"}
          /\ \A u \in Miners : u # t => pc'[u] = pc[u]
      BY <2>4, Zenon DEF CommitFails, Goto, TypeOK, Threads
    <3>3. Uncommitted' = Uncommitted
      BY <2>1, <3>2, Zenon DEF Uncommitted
    <3>4. Finished' = Finished /\ TxsIn(inhand[Worker])' = TxsIn(inhand[Worker])
      <4>1. \A u : TxsIn(inhand[u])' = TxsIn(inhand[u])
        BY <3>1, Zenon DEF TxsIn
      <4>2. QED
        BY <3>3, <4>1, Zenon DEF Finished
    <3>5. Worker \in Miners
      BY Zenon DEF Miners
    <3>6. QED
      BY <2>1, <2>2, <3>1, <3>2, <3>4, <3>5, Zenon DEF WorkerTxKept
  <2>5. QED
    BY <1>9, <2>3, <2>4, Zenon DEF CommitBlock, PermSaveFails
<1>10. QED
  BY <1>4, <1>5, <1>6, <1>7, <1>8, <1>9, Zenon

\* In automine a transaction that was acknowledged is in RocksDB, for any number of requests and
\* of evm_mine calls that mine it first, with commits that fail and crashes, until a reset.
THEOREM Durable == ASSUME NoGap PROVE Spec => []AutomineDurable
<1>1. DurableInv => AutomineDurable
  BY Zenon DEF DurableInv, AutomineDurable
<1>2. QED
  BY Inductive, DurableInit, DurableStepInv, <1>1, PTL DEF Spec
=============================================================================
