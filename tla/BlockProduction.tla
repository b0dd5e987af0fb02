--------------------------- MODULE BlockProduction ---------------------------
(***************************************************************************)
(* Block production on the leader: the serial transaction worker           *)
(* (executor/transaction_worker.rs), the miner and its four locks          *)
(* (miner/miner.rs), the pending block of the temporary storage            *)
(* (storage/temporary/inmemory/transaction.rs) and the commit path of      *)
(* StratusStorage down to the RocksDB batch (storage/stratus_storage.rs).  *)
(*                                                                         *)
(* Threads: the transaction worker, the interval miner, the RPC threads    *)
(* that run evm_mine and those that run stratus_reset.  Every step between *)
(* two lock operations, or between two accesses to shared state, is an     *)
(* action of its own.                                                      *)
(*                                                                         *)
(* Transactions are opaque.  What an execution read from storage is        *)
(* recorded as the set of transactions whose effects were visible to it,   *)
(* with GenesisAccounts standing for the accounts the genesis writes.      *)
(***************************************************************************)
EXTENDS Naturals, Sequences, FiniteSets

CONSTANTS
    Requests,        \* eth_sendRawTransaction calls, each made once
    Txs,             \* transactions (by hash)
    TxOf,            \* the transaction a request carries; two may carry the same
    Panicking,       \* transactions whose execution panics inside the EVM
    Worker,          \* the "evm-tx-1" thread
    IntervalMiner,   \* the interval miner thread
    Callers,         \* RPC threads that call evm_mine once (dev build)
    Resetters,       \* RPC threads that call stratus_reset once (dev build)
    Mode,            \* "automine" or "interval"
    Dev,             \* whether the binary has the dev feature
    QueueCapacity,   \* capacity of the worker's task channel (4096 in the code)
    MaxIdleNumber,   \* bound: the ticker stops producing empty blocks there
    MaxWriteErrors,  \* bound: failed RocksDB block writes
    MaxCrashes,      \* bound: process crashes
    GenesisAccounts, \* stands for the accounts written with the genesis
    None

Modes == {"automine", "interval"}
Miners == {Worker, IntervalMiner} \cup Callers
Threads == Miners \cup Resetters

ASSUME ModeAssumption == Mode \in Modes /\ Dev \in BOOLEAN
ASSUME TxAssumption ==
    /\ TxOf \in [Requests -> Txs]
    /\ Panicking \subseteq Txs
    /\ GenesisAccounts \notin Txs
ASSUME ThreadAssumption ==
    /\ Worker # IntervalMiner
    /\ {Worker, IntervalMiner} \cap (Callers \cup Resetters) = {}
    /\ Callers \cap Resetters = {}
    /\ None \notin Threads /\ None \notin Requests
ASSUME DevAssumption == Callers \cup Resetters # {} => Dev
ASSUME BoundAssumption ==
    /\ QueueCapacity \in Nat \ {0}
    /\ MaxIdleNumber \in Nat /\ MaxWriteErrors \in Nat /\ MaxCrashes \in Nat

VARIABLES
    queue,     \* task channel of the worker: requests waiting to be executed
    reply,     \* what the caller of each request knows
    cur,       \* the request the worker is executing
    input,     \* header the worker created the EVM input from
    saw,       \* what the worker's execution read from storage
    pending,   \* pending block of the temporary storage
    latest,    \* last finished block, kept by the temporary storage
    clock,     \* timestamp given to the last pending block created
    blocks,    \* RocksDB: blocks by number
    accounts,  \* RocksDB: whether the genesis accounts are there
    mined,     \* the mined block number (an atomic beside RocksDB)
    locks,     \* owner of each lock of MinerLocks
    pc,        \* where each thread is
    inhand,    \* the finished block a mining thread has yet to commit
    paused,    \* Miner::is_paused
    lost,      \* finished blocks whose commit was given up
    errors,    \* failed block writes so far
    crashes    \* crashes so far

workerVars == <<queue, reply, cur, input, saw>>
tempVars   == <<pending, latest, clock>>
permVars   == <<blocks, accounts, mined>>
minerVars  == <<locks, pc, inhand, paused, lost>>
boundVars  == <<errors, crashes>>
vars == <<workerVars, tempVars, permVars, minerVars, boundVars>>

(***************************************************************************)
(* Blocks and executions.                                                  *)
(***************************************************************************)
Header == [number : Nat, timestamp : Nat]
Execution == [tx : Txs, input : Header, saw : SUBSET (Txs \cup {GenesisAccounts})]
Block == [header : Header, txs : Seq(Execution)]

ASSUME NoneAssumption == None \notin Block

NewPending(n, ts) == [header |-> [number |-> n, timestamp |-> ts], txs |-> <<>>]
GenesisBlock == NewPending(0, 0)

TxsIn(b) == {b.txs[i].tx : i \in DOMAIN b.txs}
TxsOfLatest == IF latest = None THEN {} ELSE TxsIn(latest)
Mined == UNION {TxsIn(blocks[n]) : n \in DOMAIN blocks}

\* UnixTimeNow::default() for a new pending block: the wall clock in seconds; the
\* dev build's clock never gives the same second twice (offset::now).
NextTimestamps == IF Dev THEN {clock + 1} ELSE {clock, clock + 1}

\* Mutant of View: the last finished block is not looked at.
ViewWithoutLatest == Mined \cup TxsIn(pending) \cup (IF accounts THEN {GenesisAccounts} ELSE {})

\* What an execution at TargetState::Pending reads: the pending block, then the
\* last finished one, then the mined state.
View == Mined \cup TxsOfLatest \cup TxsIn(pending)
          \cup (IF accounts THEN {GenesisAccounts} ELSE {})

(***************************************************************************)
(* Locks of MinerLocks, in the order lock_state_for_reset takes them.      *)
(***************************************************************************)

LockOrder == <<"save_execution", "mine_and_commit", "mine", "commit">>
LockNames == {"save_execution", "mine_and_commit", "mine", "commit"}

\* Mutant of Release: a lock is never given back.
ReleaseNothing(ls) == locks' = locks

Free(l) == locks[l] = None
Take(l, t) == locks' = [locks EXCEPT ![l] = t]
Release(ls) == locks' = [l \in LockNames |-> IF l \in ls THEN None ELSE locks[l]]
Goto(t, label) == pc' = [pc EXCEPT ![t] = label]

\* Pending number of a storage opened on the blocks bs (compute_pending_block_number).
PendingNumberOf(bs, m) == IF 0 \notin DOMAIN bs /\ m = 0 THEN 0 ELSE m + 1

\* A node opened on an empty database: the dev build writes the genesis.
Init ==
    /\ queue = <<>>
    /\ reply = [r \in Requests |-> "none"]
    /\ cur = None
    /\ input = [number |-> 0, timestamp |-> 0]
    /\ saw = {}
    /\ clock = 0
    /\ blocks = IF Dev THEN [n \in {0} |-> GenesisBlock] ELSE [n \in {} |-> GenesisBlock]
    /\ mined = 0
    /\ accounts = TRUE
    /\ pending = NewPending(PendingNumberOf(blocks, mined), 0)
    /\ latest = None
    /\ locks = [l \in LockNames |-> None]
    /\ pc = [t \in Threads |-> IF t \in Miners THEN "idle" ELSE "ready"]
    /\ inhand = [t \in Miners |-> None]
    /\ paused = FALSE
    /\ lost = 0
    /\ errors = 0
    /\ crashes = 0

(***************************************************************************)
(* The transaction worker.                                                 *)
(***************************************************************************)
\* TransactionWorker::execute_local_transaction: send to the bounded channel, wait.
Submit(r) ==
    /\ reply[r] = "none"
    /\ Len(queue) < QueueCapacity
    /\ queue' = Append(queue, r)
    /\ reply' = [reply EXCEPT ![r] = "waiting"]
    /\ UNCHANGED <<cur, input, saw, tempVars, permVars, minerVars, boundVars>>

WorkerRecv ==
    /\ pc[Worker] = "idle"
    /\ queue # <<>>
    /\ cur' = Head(queue)
    /\ queue' = Tail(queue)
    /\ Goto(Worker, "header")
    /\ UNCHANGED <<reply, input, saw, tempVars, permVars, locks, inhand, paused, lost, boundVars>>

\* One attempt begins: read the pending header, create the EVM input from it.
ReadPendingHeader ==
    /\ pc[Worker] = "header"
    /\ input' = pending.header
    /\ Goto(Worker, "execute")
    /\ UNCHANGED <<queue, reply, cur, saw, tempVars, permVars, locks, inhand, paused, lost, boundVars>>

\* The response channel gets the outcome and the worker waits for the next task.
Answer(outcome) ==
    /\ reply' = [reply EXCEPT ![cur] = outcome]
    /\ cur' = None
    /\ Goto(Worker, "idle")

\* A panic is caught around the task, the response channel is dropped and the EVM
\* recreated; a transaction already applied has a nonce the EVM refuses.
Execute ==
    /\ pc[Worker] = "execute"
    /\ \/ /\ TxOf[cur] \in Panicking
          /\ Answer("error")
          /\ UNCHANGED saw
       \/ /\ TxOf[cur] \notin Panicking
          /\ TxOf[cur] \in View
          /\ Answer("rejected")
          /\ UNCHANGED saw
       \/ /\ TxOf[cur] \notin Panicking \cup View
          /\ saw' = View
          /\ Goto(Worker, "save")
          /\ UNCHANGED <<reply, cur>>
    /\ UNCHANGED <<queue, input, tempVars, permVars, locks, inhand, paused, lost, boundVars>>

\* Mutant of InputMatches: the header is not compared again when the execution is saved.
InputMatchesAlways == TRUE

\* InmemoryTransactionTemporaryStorage::save_pending_execution accepts the execution
\* only when it was made for the header the pending block has now.
InputMatches == input = pending.header
PushExecution ==
    pending' = [pending EXCEPT !.txs =
                  Append(@, [tx |-> TxOf[cur], input |-> input, saw |-> saw])]

\* Miner::save_execution outside automine: no lock is taken.
SaveExecution ==
    /\ Mode # "automine"
    /\ pc[Worker] = "save"
    /\ \/ /\ InputMatches
          /\ PushExecution
          /\ Answer("ok")
       \/ /\ ~InputMatches
          /\ Goto(Worker, "header")
          /\ UNCHANGED <<pending, reply, cur>>
    /\ UNCHANGED <<queue, input, saw, latest, clock, permVars, locks, inhand, paused, lost, boundVars>>

\* Miner::save_execution in automine: under the save_execution lock, which a failed
\* save releases and a successful one keeps until the block is committed.
LockSaveExecution ==
    /\ Mode = "automine"
    /\ pc[Worker] = "save"
    /\ Free("save_execution")
    /\ Take("save_execution", Worker)
    /\ Goto(Worker, "save_locked")
    /\ UNCHANGED <<workerVars, tempVars, permVars, inhand, paused, lost, boundVars>>

SaveExecutionLocked ==
    /\ pc[Worker] = "save_locked"
    /\ \/ /\ InputMatches
          /\ PushExecution
          /\ Goto(Worker, "mine_and_commit")
          /\ UNCHANGED locks
       \/ /\ ~InputMatches
          /\ Release({"save_execution"})
          /\ Goto(Worker, "header")
          /\ UNCHANGED pending
    /\ UNCHANGED <<workerVars, latest, clock, permVars, inhand, paused, lost, boundVars>>

(***************************************************************************)
(* Mining: Miner::mine_local_and_commit, run by the worker in automine and *)
(* by evm_mine, and the loop of the interval miner.                        *)
(***************************************************************************)
\* A tick reaches the interval miner; a paused miner skips it.
Tick ==
    /\ Mode = "interval"
    /\ pc[IntervalMiner] = "idle"
    /\ ~paused
    /\ pending.txs # <<>> \/ pending.header.number <= MaxIdleNumber
    /\ Goto(IntervalMiner, "mine_and_commit")
    /\ UNCHANGED <<workerVars, tempVars, permVars, locks, inhand, paused, lost, boundVars>>

\* stratus_disableMiner and stratus_enableMiner.
SetPaused(p) ==
    /\ Mode = "interval"
    /\ paused # p
    /\ paused' = p
    /\ UNCHANGED <<workerVars, tempVars, permVars, locks, pc, inhand, lost, boundVars>>

EvmMine(c) ==
    /\ pc[c] = "idle"
    /\ Goto(c, "mine_and_commit")
    /\ UNCHANGED <<workerVars, tempVars, permVars, locks, inhand, paused, lost, boundVars>>

LockMineAndCommit(t) ==
    /\ pc[t] = "mine_and_commit"
    /\ Free("mine_and_commit")
    /\ Take("mine_and_commit", t)
    /\ Goto(t, "mine")
    /\ UNCHANGED <<workerVars, tempVars, permVars, inhand, paused, lost, boundVars>>

\* Mutant of MineLocal: the new pending block keeps the transactions of the finished one.
MineLocalKeepingTxs(t) ==
    /\ pc[t] = "mine"
    /\ Free("mine")
    /\ inhand' = [inhand EXCEPT ![t] = pending]
    /\ latest' = pending
    /\ clock' = clock + 1
    /\ pending' = [pending EXCEPT !.header = [number |-> @.number + 1, timestamp |-> clock + 1]]
    /\ Goto(t, "commit")
    /\ UNCHANGED <<workerVars, permVars, locks, paused, lost, boundVars>>

\* Miner::mine_local: under the mine lock, which nobody keeps after it, the pending
\* block becomes the latest one and a pending block with the next number replaces it.
MineLocal(t) ==
    /\ pc[t] = "mine"
    /\ Free("mine")
    /\ inhand' = [inhand EXCEPT ![t] = pending]
    /\ latest' = pending
    /\ \E ts \in NextTimestamps :
          /\ clock' = ts
          /\ pending' = NewPending(pending.header.number + 1, ts)
    /\ Goto(t, "commit")
    /\ UNCHANGED <<workerVars, permVars, locks, paused, lost, boundVars>>

\* Mutant of MinedNumberConflict: save_block does not check the mined number.
MinedNumberConflictNever(n) == FALSE

\* The checks of StratusStorage::save_block.
MinedNumberConflict(n) == n # 0 /\ n # mined + 1
PendingNumberConflict(n) == n >= pending.header.number
BlockConflict(n) == n \in DOMAIN blocks
SaveBlockRefuses(n) == MinedNumberConflict(n) \/ PendingNumberConflict(n) \/ BlockConflict(n)

\* A thread leaves mine_local_and_commit, dropping the guards it still has.
Leave(t, outcome) ==
    /\ inhand' = [inhand EXCEPT ![t] = None]
    /\ Release({l \in LockNames : locks[l] = t})
    /\ IF t = Worker
       THEN Answer(outcome)
       ELSE /\ Goto(t, IF t = IntervalMiner THEN "idle" ELSE "done")
            /\ UNCHANGED <<reply, cur>>

\* Mutants of CommitFails: the interval miner gives up like the others, or a failed commit
\* is reported as a success.
CommitFailsGivingUp(t) == Leave(t, "error") /\ lost' = lost + 1
CommitFailsSilently(t) == Leave(t, "ok") /\ lost' = lost + 1

\* The commit failed: commit_retry tries the same block again without giving up
\* mine_and_commit; the other callers return the error and the block is gone.
CommitFails(t) ==
    \/ /\ t = IntervalMiner
       /\ Release({l \in {"commit"} : locks[l] = t})
       /\ Goto(t, "commit")
       /\ UNCHANGED <<inhand, reply, cur, lost>>
    \/ /\ t # IntervalMiner
       /\ Leave(t, "error")
       /\ lost' = lost + 1

\* Miner::commit_block takes the commit lock and StratusStorage::save_block checks.
CommitBlock(t) ==
    /\ pc[t] = "commit"
    /\ Free("commit")
    /\ \/ /\ SaveBlockRefuses(inhand[t].header.number)
          /\ CommitFails(t)
       \/ /\ ~SaveBlockRefuses(inhand[t].header.number)
          /\ Take("commit", t)
          /\ Goto(t, "write")
          /\ UNCHANGED <<inhand, reply, cur, lost>>
    /\ UNCHANGED <<queue, input, saw, tempVars, permVars, paused, boundVars>>

\* RocksPermanentStorage::save_block: one atomic batch.
PermSaveBlock(t) ==
    /\ pc[t] = "write"
    /\ blocks' = [n \in DOMAIN blocks \cup {inhand[t].header.number} |->
                    IF n = inhand[t].header.number THEN inhand[t] ELSE blocks[n]]
    /\ Goto(t, "publish")
    /\ UNCHANGED <<workerVars, tempVars, accounts, mined, locks, inhand, paused, lost, boundVars>>

PermSaveFails(t) ==
    /\ pc[t] = "write"
    /\ errors < MaxWriteErrors
    /\ errors' = errors + 1
    /\ CommitFails(t)
    /\ UNCHANGED <<queue, input, saw, tempVars, permVars, paused, crashes>>

\* The rest of commit_changes, then every guard is dropped.
PublishMined(t) ==
    /\ pc[t] = "publish"
    /\ mined' = inhand[t].header.number
    /\ Leave(t, "ok")
    /\ UNCHANGED <<queue, input, saw, tempVars, blocks, accounts, paused, lost, boundVars>>

MineAndCommit(t) ==
    \/ LockMineAndCommit(t)
    \/ MineLocal(t)
    \/ CommitBlock(t)
    \/ PermSaveBlock(t)
    \/ PermSaveFails(t)
    \/ PublishMined(t)

(***************************************************************************)
(* stratus_reset: the four locks, then reset_to_genesis.                   *)
(***************************************************************************)
ResetPc == <<"ready", "reset_2", "reset_3", "reset_4", "reset_perm">>

LockStateForReset(r, i) ==
    /\ pc[r] = ResetPc[i]
    /\ Free(LockOrder[i])
    /\ Take(LockOrder[i], r)
    /\ Goto(r, ResetPc[i + 1])
    /\ UNCHANGED <<workerVars, tempVars, permVars, inhand, paused, lost, boundVars>>

\* Mutant of ResetTemp: the pending number is not reset.
ResetTempKeepingPending(r) ==
    /\ pc[r] = "reset_temp"
    /\ latest' = None
    /\ lost' = 0
    /\ Goto(r, "reset_block")
    /\ UNCHANGED <<workerVars, pending, clock, permVars, locks, inhand, paused, boundVars>>

ResetPerm(r) ==
    /\ pc[r] = "reset_perm"
    /\ mined' = 0
    /\ blocks' = [n \in {} |-> GenesisBlock]
    /\ accounts' = FALSE
    /\ Goto(r, "reset_temp")
    /\ UNCHANGED <<workerVars, tempVars, locks, inhand, paused, lost, boundVars>>

ResetTemp(r) ==
    /\ pc[r] = "reset_temp"
    /\ \E ts \in NextTimestamps :
          /\ clock' = ts
          /\ pending' = NewPending(1, ts)
    /\ latest' = None
    /\ lost' = 0
    /\ Goto(r, "reset_block")
    /\ UNCHANGED <<workerVars, permVars, locks, inhand, paused, boundVars>>

\* save_block of the genesis: number zero is exempt from the mined number check.
\* A refusal would end the reset early, with the guards dropped.
ResetSaveGenesis(r) ==
    /\ pc[r] = "reset_block"
    /\ \/ /\ ~SaveBlockRefuses(0)
          /\ blocks' = [n \in DOMAIN blocks \cup {0} |->
                          IF n = 0 THEN GenesisBlock ELSE blocks[n]]
          /\ mined' = 0
          /\ Goto(r, "reset_accounts")
          /\ UNCHANGED locks
       \/ /\ SaveBlockRefuses(0)
          /\ Goto(r, "done")
          /\ Release(LockNames)
          /\ UNCHANGED <<blocks, mined>>
    /\ UNCHANGED <<workerVars, tempVars, accounts, inhand, paused, lost, boundVars>>

ResetSaveAccounts(r) ==
    /\ pc[r] = "reset_accounts"
    /\ accounts' = TRUE
    /\ mined' = 0
    /\ Release(LockNames)
    /\ Goto(r, "done")
    /\ UNCHANGED <<workerVars, tempVars, blocks, inhand, paused, lost, boundVars>>

Reset(r) ==
    \/ \E i \in 1..4 : LockStateForReset(r, i)
    \/ ResetPerm(r)
    \/ ResetTemp(r)
    \/ ResetSaveGenesis(r)
    \/ ResetSaveAccounts(r)

(***************************************************************************)
(* A crash and the restart after it: what RocksDB holds survives; the      *)
(* mined number is the last key of blocks_by_number and the pending number *)
(* is computed from it.  The dev build resets to genesis when block zero   *)
(* is missing.  Callers see a closed connection.                           *)
(***************************************************************************)
LastBlock(bs) == IF DOMAIN bs = {} THEN 0
                 ELSE CHOOSE n \in DOMAIN bs : \A m \in DOMAIN bs : m <= n

OpenStorage ==
    LET lacksGenesis == Dev /\ 0 \notin DOMAIN blocks
    IN  /\ blocks' = IF lacksGenesis THEN [n \in {0} |-> GenesisBlock] ELSE blocks
        /\ accounts' = (accounts \/ lacksGenesis)
        /\ mined' = LastBlock(blocks')
        /\ \E ts \in NextTimestamps :
              /\ clock' = ts
              /\ pending' = NewPending(PendingNumberOf(blocks', mined'), ts)
        /\ latest' = None

CrashAndRestart ==
    /\ crashes < MaxCrashes
    /\ crashes' = crashes + 1
    /\ queue' = <<>>
    /\ reply' = [r \in Requests |-> IF reply[r] = "waiting" THEN "error" ELSE reply[r]]
    /\ cur' = None
    /\ OpenStorage
    /\ locks' = [l \in LockNames |-> None]
    /\ pc' = [t \in Threads |-> IF t \in {Worker, IntervalMiner} THEN "idle" ELSE "done"]
    /\ inhand' = [t \in Miners |-> None]
    /\ paused' = FALSE
    /\ lost' = 0
    /\ UNCHANGED <<input, saw, errors>>

WorkerStep ==
    \/ WorkerRecv \/ ReadPendingHeader \/ Execute
    \/ SaveExecution \/ LockSaveExecution \/ SaveExecutionLocked

Next ==
    \/ \E r \in Requests : Submit(r)
    \/ WorkerStep
    \/ Tick
    \/ \E p \in BOOLEAN : SetPaused(p)
    \/ \E c \in Callers : EvmMine(c)
    \/ \E t \in Miners : MineAndCommit(t)
    \/ \E r \in Resetters : Reset(r)
    \/ CrashAndRestart

Spec == Init /\ [][Next]_vars

\* The worker and the mining threads run whenever they can and the ticker keeps
\* ticking; mutexes are held for finitely many steps.  Clients, administrators and
\* crashes owe nothing.
Fairness ==
    /\ WF_vars(WorkerStep)
    /\ WF_vars(Tick)
    /\ \A t \in Miners : WF_vars(MineAndCommit(t))
    /\ \A r \in Resetters : WF_vars(pc[r] # "ready" /\ Reset(r))

FairSpec == Spec /\ Fairness

(***************************************************************************)
(* Properties.                                                             *)
(***************************************************************************)
Outcomes == {"ok", "rejected", "error"}
InFlight(t) == pc[t] \in {"commit", "write", "publish"}
Publishing == \E t \in Miners : pc[t] = "publish"
Resetting == \E r \in Resetters : pc[r] \in {"reset_temp", "reset_block", "reset_accounts"}
ResetStarted == \E r \in Resetters : pc[r] \notin {"ready", "reset_2", "reset_3", "reset_4"}

MinerLabels == {"idle", "mine_and_commit", "mine", "commit", "write", "publish", "done"}
WorkerLabels == MinerLabels \cup {"header", "execute", "save", "save_locked"}
ResetLabels == {"ready", "reset_2", "reset_3", "reset_4", "reset_perm", "reset_temp",
                "reset_block", "reset_accounts", "done"}

\* Type invariant of the worker, the temporary and permanent storages and the miner.
TypeOK ==
    /\ queue \in Seq(Requests)
    /\ reply \in [Requests -> {"none", "waiting"} \cup Outcomes]
    /\ cur \in Requests \cup {None}
    /\ input \in Header
    /\ saw \in SUBSET (Txs \cup {GenesisAccounts})
    /\ pending \in Block
    /\ latest \in Block \cup {None}
    /\ clock \in Nat
    /\ DOMAIN blocks \subseteq Nat
    /\ blocks \in [DOMAIN blocks -> Block]
    /\ accounts \in BOOLEAN
    /\ mined \in Nat
    /\ locks \in [LockNames -> Threads \cup {None}]
    /\ pc \in [Threads -> WorkerLabels \cup ResetLabels]
    /\ inhand \in [Miners -> Block \cup {None}]
    /\ paused \in BOOLEAN
    /\ lost \in Nat /\ errors \in Nat /\ crashes \in Nat

\* The chain in RocksDB has no gap: every number up to the last one is there, each
\* block is stored under its own number, and the mined number is the last one except
\* between the write of a block and the update of that number (stratus_storage.rs:262).
ChainContiguous ==
    /\ DOMAIN blocks = {} \/ DOMAIN blocks = 0..LastBlock(blocks)
    /\ \A n \in DOMAIN blocks : blocks[n].header.number = n
    /\ ~Publishing => mined = LastBlock(blocks)

\* With no block between finish_pending_block and the end of its commit, and no reset
\* in progress, the pending number is the number after the last mined block plus the
\* blocks whose commit was given up: miner.rs:94, pending and mined never desync.
NumbersInSync ==
    (~Resetting /\ \A t \in Miners : ~InFlight(t))
      => pending.header.number = (IF DOMAIN blocks = {} THEN 0 ELSE mined + 1) + lost

\* Every mined transaction was executed with the number and the timestamp of the block
\* it was mined in, however often the block changed under the worker
\* (save_pending_execution and the retry on EvmInputMismatch).
HeaderMatches ==
    \A n \in DOMAIN blocks : \A i \in DOMAIN blocks[n].txs :
        blocks[n].txs[i].input = blocks[n].header

\* Every mined transaction was executed on the state left by exactly the transactions
\* before it in the chain (executor/mod.rs:260: the next transaction cannot execute
\* against state the previous one has not saved).
SerialExecution ==
    \A n \in DOMAIN blocks : \A i \in DOMAIN blocks[n].txs :
        blocks[n].txs[i].saw =
            {GenesisAccounts}
              \cup (UNION {TxsIn(blocks[m]) : m \in {k \in DOMAIN blocks : k < n}})
              \cup {blocks[n].txs[j].tx : j \in 1..(i - 1)}

\* The abstract ledger this module implements when nobody resets it: the chain is what
\* RocksDB holds, and the queue is the block being committed followed by the pending one.
TxSeq(b) == [i \in DOMAIN b.txs |-> b.txs[i].tx]
Uncommitted == {t \in Miners : pc[t] \in {"commit", "write"}}
OpenTxs ==
    (IF Uncommitted = {} THEN <<>> ELSE TxSeq(inhand[CHOOSE t \in Uncommitted : TRUE]))
      \o TxSeq(pending)
ChainTxs == [i \in 1..Cardinality(DOMAIN blocks) |-> TxSeq(blocks[i - 1])]

LedgerSpec == INSTANCE Ledger WITH chain <- ChainTxs, open <- OpenTxs

\* Block production implements Ledger: transactions reach the chain in the order they
\* were saved, each once, and only a crash or a commit given up forgets one.
ImplementsLedger == LedgerSpec!Spec

\* In automine an acknowledged transaction is already in RocksDB: it survives a crash.
AutomineDurable ==
    Mode = "automine" /\ ~ResetStarted =>
        \A r \in Requests : reply[r] = "ok" => TxOf[r] \in Mined

\* Every request handed to the worker is answered: no lock order, retry or panic keeps
\* the single worker thread from its next task.
EveryRequestAnswered ==
    \A r \in Requests : reply[r] = "waiting" ~> reply[r] \in Outcomes

\* Once the interval miner stays enabled, an acknowledged transaction is mined, failed
\* writes included (commit_retry), unless the process crashes first.
AcknowledgedMined ==
    <>[](~paused) => \A r \in Requests : reply[r] = "ok" ~> (TxOf[r] \in Mined \/ crashes > 0)

(***************************************************************************)
(* The inductive invariant behind ChainContiguous and NumbersInSync.       *)
(***************************************************************************)
Mining(t) == pc[t] \in {"mine", "commit", "write", "publish"}
NextToMine == IF DOMAIN blocks = {} THEN 0 ELSE mined + 1

\* The worker has a request from the moment it takes one until it answers, and mines
\* only in automine.
WorkerBusy ==
    /\ pc[Worker] # "idle" => cur \in Requests
    /\ pc[Worker] \in {"save_locked", "mine_and_commit", "mine", "commit", "write", "publish"}
         => Mode = "automine"

\* The worker in automine owns save_execution until its block is committed, a thread that
\* mines owns mine_and_commit, one that writes a block owns commit too and a reset owns
\* every lock it has passed: no two of them are ever inside together (miner.rs:92, a reset
\* never interleaves with a block mine or a block commit).
LockDiscipline ==
    /\ pc[Worker] \in {"save_locked", "mine_and_commit", "mine", "commit", "write", "publish"}
         => locks["save_execution"] = Worker
    /\ \A t \in Miners : Mining(t) => locks["mine_and_commit"] = t
    /\ \A t \in Miners : pc[t] \in {"write", "publish"} => locks["commit"] = t
    /\ \A r \in Resetters :
         /\ pc[r] \in ResetLabels \ {"ready", "done"} => locks["save_execution"] = r
         /\ pc[r] \in ResetLabels \ {"ready", "done", "reset_2"} => locks["mine_and_commit"] = r
         /\ pc[r] \in ResetLabels \ {"ready", "done", "reset_2", "reset_3"} => locks["mine"] = r
         /\ pc[r] \in ResetLabels \ {"ready", "done", "reset_2", "reset_3", "reset_4"}
              => locks["commit"] = r

\* Every place a commit or a reset can be in, with the numbers of the chain, of the
\* pending block and of the block in hand there.
Accounting ==
    /\ \A n \in DOMAIN blocks : blocks[n].header.number = n
    /\ ~Publishing => \/ DOMAIN blocks = {} /\ mined = 0
                      \/ DOMAIN blocks = 0..mined
    /\ (~Resetting /\ \A t \in Miners : ~InFlight(t))
         => pending.header.number = NextToMine + lost
    /\ \A t \in Miners :
         /\ InFlight(t) => /\ inhand[t] \in Block
                           /\ pending.header.number = inhand[t].header.number + 1
         /\ pc[t] = "commit" => inhand[t].header.number = NextToMine + lost
         /\ pc[t] = "write" => lost = 0 /\ inhand[t].header.number = NextToMine
         /\ pc[t] = "publish" => /\ lost = 0
                                 /\ DOMAIN blocks = 0..inhand[t].header.number
    /\ \A r \in Resetters :
         /\ pc[r] \in {"reset_temp", "reset_block"} => DOMAIN blocks = {}
         /\ pc[r] \in {"reset_block", "reset_accounts"} => lost = 0 /\ pending.header.number = 1
         /\ pc[r] = "reset_accounts" => DOMAIN blocks = 0..0
    /\ DOMAIN blocks = {} => \/ lost = 0 /\ ~Dev
                             \/ \E r \in Resetters : pc[r] \in {"reset_temp", "reset_block"}

\* The inductive invariant: with a thread of every kind, a crash and a failed write, no
\* commit or reset ever leaves the numbers of the chain and of the pending block in a
\* combination the four conjuncts do not list.
IndInv == TypeOK /\ WorkerBusy /\ LockDiscipline /\ Accounting
=============================================================================
