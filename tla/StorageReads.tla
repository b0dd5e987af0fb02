---------------------------- MODULE StorageReads ----------------------------
(***************************************************************************)
(* Reads of accounts and slots against the commit of a block               *)
(* (storage/stratus_storage.rs, storage/resolve_pending.rs,                *)
(* storage/cache.rs, storage/types/state_lock.rs).                         *)
(*                                                                         *)
(* A key is an account or a slot.  A key's value is the number of the      *)
(* transaction that wrote it last, 0 for the value it has at the start.    *)
(* Five kinds of threads share the storage: the transaction worker         *)
(* (TargetState::Pending), the miner that finishes and commits blocks,     *)
(* eth_call threads (TargetState::LatestPinned), threads that read one key *)
(* at TargetState::Latest, and threads that warm the cache with an access  *)
(* list before a transaction is queued (load_access_list).                 *)
(***************************************************************************)
EXTENDS Naturals, FiniteSets

CONSTANTS
    Keys,
    Pinned,    \* threads that run eth_call or eth_estimateGas
    Unpinned,  \* threads that read one key at TargetState::Latest
    Loaders,   \* threads that run load_access_list for one key
    Loads,     \* the loads a node may be under: the readers that are active, what may
               \* remove cache entries ("evict", "clear"), and a bound on its blocks
    MaxTx,     \* bound: transactions saved
    None       \* no key

ASSUME ReadsAssumption ==
    /\ MaxTx \in Nat
    /\ Loads \subseteq [readers : SUBSET (Pinned \cup Unpinned \cup Loaders),
                        drops : SUBSET {"evict", "clear"}, blocks : Nat]
    /\ None \notin Keys
    /\ Pinned \cap (Unpinned \cup Loaders) = {} /\ Unpinned \cap Loaders = {}

Readers == Pinned \cup Unpinned \cup Loaders

VARIABLES
    load,           \* the load of this node
    pendingNumber,  \* number of the pending block
    pendingState,   \* State<Complete> of the pending block
    latestState,    \* State<Complete> of the last finished block
    permLatest,     \* RocksDB: account_slots and accounts
    permHistory,    \* RocksDB: account_slots_history and accounts_history
    cache,          \* latest cache
    info,           \* number in the BlockInfo behind latest_state_lock
    mined,          \* the mined block number
    guards,         \* threads that hold the read side of latest_state_lock
    miner,          \* where the miner is, and the block it commits
    worker,         \* the worker's attempt at the transaction being executed
    reader,         \* where each reader is
    txs,            \* transactions saved so far
    truth,          \* history: the last value saved for each key
    snapshot,       \* history: the values at the end of each finished block
    stale           \* history: the keys a saved transaction had read an old value of,
                    \* and whether a recent block had changed them

tempVars == <<pendingNumber, pendingState, latestState>>
permVars == <<permLatest, permHistory>>
lockVars == <<info, mined, guards>>
ghostVars == <<txs, truth, snapshot, stale>>
vars == <<load, tempVars, permVars, cache, lockVars, miner, worker, reader, ghostVars>>

(***************************************************************************)
(* Partial functions from keys: the cache, and State<Complete>, in which a *)
(* value is either an original that was only read or a changed one.        *)
(***************************************************************************)
Empty == [k \in {} |-> 0]

Changes(s) == {k \in DOMAIN s : s[k].changed}

\* State<Complete>::merge: an original never replaces what is there.
Merge(old, new) ==
    [k \in DOMAIN old \cup DOMAIN new |->
        IF k \in DOMAIN new /\ (new[k].changed \/ k \notin DOMAIN old) THEN new[k] ELSE old[k]]

Put(c, k, v) == [x \in DOMAIN c \cup {k} |-> IF x = k THEN v ELSE c[x]]
\* Mutant of PutIfMissing: a late fill overwrites the entry.
PutAlways(c, k, v) == Put(c, k, v)

PutIfMissing(c, k, v) == IF k \in DOMAIN c THEN c ELSE Put(c, k, v)

\* The last entry of the history of k at or before block n.
HistoryAt(k, n) ==
    LET before == {e \in permHistory[k] : e[1] <= n}
    IN  (CHOOSE e \in before : \A f \in before : f[1] <= e[1])[2]

WriteLocked == miner.pc = "cache"

NoBlock == [pc |-> "idle", number |-> 0, changes |-> Empty, todo |-> {}]
NoAttempt == [pc |-> "idle", number |-> 0, todo |-> {}, writes |-> {}, key |-> None, values |-> Empty]
NoRead == [pc |-> "idle", pin |-> 0, header |-> 0, todo |-> {}, key |-> None, value |-> 0,
           values |-> Empty]

Init ==
    /\ load \in Loads
    /\ pendingNumber = 1
    /\ pendingState = Empty
    /\ latestState = Empty
    /\ permLatest = [k \in Keys |-> 0]
    /\ permHistory = [k \in Keys |-> {<<0, 0>>}]
    /\ cache = Empty
    /\ info = 0
    /\ mined = 0
    /\ guards = {}
    /\ miner = NoBlock
    /\ worker = NoAttempt
    /\ reader = [r \in Readers |-> NoRead]
    /\ txs = 0
    /\ truth = [k \in Keys |-> 0]
    /\ snapshot = [n \in {0} |-> [k \in Keys |-> 0]]
    /\ stale = {}

(***************************************************************************)
(* The worker executes a transaction that reads the keys of its read set   *)
(* one by one and changes some of them.                                    *)
(***************************************************************************)
BeginAttempt ==
    /\ worker.pc = "idle"
    /\ txs < MaxTx
    /\ \E rs \in SUBSET Keys \ {{}} : \E ws \in SUBSET rs :
          worker' = [NoAttempt EXCEPT !.pc = "read", !.number = pendingNumber,
                                      !.todo = rs, !.writes = ws]
    /\ UNCHANGED <<tempVars, permVars, cache, lockVars, miner, reader, ghostVars>>

\* The attempt once it has read v for k.
Loaded(k, v) ==
    [worker EXCEPT !.pc = "read", !.todo = @ \ {k}, !.key = None, !.values = Put(@, k, v)]

\* Mutant of WorkerReadTemp: the last finished block is not looked at.
WorkerReadTempPending(k) ==
    /\ worker.pc = "read"
    /\ k \in worker.todo
    /\ worker' = IF k \in DOMAIN pendingState THEN Loaded(k, pendingState[k].value)
                 ELSE [worker EXCEPT !.pc = "cache", !.key = k]
    /\ UNCHANGED <<tempVars, permVars, cache, lockVars, miner, reader, ghostVars>>

\* Pending: the pending state, then that of the last finished block (read under the
\* lock of the pending one); a key in neither is looked up in the mined state.
WorkerReadTemp(k) ==
    /\ worker.pc = "read"
    /\ k \in worker.todo
    /\ \/ /\ k \in DOMAIN pendingState
          /\ worker' = Loaded(k, pendingState[k].value)
       \/ /\ k \in DOMAIN latestState \ DOMAIN pendingState
          /\ worker' = Loaded(k, latestState[k].value)
       \/ /\ k \notin DOMAIN pendingState \cup DOMAIN latestState
          /\ worker' = [worker EXCEPT !.pc = "cache", !.key = k]
    /\ UNCHANGED <<tempVars, permVars, cache, lockVars, miner, reader, ghostVars>>

WorkerReadCache ==
    /\ worker.pc = "cache"
    /\ worker' = IF worker.key \in DOMAIN cache
                 THEN Loaded(worker.key, cache[worker.key])
                 ELSE [worker EXCEPT !.pc = "perm"]
    /\ UNCHANGED <<tempVars, permVars, cache, lockVars, miner, reader, ghostVars>>

\* A transaction never fills the cache.
WorkerReadPerm ==
    /\ worker.pc = "perm"
    /\ worker' = Loaded(worker.key, permLatest[worker.key])
    /\ UNCHANGED <<tempVars, permVars, cache, lockVars, miner, reader, ghostVars>>

\* The output's State<Complete>: the originals it read and the values it changed.
Output ==
    [k \in DOMAIN worker.values |->
        [value |-> IF k \in worker.writes THEN txs + 1 ELSE worker.values[k],
         changed |-> k \in worker.writes]]

AttemptDone == worker.pc = "read" /\ worker.todo = {}

\* The history of what the saved transactions wrote and had read.
RecordSave ==
    /\ txs' = txs + 1
    /\ truth' = [k \in Keys |-> IF k \in worker.writes THEN txs + 1 ELSE truth[k]]
    /\ stale' = stale \cup
         {<<k, k \in Changes(pendingState) \cup Changes(latestState)>> :
             k \in {x \in DOMAIN worker.values : worker.values[x] # truth[x]}}
    /\ UNCHANGED snapshot

\* save_pending_execution: merged into the pending state unless the block changed since
\* the attempt began; then EvmInputMismatch makes the worker execute again.
WorkerSave ==
    /\ AttemptDone
    /\ worker' = NoAttempt
    /\ \/ /\ worker.number # pendingNumber
          /\ UNCHANGED <<pendingState, ghostVars>>
       \/ /\ worker.number = pendingNumber
          /\ pendingState' = Merge(pendingState, Output)
          /\ RecordSave
    /\ UNCHANGED <<pendingNumber, latestState, permVars, cache, lockVars, miner, reader>>

(***************************************************************************)
(* The miner finishes the pending block and commits it.                    *)
(***************************************************************************)
FinishPendingBlock ==
    /\ miner.pc = "idle"
    /\ pendingNumber <= load.blocks
    /\ miner' = [pc |-> "commit", number |-> pendingNumber, changes |-> pendingState,
                 todo |-> DOMAIN pendingState]
    /\ latestState' = pendingState
    /\ pendingState' = Empty
    /\ pendingNumber' = pendingNumber + 1
    /\ snapshot' = [n \in DOMAIN snapshot \cup {pendingNumber} |->
                       IF n = pendingNumber THEN truth ELSE snapshot[n]]
    /\ UNCHANGED <<permVars, cache, lockVars, worker, reader, txs, truth, stale>>

\* save_block up to the caches: the write lock is taken, which waits for the guards to be
\* released, the batch is written and the BlockInfo behind the lock replaced.
CommitPerm ==
    /\ miner.pc = "commit"
    /\ guards = {}
    /\ permLatest' = [k \in Keys |->
                         IF k \in Changes(miner.changes) THEN miner.changes[k].value ELSE permLatest[k]]
    /\ permHistory' = [k \in Keys |->
                          IF k \in Changes(miner.changes)
                          THEN permHistory[k] \cup {<<miner.number, miner.changes[k].value>>}
                          ELSE permHistory[k]]
    /\ info' = miner.number
    /\ miner' = [miner EXCEPT !.pc = "cache"]
    /\ UNCHANGED <<tempVars, cache, mined, guards, worker, reader, ghostVars>>

\* cache_account_and_slots_latest_from_changes: originals are cached too.
CacheChange(k) ==
    /\ miner.pc = "cache"
    /\ k \in miner.todo
    /\ cache' = Put(cache, k, miner.changes[k].value)
    /\ miner' = [miner EXCEPT !.todo = @ \ {k}]
    /\ UNCHANGED <<tempVars, permVars, lockVars, worker, reader, ghostVars>>

\* The mined number is set, then the write lock released.
PublishMined ==
    /\ miner.pc = "cache"
    /\ miner.todo = {}
    /\ mined' = miner.number
    /\ miner' = NoBlock
    /\ UNCHANGED <<tempVars, permVars, cache, info, guards, worker, reader, ghostVars>>

(***************************************************************************)
(* eth_call pins the mined block, reads its header and then each key.      *)
(***************************************************************************)
PinCall(r) ==
    /\ reader[r].pc = "idle"
    /\ reader' = [reader EXCEPT ![r] = [NoRead EXCEPT !.pc = "header", !.pin = mined, !.todo = Keys]]
    /\ UNCHANGED <<tempVars, permVars, cache, lockVars, miner, worker, ghostVars>>

\* read_block_info(Number): the pending header for the number after the latest block's,
\* the BlockInfo behind the lock for the latest, RocksDB for an older one.
ReadHeader(r) ==
    /\ reader[r].pc = "header"
    /\ ~WriteLocked
    /\ reader' = [reader EXCEPT ![r].pc = "read",
                                ![r].header = IF reader[r].pin = info + 1 THEN pendingNumber
                                              ELSE reader[r].pin]
    /\ UNCHANGED <<tempVars, permVars, cache, lockVars, miner, worker, ghostVars>>

\* The reader once it has read v for its key k.
Answered(r, k, v) ==
    [reader[r] EXCEPT !.pc = IF r \in Pinned THEN "read" ELSE "answer", !.todo = @ \ {k},
                      !.key = None, !.value = 0, !.values = Put(@, k, v)]

\* Mutant of ResolvePinned: a pinned read never falls back to the history.
ResolvePinnedLatest(r, k) ==
    /\ reader[r].pc = "read"
    /\ k \in reader[r].todo
    /\ ~WriteLocked
    /\ guards' = guards \cup {r}
    /\ reader' = [reader EXCEPT ![r].pc = "cache", ![r].key = k]
    /\ UNCHANGED <<tempVars, permVars, cache, info, mined, miner, worker, ghostVars>>

\* LatestPinned: under the read lock, a pin the chain has moved past is resolved to the
\* history and the guard dropped; otherwise the guard is kept for the latest state.
ResolvePinned(r, k) ==
    /\ reader[r].pc = "read"
    /\ k \in reader[r].todo
    /\ ~WriteLocked
    /\ \/ /\ reader[r].pin >= info
          /\ guards' = guards \cup {r}
          /\ reader' = [reader EXCEPT ![r].pc = "cache", ![r].key = k]
       \/ /\ reader[r].pin < info
          /\ reader' = [reader EXCEPT ![r].pc = "history", ![r].key = k]
          /\ UNCHANGED guards
    /\ UNCHANGED <<tempVars, permVars, cache, info, mined, miner, worker, ghostVars>>

ReadHistory(r) ==
    /\ reader[r].pc = "history"
    /\ reader' = [reader EXCEPT
                     ![r] = Answered(r, reader[r].key, HistoryAt(reader[r].key, reader[r].pin))]
    /\ UNCHANGED <<tempVars, permVars, cache, lockVars, miner, worker, ghostVars>>

\* A read at TargetState::Latest resolves to the latest state without a guard.
ResolveLatest(r, k) ==
    /\ reader[r].pc = "idle"
    /\ reader' = [reader EXCEPT ![r] = [NoRead EXCEPT !.pc = "cache", !.key = k]]
    /\ UNCHANGED <<tempVars, permVars, cache, lockVars, miner, worker, ghostVars>>

\* The latest state: the cache first.
ReadCache(r) ==
    /\ reader[r].pc = "cache"
    /\ \/ /\ reader[r].key \in DOMAIN cache
          /\ reader' = [reader EXCEPT ![r] = Answered(r, reader[r].key, cache[reader[r].key])]
          /\ guards' = guards \ {r}
       \/ /\ reader[r].key \notin DOMAIN cache
          /\ reader' = [reader EXCEPT ![r].pc = "perm"]
          /\ UNCHANGED guards
    /\ UNCHANGED <<tempVars, permVars, cache, info, mined, miner, worker, ghostVars>>

\* Then RocksDB, after which the guard is dropped.
ReadPerm(r) ==
    /\ reader[r].pc = "perm"
    /\ reader' = [reader EXCEPT ![r].pc = "fill", ![r].value = permLatest[reader[r].key]]
    /\ guards' = guards \ {r}
    /\ UNCHANGED <<tempVars, permVars, cache, info, mined, miner, worker, ghostVars>>

\* Only then is the value cached, if the key is still missing.
FillCache(r) ==
    /\ reader[r].pc = "fill"
    /\ cache' = PutIfMissing(cache, reader[r].key, reader[r].value)
    /\ reader' = [reader EXCEPT ![r] = Answered(r, reader[r].key, reader[r].value)]
    /\ UNCHANGED <<tempVars, permVars, lockVars, miner, worker, ghostVars>>

EndCall(r) ==
    /\ \/ reader[r].pc = "read" /\ reader[r].todo = {}
       \/ reader[r].pc = "answer"
    /\ reader' = [reader EXCEPT ![r] = NoRead]
    /\ UNCHANGED <<tempVars, permVars, cache, lockVars, miner, worker, ghostVars>>

(***************************************************************************)
(* load_access_list keeps the keys missing from the pending state, from    *)
(* the latest one and from the cache, reads them from RocksDB and caches   *)
(* those still missing.  Each look takes its own lock.                     *)
(***************************************************************************)
LoadRetainPending(r, k) ==
    /\ reader[r].pc = "idle"
    /\ k \notin DOMAIN pendingState
    /\ reader' = [reader EXCEPT ![r] = [NoRead EXCEPT !.pc = "retain", !.key = k]]
    /\ UNCHANGED <<tempVars, permVars, cache, lockVars, miner, worker, ghostVars>>

LoadRetainLatest(r) ==
    /\ reader[r].pc = "retain"
    /\ reader' = [reader EXCEPT ![r] = IF reader[r].key \in DOMAIN latestState
                                       THEN NoRead ELSE [@ EXCEPT !.pc = "retain_cache"]]
    /\ UNCHANGED <<tempVars, permVars, cache, lockVars, miner, worker, ghostVars>>

LoadRetainCache(r) ==
    /\ reader[r].pc = "retain_cache"
    /\ reader' = [reader EXCEPT ![r] = IF reader[r].key \in DOMAIN cache
                                       THEN NoRead ELSE [@ EXCEPT !.pc = "perm"]]
    /\ UNCHANGED <<tempVars, permVars, cache, lockVars, miner, worker, ghostVars>>

(***************************************************************************)
(* The cache is bounded and may evict any entry; stratus_clearCache        *)
(* empties it.                                                             *)
(***************************************************************************)
Evict(k) ==
    /\ "evict" \in load.drops
    /\ k \in DOMAIN cache
    /\ cache' = [x \in DOMAIN cache \ {k} |-> cache[x]]
    /\ UNCHANGED <<tempVars, permVars, lockVars, miner, worker, reader, ghostVars>>

ClearCache ==
    /\ "clear" \in load.drops
    /\ cache' = Empty
    /\ UNCHANGED <<tempVars, permVars, lockVars, miner, worker, reader, ghostVars>>

WorkerNext ==
    \/ BeginAttempt \/ WorkerReadCache \/ WorkerReadPerm \/ WorkerSave
    \/ \E k \in Keys : WorkerReadTemp(k)

MinerNext ==
    \/ FinishPendingBlock \/ CommitPerm \/ PublishMined
    \/ \E k \in Keys : CacheChange(k)

ReaderNext(r) ==
    \/ ReadHeader(r) \/ ReadHistory(r) \/ ReadCache(r) \/ ReadPerm(r) \/ FillCache(r)
    \/ EndCall(r) \/ LoadRetainLatest(r) \/ LoadRetainCache(r)
    \/ r \in Pinned /\ PinCall(r)
    \/ \E k \in Keys : \/ ResolvePinned(r, k)
                       \/ r \in Unpinned /\ ResolveLatest(r, k)
                       \/ r \in Loaders /\ LoadRetainPending(r, k)

Next ==
    /\ \/ WorkerNext
       \/ MinerNext
       \/ \E r \in load.readers : ReaderNext(r)
       \/ \E k \in Keys : Evict(k)
       \/ ClearCache
    /\ UNCHANGED load

Spec == Init /\ [][Next]_vars

(***************************************************************************)
(* Properties                                                              *)
(***************************************************************************)
\* A transaction saved in the pending block was executed on the values the transactions
\* saved before it left, whatever finished, committed or was cached while it executed
\* (StratusStorage::read at Pending, against save_block and the fills of other readers), as
\* long as the cache keeps its entries.
TxReadsCurrent == load.drops = {} => stale = {}

\* What the pending block or the last finished one changed is read right even when the
\* cache loses entries: such reads are answered by the temporary storage, so a stale
\* entry a hot eviction lets a late fill leave behind does not reach them.
TxReadsRecent == \A e \in stale : ~e[2]

\* Everything an eth_call reads, header and keys, belongs to the one block it pinned, even
\* when blocks are committed between its reads (LatestPinned falls back to the history), as
\* long as the cache keeps its entries.
PinnedSnapshot ==
    load.drops = {} => \A r \in Pinned : reader[r].pc # "idle" =>
        /\ reader[r].pc # "header" => reader[r].header = reader[r].pin
        /\ \A k \in DOMAIN reader[r].values : reader[r].values[k] = snapshot[reader[r].pin][k]

\* Between commits, a cached value is the value RocksDB holds: a reader that fills the cache
\* after it dropped its guard, or never had one, cannot leave an older one there as long as
\* entries are not dropped.
CacheCoherent ==
    load.drops = {} /\ ~WriteLocked => \A k \in DOMAIN cache : cache[k] = permLatest[k]
=============================================================================
