-------------------------------- MODULE Rocks --------------------------------
(***************************************************************************)
(* The RocksDB permanent storage: nine column families, the batches that   *)
(* write them, the lookups of blocks, transactions, accounts and slots,    *)
(* and what is left of it all after a crash of the process, a power        *)
(* failure, or a reset cut short.                                          *)
(*                                                                         *)
(* A column family is a partial function from keys to values.  Keys are    *)
(* numbers or tuples of numbers, so that the order RocksDB iterates in is  *)
(* the order of the encoded keys.  `ghost` is not in the code: it is what  *)
(* the storage was asked to hold, and every property compares the column   *)
(* families with it.                                                       *)
(***************************************************************************)
EXTENDS Genesis, TLC, FiniteSetsExt

CONSTANTS
    Addresses,        \* addresses, as numbers: the order of their keys
    Nobody,           \* the zero / coinbase address, which is never stored
    Slots,            \* slot indexes
    Bodies,           \* bodies of blocks: executions and the changes they make
    Edits,            \* changes the development endpoints make to accounts
    SlotEdits,        \* values they give to slots
    Builds,           \* development build or not, writes synced or not, genesis file
    MaxBlock, MaxTime, MaxEvents

VARIABLES
    build,            \* the build and configuration in use
    db,               \* the column families, as a running process sees them
    disk,             \* what a power failure would leave of them
    number,           \* RocksPermanentStorage::block_number
    job,              \* what the writing thread is in the middle of
    ghost,            \* blocks, changes and edits the storage has accepted
    events            \* failures, resets and edits so far

vars == <<build, db, disk, number, job, ghost, events>>

(***************************************************************************)
(* Column families.                                                        *)
(***************************************************************************)
Empty == [k \in {} |-> None]

Get(cf, key) == IF key \in DOMAIN cf THEN cf[key] ELSE None

\* Entries for every key asked for that is stored.
MultiGet(cf, keys) == [k \in keys \cap DOMAIN cf |-> cf[k]]

\* Insertions of a batch: the new entries replace the old ones.
Insert(cf, entries) ==
    [k \in DOMAIN entries \cup DOMAIN cf |-> IF k \in DOMAIN entries THEN entries[k] ELSE cf[k]]

One(key, value) == [k \in {key} |-> value]

KeyLeq(a, b) ==
    \/ a = b
    \/ \E i \in DOMAIN a : a[i] < b[i] /\ \A j \in 1..(i - 1) : a[j] = b[j]

LastKey(cf)  == IF DOMAIN cf = {} THEN None ELSE Max(DOMAIN cf)
FirstKey(cf) == IF DOMAIN cf = {} THEN None ELSE Min(DOMAIN cf)

\* First key an iterator that starts at `key` comes to, in either direction.
IterFrom(cf, key, direction) ==
    LET ahead == {k \in DOMAIN cf : IF direction = "forward" THEN k >= key ELSE k <= key}
    IN  IF ahead = {} THEN None
        ELSE IF direction = "forward" THEN Min(ahead) ELSE Max(ahead)

\* Where an iterator over a family ends: hashes come in any order, the
\* histories backwards.
LastKeys(name, cf) ==
    LET keys == DOMAIN cf
    IN  CASE name \in {"transactions", "blocks_by_hash"} -> keys
          [] name = "account_slots" -> {k \in keys : \A o \in keys : KeyLeq(o, k)}
          [] name \in {"accounts_history", "account_slots_history"} ->
                {k \in keys : \A o \in keys : KeyLeq(k, o)}
          [] OTHER -> {k \in keys : \A o \in keys : o <= k}

\* Clearing takes two writes: a range deletion, which spares the end of the
\* range, and a batch that deletes what an iterator still finds.
ClearRange(cf, last) == MultiGet(cf, {last})

ClearLeftovers(cf) == Empty

ResetOrder ==
    <<"accounts", "accounts_history", "account_slots", "account_slots_history", "transactions",
      "blocks_by_number", "blocks_by_hash", "blocks_by_timestamp">>

FamilyNames == Range(ResetOrder) \cup {"block_changes"}

(***************************************************************************)
(* Accounts.  A change names the fields it sets; the other fields of a     *)
(* stored account are kept, those of a new one have their default.         *)
(***************************************************************************)
DefaultAccount == [nonce |-> 0, balance |-> 0, code |-> None]

UpdateAccount(stored, change) == change @@ (IF stored = None THEN DefaultAccount ELSE stored)

(***************************************************************************)
(* The block a body is mined to, and what is assumed of bodies and builds: *)
(* the executions of a pending block are kept by their hash, so no two of  *)
(* them have the same one, and None is no value of another type.           *)
(***************************************************************************)
InBlock(execution, n, timestamp) == [execution EXCEPT !.number = n, !.time = timestamp]

MinedBlock(n, timestamp, body) ==
    BlockFromPending(n, timestamp, [i \in DOMAIN body.txs |-> InBlock(body.txs[i], n, timestamp)])

IsSequence(s) == s \in Seq(Range(s))

IsExecution(e) ==
    /\ e = [hash |-> e.hash, number |-> e.number, time |-> e.time,
            result |-> e.result, output |-> e.output, logs |-> e.logs]
    /\ IsSequence(e.logs)

ASSUME BoundAssumption == {MaxBlock, MaxTime, MaxEvents} \subseteq Nat

\* Slot indexes are 256-bit numbers: there is a last one.
ASSUME AddressAssumption ==
    /\ Addresses \subseteq Nat \ {Nobody}
    /\ Slots \subseteq Nat
    /\ \E last \in Slots : \A i \in Slots : i <= last

ASSUME BodyAssumption ==
    \A body \in Bodies :
        /\ DOMAIN body.changes.accounts \subseteq Addresses
        /\ DOMAIN body.changes.slots \subseteq Addresses \X Slots
        /\ IsSequence(body.txs)
        /\ \A i \in DOMAIN body.txs :
             /\ IsExecution(body.txs[i])
             /\ \A j \in DOMAIN body.txs : body.txs[i].hash = body.txs[j].hash => i = j

\* The index of a log is a number (LogsBefore is a fold, whose type the prover cannot derive).
ASSUME IndexAssumption ==
    \A n \in 0..MaxBlock, t \in 0..MaxTime, body \in Bodies :
        LET block == MinedBlock(n, t, body)
        IN  \A i \in DOMAIN block.transactions : block.transactions[i].mined.first_log_index \in Nat

ASSUME GenesisAssumption ==
    \A b \in Builds :
        /\ GenesisBlockOf(b.file).header.timestamp \in Nat
        /\ DOMAIN GenesisStateOf(b.file).accounts \subseteq Addresses
        /\ DOMAIN GenesisStateOf(b.file).slots \subseteq Addresses \X Slots

ASSUME NoneAssumption ==
    /\ None \notin Nat
    /\ None \notin (Addresses \X (0..MaxBlock)) \cup (Addresses \X Slots \X (0..MaxBlock))
    /\ None \notin {[accounts |-> Empty, slots |-> Empty]} \cup {body.changes : body \in Bodies}
    /\ \A b \in Builds :
         LET stored == BlockToRocks(GenesisBlockOf(b.file))
         IN  None \notin {stored, BlockFromRocks(stored)}
    /\ \A n \in 0..MaxBlock, t \in 0..MaxTime, body \in Bodies :
         LET stored == BlockToRocks(MinedBlock(n, t, body))
         IN  None \notin {stored, BlockFromRocks(stored)}

(***************************************************************************)
(* The batch of a block.                                                   *)
(***************************************************************************)
ExecutionChanges(cfs, n, changes) ==
    LET updated == [a \in DOMAIN changes.accounts |->
                      UpdateAccount(Get(cfs.accounts, a), changes.accounts[a])]
    IN  [cfs EXCEPT
           !.accounts = Insert(@, updated),
           !.accounts_history = Insert(@,
               [k \in {<<a, n>> : a \in DOMAIN updated} |-> updated[k[1]]]),
           !.account_slots = Insert(@, changes.slots),
           !.account_slots_history = Insert(@,
               [k \in {<<s[1], s[2], n>> : s \in DOMAIN changes.slots} |-> changes.slots[<<k[1], k[2]>>]]),
           !.block_changes = Insert(@, One(n, changes))]

\* Mutant of BlockInsertion: the first block of a timestamp is kept.
BlockInsertionFirstOfTime(cfs, block) ==
    LET n == block.header.number
    IN  [cfs EXCEPT
           !.transactions = Insert(@,
               [h \in {block.transactions[i].execution.hash : i \in DOMAIN block.transactions} |-> n]),
           !.blocks_by_number    = Insert(@, One(n, BlockToRocks(block))),
           !.blocks_by_hash      = Insert(@, One(block.header.hash, n)),
           !.blocks_by_timestamp = Insert(One(block.header.timestamp, n), @)]

BlockInsertion(cfs, block) ==
    LET n == block.header.number
    IN  [cfs EXCEPT
           !.transactions = Insert(@,
               [h \in {block.transactions[i].execution.hash : i \in DOMAIN block.transactions} |-> n]),
           !.blocks_by_number    = Insert(@, One(n, BlockToRocks(block))),
           !.blocks_by_hash      = Insert(@, One(block.header.hash, n)),
           !.blocks_by_timestamp = Insert(@, One(block.header.timestamp, n))]

AccountsInsertion(cfs, accounts) ==
    [cfs EXCEPT !.accounts = Insert(@, accounts),
                !.accounts_history = Insert(@, [k \in {<<a, 0>> : a \in DOMAIN accounts} |-> accounts[k[1]]])]

(***************************************************************************)
(* Lookups of blocks and transactions.                                     *)
(***************************************************************************)
BlockNumberOf(filter) ==
    CASE filter.by \in {"latest", "pending"} -> LastKey(db.blocks_by_number)
      [] filter.by = "earliest"  -> FirstKey(db.blocks_by_number)
      [] filter.by = "number"    -> filter.number
      [] filter.by = "hash"      -> Get(db.blocks_by_hash, filter.hash)
      [] filter.by = "timestamp" ->
            LET key == IterFrom(db.blocks_by_timestamp, filter.timestamp, filter.direction)
            IN  IF key = None THEN None ELSE db.blocks_by_timestamp[key]

ReadBlock(filter) ==
    LET n == BlockNumberOf(filter)
    IN  IF n = None \/ n \notin DOMAIN db.blocks_by_number THEN None
        ELSE BlockFromRocks(db.blocks_by_number[n])

ReadBlockWithChanges(filter) ==
    LET block == ReadBlock(filter)
    IN  IF block = None THEN None
        ELSE LET changes == Get(db.block_changes, block.header.number)
             IN  [block |-> block,
                  changes |-> IF changes = None THEN [accounts |-> Empty, slots |-> Empty] ELSE changes]

\* None for an unknown transaction; the two errors of the code are the cases
\* in which its index entry leads nowhere.
ReadTransaction(hash) ==
    IF Get(db.transactions, hash) = None THEN None
    ELSE LET n == db.transactions[hash]
             stored == Get(db.blocks_by_number, n)
             at == IF stored = None THEN {}
                   ELSE {i \in DOMAIN stored.transactions : stored.transactions[i].hash = hash}
         IN  IF at = {} THEN [error |-> "transaction not in its block"]
             ELSE TransactionFromRocks(stored.transactions[Min(at)], n, stored.header.hash)

HasGenesis == ReadBlock([by |-> "number", number |-> 0]) # None

(***************************************************************************)
(* Reads of accounts and slots, now and in the past.                       *)
(***************************************************************************)
\* The history families order their keys backwards, so the first key from a
\* key on is the greatest one that is not above it.
Seek(cf, key) ==
    LET below == {k \in DOMAIN cf : KeyLeq(k, key)}
    IN  IF below = {} THEN None ELSE CHOOSE k \in below : \A o \in below : KeyLeq(o, k)

ReadAccountLatest(a) == IF a = Nobody THEN None ELSE Get(db.accounts, a)

\* Mutant of ReadAccountPast: the key that is found may be of another account.
ReadAccountPastAnyAddress(a, n) ==
    LET found == Seek(db.accounts_history, <<a, n>>)
    IN  IF a = Nobody \/ found = None THEN None ELSE db.accounts_history[found]

ReadAccountPast(a, n) ==
    LET found == Seek(db.accounts_history, <<a, n>>)
    IN  IF a = Nobody \/ found = None \/ (found # None /\ found[1] # a) THEN None
        ELSE db.accounts_history[found]

ReadSlotLatest(a, i) == IF a = Nobody THEN None ELSE Get(db.account_slots, <<a, i>>)

ReadSlotPast(a, i, n) ==
    LET found == Seek(db.account_slots_history, <<a, i, n>>)
    IN  IF a = Nobody \/ found = None \/ (found # None /\ <<found[1], found[2]>> # <<a, i>>) THEN None
        ELSE db.account_slots_history[found]

\* The access-list loaders read many keys at once.
ReadAccounts(addresses) == MultiGet(db.accounts, addresses)
ReadSlots(keys) == MultiGet(db.account_slots, keys)

(***************************************************************************)
(* Writes.  A synced batch is on disk, with every earlier write, when the  *)
(* call returns; an unsynced one may or may not have reached it.           *)
(***************************************************************************)
Idle == [op |-> "idle"]
Down == [op |-> "down"]

\* Mutant of Write: the option to sync is not passed on.
WriteUnsynced(cfs, accepted, synced) ==
    /\ db' = cfs
    /\ ghost' = accepted
    /\ disk' \in {[db |-> cfs, ghost |-> accepted], disk}

Write(cfs, accepted, synced) ==
    /\ db' = cfs
    /\ ghost' = accepted
    /\ disk' \in {[db |-> cfs, ghost |-> accepted]} \cup (IF synced THEN {} ELSE {disk})

NoGhost == [blocks |-> <<>>, accounts |-> Empty, edited |-> {}, torn |-> FALSE]

StartReset == [op |-> "reset", left |-> ResetOrder, half |-> FALSE]

Init ==
    /\ build \in Builds
    /\ db = [cf \in FamilyNames |-> Empty]
    /\ number = 0
    /\ job = Down
    /\ ghost = NoGhost
    /\ disk = [db |-> db, ghost |-> ghost]
    /\ events = 0

\* Opening loads the number of the last block; a development build without a
\* genesis block resets the storage to it.
Open ==
    /\ job = Down
    /\ number' = IF LastKey(db.blocks_by_number) = None THEN 0 ELSE LastKey(db.blocks_by_number)
    /\ job' = IF build.dev /\ ~HasGenesis THEN StartReset ELSE Idle
    /\ UNCHANGED <<build, db, disk, ghost, events>>

NextBlockNumber == IF DOMAIN db.blocks_by_number = {} THEN 0 ELSE number + 1

SaveBlock(timestamp, body) ==
    LET n == NextBlockNumber
        block == MinedBlock(n, timestamp, body)
    IN  /\ job = Idle
        /\ n <= MaxBlock
        /\ ReadBlock([by |-> "number", number |-> n]) = None
        /\ \A i \in DOMAIN body.txs : body.txs[i].hash \notin DOMAIN db.transactions
        /\ Write(ExecutionChanges(BlockInsertion(db, block), n, body.changes),
                 [ghost EXCEPT !.blocks = Append(@, [block |-> block, changes |-> body.changes])],
                 build.sync)
        /\ job' = [op |-> "publish", number |-> n]
        /\ UNCHANGED <<build, number, events>>

SetMinedBlockNumber ==
    /\ job.op = "publish"
    /\ number' = job.number
    /\ job' = Idle
    /\ UNCHANGED <<build, db, disk, ghost, events>>

(***************************************************************************)
(* Development endpoints: a setter writes the latest state only, with a    *)
(* write that does not wait for the disk.                                  *)
(***************************************************************************)
SaveAccountField(cfs, a, change) ==
    [cfs EXCEPT !.accounts = Insert(@, One(a, UpdateAccount(Get(@, a), change)))]

SetAccount(a, change) ==
    /\ build.dev
    /\ job = Idle
    /\ events < MaxEvents
    /\ events' = events + 1
    /\ Write(SaveAccountField(db, a, change), [ghost EXCEPT !.edited = @ \cup {<<a>>}], FALSE)
    /\ UNCHANGED <<build, number, job>>

SaveSlot(cfs, a, i, v) == [cfs EXCEPT !.account_slots = Insert(@, One(<<a, i>>, v))]

SetStorageAt(a, i, v) ==
    /\ build.dev
    /\ job = Idle
    /\ events < MaxEvents
    /\ events' = events + 1
    /\ Write(SaveSlot(db, a, i, v), [ghost EXCEPT !.edited = @ \cup {<<a, i>>}], FALSE)
    /\ UNCHANGED <<build, number, job>>

Reset ==
    /\ build.dev
    /\ job = Idle
    /\ events < MaxEvents
    /\ events' = events + 1
    /\ number' = 0
    /\ job' = StartReset
    /\ UNCHANGED <<build, db, disk, ghost>>

\* A family is cleared in two writes.  From the first one on the storage is
\* torn: it is neither the old state nor the genesis state.
ClearFamily ==
    /\ job.op = "reset"
    /\ job.left # <<>>
    /\ LET cf == Head(job.left)
           torn == [NoGhost EXCEPT !.torn = TRUE]
       IN  \/ /\ job.half \/ DOMAIN db[cf] = {}
              /\ Write([db EXCEPT ![cf] = ClearLeftovers(@)], torn, FALSE)
              /\ job' = [job EXCEPT !.left = Tail(@), !.half = FALSE]
           \/ /\ ~job.half
              /\ \E last \in LastKeys(cf, db[cf]) :
                   Write([db EXCEPT ![cf] = ClearRange(@, last)], torn, FALSE)
              /\ job' = [job EXCEPT !.half = TRUE]
    /\ UNCHANGED <<build, number, events>>

SaveGenesisBlock ==
    /\ job.op = "reset"
    /\ job.left = <<>>
    /\ LET genesis == GenesisBlockOf(build.file)
           none == [accounts |-> Empty, slots |-> Empty]
       IN  Write(ExecutionChanges(BlockInsertion(db, genesis), 0, none),
                 [ghost EXCEPT !.blocks = <<[block |-> genesis, changes |-> none]>>], build.sync)
    /\ job' = [op |-> "accounts"]
    /\ number' = 0
    /\ UNCHANGED <<build, events>>

SaveGenesisAccounts ==
    /\ job.op = "accounts"
    /\ LET genesis == GenesisStateOf(build.file)
       IN  /\ Write(AccountsInsertion(db, genesis.accounts),
                    [ghost EXCEPT !.accounts = genesis.accounts], build.sync)
           /\ job' = [op |-> "slots", left |-> genesis.slots]
    /\ UNCHANGED <<build, number, events>>

SaveGenesisSlot ==
    /\ job.op = "slots"
    /\ \E s \in DOMAIN job.left :
         /\ Write(SaveSlot(db, s[1], s[2], job.left[s]), [ghost EXCEPT !.edited = @ \cup {s}], FALSE)
         /\ job' = [job EXCEPT !.left = [o \in DOMAIN @ \ {s} |-> @[o]]]
    /\ UNCHANGED <<build, number, events>>

GenesisSaved ==
    /\ job.op = "slots"
    /\ DOMAIN job.left = {}
    /\ ghost' = [ghost EXCEPT !.torn = FALSE]
    /\ number' = 0
    /\ job' = Idle
    /\ UNCHANGED <<build, db, disk, events>>

(***************************************************************************)
(* Failures.  What a process wrote survives it; a power failure may lose   *)
(* the writes that were never synced, the last ones first.                 *)
(***************************************************************************)
Crash ==
    /\ job # Down
    /\ events < MaxEvents
    /\ events' = events + 1
    /\ job' = Down
    /\ UNCHANGED <<build, db, disk, number, ghost>>

PowerFailure ==
    /\ events < MaxEvents
    /\ events' = events + 1
    /\ db' = disk.db
    /\ ghost' = disk.ghost
    /\ job' = Down
    /\ UNCHANGED <<build, disk, number>>

Times == LET last == ghost.blocks[Len(ghost.blocks)].block.header.timestamp
         IN  IF ghost.blocks = <<>> THEN {0} ELSE {t \in {last, last + 1, last + 2} : t <= MaxTime}

Next ==
    \/ Open
    \/ \E t \in Times, body \in Bodies : SaveBlock(t, body)
    \/ SetMinedBlockNumber
    \/ \E a \in Addresses, c \in Edits : SetAccount(a, c)
    \/ \E a \in Addresses, i \in Slots, v \in SlotEdits : SetStorageAt(a, i, v)
    \/ Reset
    \/ ClearFamily
    \/ SaveGenesisBlock
    \/ SaveGenesisAccounts
    \/ SaveGenesisSlot
    \/ GenesisSaved
    \/ Crash
    \/ PowerFailure

Spec == Init /\ [][Next]_vars

(***************************************************************************)
(* What the storage promises.                                              *)
(***************************************************************************)
Blocks == {n \in 0..MaxBlock : n < Len(ghost.blocks)}
Mined(n) == ghost.blocks[n + 1].block
LastMined == Len(ghost.blocks) - 1

\* The first_log_index of a transaction without logs is not stored.
SameBlock(read, block) ==
    /\ read # None
    /\ read.header = block.header
    /\ Len(read.transactions) = Len(block.transactions)
    /\ \A i \in DOMAIN block.transactions :
         LET r == read.transactions[i]
             b == block.transactions[i]
         IN  /\ r.execution = b.execution
             /\ r.mined.index = b.mined.index
             /\ r.mined.block_hash = b.mined.block_hash
             /\ b.execution.logs # <<>> => r.mined.first_log_index = b.mined.first_log_index

Closest(t, direction) ==
    LET ahead == {n \in Blocks : IF direction = "forward" THEN Mined(n).header.timestamp >= t
                                 ELSE Mined(n).header.timestamp <= t}
        times == {Mined(n).header.timestamp : n \in ahead}
        best  == IF direction = "forward" THEN Min(times) ELSE Max(times)
    IN  IF ahead = {} THEN None ELSE Max({n \in ahead : Mined(n).header.timestamp = best})

\* Every way to name a block (its number, its hash, the first, the last, the
\* closest in time) gives that block as it was mined, with the changes it made,
\* and every mined transaction is found in its block (rocks_state.rs read_block,
\* read_block_with_changes, read_transaction); of blocks with the same
\* timestamp the last one is found.
LookupsAgree ==
    ~ghost.torn /\ ghost.blocks # <<>> =>
        /\ \A n \in Blocks :
             /\ SameBlock(ReadBlock([by |-> "number", number |-> n]), Mined(n))
             /\ SameBlock(ReadBlock([by |-> "hash", hash |-> Mined(n).header.hash]), Mined(n))
             /\ ReadBlockWithChanges([by |-> "number", number |-> n]).changes = ghost.blocks[n + 1].changes
             /\ \A i \in DOMAIN Mined(n).transactions :
                  ReadTransaction(Mined(n).transactions[i].execution.hash)
                    = ReadBlock([by |-> "number", number |-> n]).transactions[i]
        /\ SameBlock(ReadBlock([by |-> "latest"]), Mined(LastMined))
        /\ SameBlock(ReadBlock([by |-> "earliest"]), Mined(0))
        /\ \A t \in 0..MaxTime, d \in {"forward", "backward"} :
             BlockNumberOf([by |-> "timestamp", timestamp |-> t, direction |-> d]) = Closest(t, d)

ApplyChange(account, a, changes) ==
    IF a \in DOMAIN changes.accounts THEN UpdateAccount(account, changes.accounts[a]) ELSE account

ApplySlotChange(value, s, changes) == IF s \in DOMAIN changes.slots THEN changes.slots[s] ELSE value

\* What a block finds: the genesis state, or what the block before it left.
AccountBefore(a, n) == IF n = 0 THEN Get(ghost.accounts, a) ELSE ReadAccountPast(a, n - 1)
SlotBefore(s, n) == IF n = 0 THEN None ELSE ReadSlotPast(s[1], s[2], n - 1)

\* The reads of the past replay the chain: an account or a slot, read at a block, is
\* what it was at the block before with that block's changes made to it, from the
\* genesis on, whatever was written, lost or restarted since (rocks_state.rs
\* read_account, read_slot); and the latest values are those of the last block.
\* Accounts and slots the development endpoints wrote are left out: those writes skip
\* the history.
PastReadsReplay ==
    ~ghost.torn /\ ghost.blocks # <<>> =>
        /\ \A a \in {x \in Addresses : <<x>> \notin ghost.edited} :
             /\ \A n \in Blocks :
                  ReadAccountPast(a, n) = ApplyChange(AccountBefore(a, n), a, ghost.blocks[n + 1].changes)
             /\ ReadAccountLatest(a) = ReadAccountPast(a, LastMined)
             /\ Get(ReadAccounts(Addresses), a) = ReadAccountPast(a, LastMined)
        /\ \A s \in (Addresses \X Slots) \ ghost.edited :
             /\ \A n \in Blocks :
                  ReadSlotPast(s[1], s[2], n) = ApplySlotChange(SlotBefore(s, n), s, ghost.blocks[n + 1].changes)
             /\ ReadSlotLatest(s[1], s[2]) = ReadSlotPast(s[1], s[2], LastMined)
             /\ Get(ReadSlots(Addresses \X Slots), s) = ReadSlotPast(s[1], s[2], LastMined)

\* With synced writes no failure takes back a block whose number was published
\* (rocks_state.rs write_in_batch_for_multiple_cfs).
DurablePublished ==
    [][build.sync /\ ~ghost.torn /\ job.op \notin {"reset", "down"} /\ ghost.blocks # <<>> =>
         /\ Len(ghost'.blocks) > number
         /\ SubSeq(ghost'.blocks, 1, number + 1) = SubSeq(ghost.blocks, 1, number + 1)]_vars

==============================================================================
