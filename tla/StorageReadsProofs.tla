------------------------- MODULE StorageReadsProofs -------------------------
(***************************************************************************)
(* With a cache that keeps its entries, a transaction reads what the       *)
(* transactions before it left, the cache agrees with RocksDB, and what a  *)
(* pinned call reads belongs to the block it pinned, for any number of     *)
(* keys, readers, loaders, transactions and blocks.                        *)
(***************************************************************************)
EXTENDS StorageReads, TLAPS

AttemptFields == {"pc", "number", "todo", "writes", "key", "values"}
ReadFields == {"pc", "pin", "header", "todo", "key", "value", "values"}
BlockFields == {"pc", "number", "changes", "todo"}
KeyPhases == {"cache", "perm", "fill", "history", "retain", "retain_cache"}

\* Only the worker adds keys to the pending block, so one it found neither there nor in the last
\* finished block stays out of both while it looks at the cache and at RocksDB.
Shapes ==
    /\ load \in Loads
    /\ DOMAIN pendingState \subseteq Keys /\ DOMAIN latestState \subseteq Keys
    /\ DOMAIN cache \subseteq Keys
    /\ DOMAIN miner = BlockFields /\ miner.pc \in {"idle", "commit", "cache"}
    /\ DOMAIN worker = AttemptFields /\ worker.pc \in {"idle", "read", "cache", "perm"}
    /\ worker.todo \subseteq Keys /\ DOMAIN worker.values \subseteq Keys
    /\ worker.pc \in {"cache", "perm"} => /\ worker.key \in worker.todo
                                          /\ worker.key \notin DOMAIN pendingState
                                          /\ worker.key \notin DOMAIN latestState
    /\ worker.pc # "idle" => worker.writes \subseteq worker.todo \cup DOMAIN worker.values
    /\ DOMAIN reader = Readers
    /\ \A r \in Readers : /\ DOMAIN reader[r] = ReadFields
                          /\ reader[r].pc \in KeyPhases => reader[r].key \in Keys

\* What lies under the pending block: the last finished block, then RocksDB.
Under(k) == IF k \in DOMAIN latestState THEN latestState[k].value ELSE permLatest[k]

\* The temporary storage over RocksDB is what the saved transactions left; an original that a
\* transaction only read is what lies under it; and the last finished block is in RocksDB
\* except until its commit has written it.
Layers ==
    /\ \A k \in Keys : truth[k] = IF k \in DOMAIN pendingState THEN pendingState[k].value ELSE Under(k)
    /\ \A k \in DOMAIN pendingState \ Changes(pendingState) : pendingState[k].value = Under(k)
    /\ \A k \in DOMAIN latestState :
         (miner.pc # "commit" \/ k \notin Changes(latestState)) => latestState[k].value = permLatest[k]
    /\ miner.pc # "idle" => miner.changes = latestState
    /\ miner.pc = "commit" => miner.todo = DOMAIN latestState
    /\ miner.pc = "cache" => miner.todo \subseteq DOMAIN latestState

\* What the worker has read is what the saved transactions left, and always was.
Attempt ==
    /\ \A k \in DOMAIN worker.values : worker.values[k] = truth[k]
    /\ stale = {}

\* The keys whose entry the commit in progress has yet to replace.
Due == IF miner.pc = "cache" THEN miner.todo ELSE {}

\* An entry, and a value a reader is about to fill in, may be old only where the commit in
\* progress will replace it; a fill may also come too late, when there is an entry already.
Fills ==
    /\ \A k \in DOMAIN cache : cache[k] = permLatest[k] \/ k \in Due
    /\ \A r \in Readers : reader[r].pc = "fill" =>
         \/ reader[r].value = permLatest[reader[r].key]
         \/ reader[r].key \in DOMAIN cache \cup Due

ReadsInv == Shapes /\ (load.drops = {} => Layers /\ Attempt /\ Fills)

\* A fresh node has nothing in its temporary storage and its cache.
LEMMA Start == Init => ReadsInv
<1> SUFFICES ASSUME Init PROVE ReadsInv
  BY Zenon
<1>1. Shapes
  BY Zenon DEF Init, Shapes, Empty, NoBlock, NoAttempt, NoRead, AttemptFields, ReadFields,
     BlockFields,
         KeyPhases
<1>2. Layers
  BY Zenon DEF Init, Layers, Under, Empty, NoBlock, Changes
<1>3. Attempt
  BY Zenon DEF Init, Attempt, Empty, NoAttempt
<1>4. Fills
  BY Zenon DEF Init, Fills, Empty, NoRead
<1> QED
  BY <1>1, <1>2, <1>3, <1>4, Zenon DEF ReadsInv

\* A reader's step that leaves the cache alone keeps the invariant when what it is about to fill
\* in, if anything, is what RocksDB holds.
LEMMA ReaderMoves ==
    ASSUME ReadsInv, NEW r \in Readers, NEW rd, reader' = [reader EXCEPT ![r] = rd],
           DOMAIN rd = ReadFields, rd.pc \in KeyPhases => rd.key \in Keys,
           rd.pc = "fill" => rd.value = permLatest[rd.key],
           UNCHANGED <<tempVars, permVars, cache, miner, worker, ghostVars, load>>
    PROVE  ReadsInv'
<1>1. Shapes'
  BY Zenon DEF ReadsInv, Shapes, tempVars
<1>2. ASSUME load.drops = {} PROVE Layers' /\ Attempt'
  BY <1>2, Zenon DEF ReadsInv, Layers, Attempt, Under, Changes, tempVars, permVars, ghostVars
<1>3. ASSUME load.drops = {} PROVE Fills'
  <2>1. Due' = Due
    BY Zenon DEF Due
  <2>2. Fills /\ DOMAIN reader = Readers
    BY <1>3, Zenon DEF ReadsInv, Shapes
  <2> QED
    BY <2>1, <2>2, Zenon DEF Fills, permVars
<1> QED
  BY <1>1, <1>2, <1>3, Zenon DEF ReadsInv

\* A fill leaves at most an entry the commit in progress will replace.
LEMMA FillKeeps ==
    ASSUME ReadsInv, NEW r \in Readers, FillCache(r), UNCHANGED load PROVE ReadsInv'
<1> DEFINE rd == Answered(r, reader[r].key, reader[r].value)
<1>1. DOMAIN rd = ReadFields /\ rd.pc \in {"read", "answer"}
  BY Zenon DEF ReadsInv, Shapes, Answered, ReadFields
<1>2. Shapes'
  <2>1. DOMAIN cache' \subseteq Keys
    BY Zenon DEF FillCache, ReadsInv, Shapes, PutIfMissing, Put, KeyPhases
  <2>2. reader' = [reader EXCEPT ![r] = rd]
    BY Zenon DEF FillCache
  <2> HIDE DEF rd
  <2> QED
    BY <1>1, <2>1, <2>2, Zenon DEF FillCache, ReadsInv, Shapes, tempVars, KeyPhases
<1>3. ASSUME load.drops = {} PROVE Layers' /\ Attempt'
  BY <1>3, Zenon DEF FillCache, ReadsInv, Layers, Attempt, Under, Changes, tempVars, permVars,
     ghostVars
<1>4. ASSUME load.drops = {} PROVE Fills'
  <2>1. Due' = Due /\ permLatest' = permLatest
    BY Zenon DEF FillCache, Due, permVars
  <2>2. Fills /\ DOMAIN reader = Readers
    BY <1>4, Zenon DEF ReadsInv, Shapes
  <2>3. DOMAIN cache \subseteq DOMAIN cache'
    BY Zenon DEF FillCache, PutIfMissing, Put
  <2>4. \A k \in DOMAIN cache' : cache'[k] = permLatest[k] \/ k \in Due
    BY <2>2, Zenon DEF FillCache, PutIfMissing, Put, Fills
  <2>5. reader' = [reader EXCEPT ![r] = rd]
    BY Zenon DEF FillCache
  <2> HIDE DEF rd
  <2> QED
    BY <1>1, <2>1, <2>2, <2>3, <2>4, <2>5, Zenon DEF Fills
<1> QED
  BY <1>2, <1>3, <1>4, Zenon DEF ReadsInv, FillCache

\* Whatever a call, a read of the latest state or a load of an access list does next.
LEMMA ReaderKeeps ==
    ASSUME ReadsInv, NEW r \in Readers, ReaderNext(r), UNCHANGED load PROVE ReadsInv'
<1>1. DOMAIN reader[r] = ReadFields /\ (reader[r].pc \in KeyPhases => reader[r].key \in Keys)
  BY Zenon DEF ReadsInv, Shapes
<1>2. DOMAIN reader = Readers
  BY Zenon DEF ReadsInv, Shapes
<1>3. CASE FillCache(r)
  BY <1>3, FillKeeps, Zenon
<1>4. CASE ReadPerm(r)
  <2> DEFINE rd == [reader[r] EXCEPT !.pc = "fill", !.value = permLatest[reader[r].key]]
  <2>1. reader' = [reader EXCEPT ![r] = rd]
    BY <1>4, <1>2, Zenon DEF ReadPerm
  <2>2. /\ DOMAIN rd = ReadFields /\ rd.key \in Keys
        /\ rd.value = permLatest[rd.key]
    BY <1>4, <1>1, Zenon DEF ReadPerm, ReadFields, KeyPhases
  <2> HIDE DEF rd
  <2> QED
    BY <2>1, <2>2, <1>4, ReaderMoves, Zenon DEF ReadPerm
<1>5. ASSUME NEW rd, reader' = [reader EXCEPT ![r] = rd], DOMAIN rd = ReadFields, rd.pc # "fill",
             rd.pc \in KeyPhases => rd.key \in Keys,
             UNCHANGED <<tempVars, permVars, cache, miner, worker, ghostVars>>
      PROVE  ReadsInv'
  BY <1>5, ReaderMoves, Zenon
<1>6. DOMAIN NoRead = ReadFields /\ NoRead.pc = "idle"
  BY Zenon DEF NoRead, ReadFields
<1>7. ASSUME NEW k, NEW v PROVE
        LET rd == Answered(r, k, v) IN DOMAIN rd = ReadFields /\ rd.pc \in {"read", "answer"}
  BY <1>1, Zenon DEF Answered, ReadFields
<1>8. CASE ReadHeader(r)
  <2> DEFINE rd == [reader[r] EXCEPT !.pc = "read",
                       !.header = IF reader[r].pin = info + 1 THEN pendingNumber ELSE reader[r].pin]
  <2>1. reader' = [reader EXCEPT ![r] = rd]
    BY <1>8, <1>2, Zenon DEF ReadHeader
  <2>2. DOMAIN rd = ReadFields /\ rd.pc = "read"
    BY <1>1, Zenon DEF ReadFields
  <2> HIDE DEF rd
  <2> QED
    BY <2>1, <2>2, <1>5, <1>8, Zenon DEF ReadHeader, KeyPhases
<1>9. CASE ReadHistory(r)
  <2> DEFINE rd == Answered(r, reader[r].key, HistoryAt(reader[r].key, reader[r].pin))
  <2>1. reader' = [reader EXCEPT ![r] = rd]
    BY <1>9, Zenon DEF ReadHistory
  <2>2. DOMAIN rd = ReadFields /\ rd.pc \in {"read", "answer"}
    BY <1>7, Zenon
  <2> HIDE DEF rd
  <2> QED
    BY <2>1, <2>2, <1>5, <1>9, Zenon DEF ReadHistory, KeyPhases
<1>10. CASE ReadCache(r)
  <2> DEFINE rd == Answered(r, reader[r].key, cache[reader[r].key])
             rp == [reader[r] EXCEPT !.pc = "perm"]
  <2>1. \/ reader' = [reader EXCEPT ![r] = rd]
        \/ reader' = [reader EXCEPT ![r] = rp]
    BY <1>10, <1>2, Zenon DEF ReadCache
  <2>2. DOMAIN rd = ReadFields /\ rd.pc \in {"read", "answer"}
    BY <1>7, Zenon
  <2>3. DOMAIN rp = ReadFields /\ rp.pc = "perm" /\ rp.key \in Keys
    BY <1>1, <1>10, Zenon DEF ReadFields, ReadCache, KeyPhases
  <2> HIDE DEF rd, rp
  <2> QED
    BY <2>1, <2>2, <2>3, <1>5, <1>10, Zenon DEF ReadCache, KeyPhases
<1>11. CASE EndCall(r)
  BY <1>11, <1>5, <1>6, Zenon DEF EndCall, KeyPhases
<1>12. CASE LoadRetainLatest(r)
  <2> DEFINE rd == [reader[r] EXCEPT !.pc = "retain_cache"]
  <2>1. \/ reader' = [reader EXCEPT ![r] = NoRead]
        \/ reader' = [reader EXCEPT ![r] = rd]
    BY <1>12, <1>2, Zenon DEF LoadRetainLatest
  <2>2. DOMAIN rd = ReadFields /\ rd.pc = "retain_cache" /\ rd.key \in Keys
    BY <1>1, <1>12, Zenon DEF ReadFields, LoadRetainLatest, KeyPhases
  <2> HIDE DEF rd
  <2> QED
    BY <2>1, <2>2, <1>5, <1>6, <1>12, Zenon DEF LoadRetainLatest, KeyPhases
<1>13. CASE LoadRetainCache(r)
  <2> DEFINE rd == [reader[r] EXCEPT !.pc = "perm"]
  <2>1. \/ reader' = [reader EXCEPT ![r] = NoRead]
        \/ reader' = [reader EXCEPT ![r] = rd]
    BY <1>13, <1>2, Zenon DEF LoadRetainCache
  <2>2. DOMAIN rd = ReadFields /\ rd.pc = "perm" /\ rd.key \in Keys
    BY <1>1, <1>13, Zenon DEF ReadFields, LoadRetainCache, KeyPhases
  <2> HIDE DEF rd
  <2> QED
    BY <2>1, <2>2, <1>5, <1>6, <1>13, Zenon DEF LoadRetainCache, KeyPhases
<1>14. CASE PinCall(r)
  <2> DEFINE rd == [NoRead EXCEPT !.pc = "header", !.pin = mined, !.todo = Keys]
  <2>1. DOMAIN rd = ReadFields /\ rd.pc = "header"
    BY Zenon DEF NoRead, ReadFields
  <2>2. reader' = [reader EXCEPT ![r] = rd]
    BY <1>14, Zenon DEF PinCall
  <2> HIDE DEF rd
  <2> QED
    BY <2>1, <2>2, <1>5, <1>14, Zenon DEF PinCall, KeyPhases
<1>15. ASSUME NEW k \in Keys, ResolvePinned(r, k) PROVE ReadsInv'
  <2> DEFINE rd == [reader[r] EXCEPT !.pc = "cache", !.key = k]
             rh == [reader[r] EXCEPT !.pc = "history", !.key = k]
  <2>1. \/ reader' = [reader EXCEPT ![r] = rd]
        \/ reader' = [reader EXCEPT ![r] = rh]
    BY <1>15, <1>2, Zenon DEF ResolvePinned
  <2>2. /\ DOMAIN rd = ReadFields /\ rd.pc = "cache" /\ rd.key = k
        /\ DOMAIN rh = ReadFields /\ rh.pc = "history" /\ rh.key = k
    BY <1>1, Zenon DEF ReadFields
  <2> HIDE DEF rd, rh
  <2> QED
    BY <2>1, <2>2, <1>5, <1>15, Zenon DEF ResolvePinned
<1>16. ASSUME NEW k \in Keys, ResolveLatest(r, k) PROVE ReadsInv'
  <2> DEFINE rd == [NoRead EXCEPT !.pc = "cache", !.key = k]
  <2>1. DOMAIN rd = ReadFields /\ rd.pc = "cache" /\ rd.key = k
    BY Zenon DEF NoRead, ReadFields
  <2>2. reader' = [reader EXCEPT ![r] = rd]
    BY <1>16, Zenon DEF ResolveLatest
  <2> HIDE DEF rd
  <2> QED
    BY <2>1, <2>2, <1>5, <1>16, Zenon DEF ResolveLatest
<1>17. ASSUME NEW k \in Keys, LoadRetainPending(r, k) PROVE ReadsInv'
  <2> DEFINE rd == [NoRead EXCEPT !.pc = "retain", !.key = k]
  <2>1. DOMAIN rd = ReadFields /\ rd.pc = "retain" /\ rd.key = k
    BY Zenon DEF NoRead, ReadFields
  <2>2. reader' = [reader EXCEPT ![r] = rd]
    BY <1>17, Zenon DEF LoadRetainPending
  <2> HIDE DEF rd
  <2> QED
    BY <2>1, <2>2, <1>5, <1>17, Zenon DEF LoadRetainPending
<1> QED
  BY <1>3, <1>4, <1>8, <1>9, <1>10, <1>11, <1>12, <1>13, <1>14, <1>15, <1>16, <1>17, Zenon DEF
     ReaderNext

\* The miner: the pending block becomes the last finished one when that is in RocksDB, the commit
\* writes it there, and the cache follows key by key.
LEMMA MinerKeeps ==
    ASSUME ReadsInv, MinerNext, UNCHANGED load PROVE ReadsInv'
<1>1. CASE FinishPendingBlock
  <2>1. Shapes'
    BY <1>1, Zenon DEF FinishPendingBlock, ReadsInv, Shapes, Empty, BlockFields
  <2>2. ASSUME load.drops = {} PROVE Layers'
    <3>1. Layers /\ miner.pc = "idle" /\ DOMAIN pendingState \subseteq Keys
      BY <1>1, <2>2, Zenon DEF FinishPendingBlock, ReadsInv, Shapes
    <3>2. \A k \in Keys : Under(k) = permLatest[k]
      BY <3>1, Zenon DEF Layers, Under
    <3>3. /\ latestState' = pendingState /\ DOMAIN pendingState' = {} /\ permLatest' = permLatest
          /\ truth' = truth /\ miner'.pc = "commit" /\ miner'.changes = pendingState
          /\ miner'.todo = DOMAIN pendingState
      BY <1>1, Zenon DEF FinishPendingBlock, Empty, permVars
    <3>4. \A k \in Keys : truth[k] = IF k \in DOMAIN pendingState THEN pendingState[k].value
                                     ELSE permLatest[k]
      BY <3>1, <3>2, Zenon DEF Layers
    <3>5. \A k \in DOMAIN pendingState \ Changes(pendingState) : pendingState[k].value = permLatest[k]
      BY <3>1, <3>2, Zenon DEF Layers
    <3> QED
      BY <3>3, <3>4, <3>5, Zenon DEF Layers, Under
  <2>3. ASSUME load.drops = {} PROVE Attempt'
    BY <1>1, <2>3, Zenon DEF FinishPendingBlock, ReadsInv, Attempt, Empty
  <2>4. ASSUME load.drops = {} PROVE Fills'
    BY <1>1, <2>4, Zenon DEF FinishPendingBlock, ReadsInv, Fills, Due, permVars
  <2> QED
    BY <2>1, <2>2, <2>3, <2>4, Zenon DEF ReadsInv
<1>2. CASE CommitPerm
  <2>1. Shapes'
    BY <1>2, Zenon DEF CommitPerm, ReadsInv, Shapes, BlockFields, tempVars
  <2>2. ASSUME load.drops = {}
        PROVE  \A k \in Keys : permLatest'[k] = IF k \in Changes(latestState) THEN latestState[k].value
                                                ELSE permLatest[k]
    BY <1>2, <2>2, Zenon DEF CommitPerm, ReadsInv, Layers
  <2>3. miner'.pc = "cache" /\ miner'.changes = miner.changes /\ miner'.todo = miner.todo
    BY <1>2, Zenon DEF CommitPerm, ReadsInv, Shapes, BlockFields
  <2>4. ASSUME load.drops = {} PROVE Layers'
    <3>1. /\ Layers /\ miner.pc = "commit" /\ DOMAIN pendingState \subseteq Keys
          /\ DOMAIN latestState \subseteq Keys
          /\ pendingState' = pendingState /\ latestState' = latestState /\ truth' = truth
      BY <1>2, <2>4, Zenon DEF CommitPerm, ReadsInv, Shapes, tempVars, ghostVars
    <3>2. \A k \in Keys : Under(k)' = Under(k)
      BY <2>2, <2>4, <3>1, Zenon DEF Under, Changes
    <3>3. \A k \in DOMAIN latestState : latestState[k].value = permLatest'[k]
      BY <2>2, <2>4, <3>1, Zenon DEF Layers
    <3> QED
      BY <2>3, <3>1, <3>2, <3>3 DEF Layers, Changes
  <2>5. ASSUME load.drops = {} PROVE Attempt'
    BY <1>2, <2>5, Zenon DEF CommitPerm, ReadsInv, Attempt, tempVars, ghostVars
  <2>6. ASSUME load.drops = {} PROVE Fills'
    <3>1. Due' = DOMAIN latestState
      BY <1>2, <2>3, <2>6, Zenon DEF Due, ReadsInv, Layers, CommitPerm
    <3>2. \A k \in Keys : permLatest'[k] = permLatest[k] \/ k \in Due'
      BY <2>2, <2>6, <3>1, Zenon DEF Changes
    <3>3. Fills /\ Due = {} /\ cache' = cache /\ reader' = reader /\ DOMAIN cache \subseteq Keys
      BY <1>2, <2>6, Zenon DEF ReadsInv, Shapes, Due, CommitPerm
    <3>4. \A r \in Readers : reader[r].pc = "fill" => reader[r].key \in Keys
      BY Zenon DEF ReadsInv, Shapes, KeyPhases
    <3> QED
      BY <3>2, <3>3, <3>4, Zenon DEF Fills
  <2> QED
    BY <2>1, <2>4, <2>5, <2>6, Zenon DEF ReadsInv
<1>3. CASE PublishMined
  <2>1. Shapes'
    BY <1>3, Zenon DEF PublishMined, ReadsInv, Shapes, BlockFields, NoBlock, tempVars
  <2>2. ASSUME load.drops = {} PROVE Layers' /\ Attempt'
    BY <1>3, <2>2, Zenon DEF PublishMined, ReadsInv, Layers, Attempt, Under, Changes, NoBlock,
       tempVars,
                      permVars, ghostVars
  <2>3. ASSUME load.drops = {} PROVE Fills'
    <3>1. Due = {} /\ Due' = {}
      BY <1>3, Zenon DEF PublishMined, Due, NoBlock
    <3> QED
      BY <1>3, <2>3, <3>1, Zenon DEF PublishMined, ReadsInv, Fills, permVars
  <2> QED
    BY <2>1, <2>2, <2>3, Zenon DEF ReadsInv
<1>4. ASSUME NEW k \in Keys, CacheChange(k) PROVE ReadsInv'
  <2>1. Shapes'
    BY <1>4, Zenon DEF CacheChange, ReadsInv, Shapes, BlockFields, Put, tempVars
  <2>2. miner'.pc = "cache" /\ miner'.changes = miner.changes /\ miner'.todo = miner.todo \ {k}
    BY <1>4, Zenon DEF CacheChange, ReadsInv, Shapes, BlockFields
  <2>3. ASSUME load.drops = {} PROVE Layers' /\ Attempt'
    BY <1>4, <2>2, <2>3, Zenon DEF CacheChange, ReadsInv, Layers, Attempt, Under, Changes, tempVars,
                            permVars, ghostVars
  <2>4. ASSUME load.drops = {} PROVE Fills'
    <3>1. Due = miner.todo /\ Due' = miner.todo \ {k}
      BY <1>4, <2>2, Zenon DEF CacheChange, Due
    <3>2. miner.changes[k].value = permLatest[k]
      BY <1>4, <2>4, Zenon DEF CacheChange, ReadsInv, Layers
    <3>3. Fills /\ cache' = Put(cache, k, miner.changes[k].value) /\ reader' = reader
          /\ permLatest' = permLatest
      BY <1>4, <2>4, Zenon DEF CacheChange, ReadsInv, permVars
    <3> QED
      BY <3>1, <3>2, <3>3, Zenon DEF Fills, Put
  <2> QED
    BY <2>1, <2>3, <2>4, Zenon DEF ReadsInv
<1> QED
  BY <1>1, <1>2, <1>3, <1>4, Zenon DEF MinerNext

\* The worker has read, for a key, what the transactions before it left.
LEMMA LoadKeeps ==
    ASSUME ReadsInv, NEW k \in worker.todo, NEW v, worker.pc # "idle", worker' = Loaded(k, v),
           load.drops = {} => v = truth[k],
           UNCHANGED <<tempVars, permVars, cache, miner, reader, ghostVars, load>>
    PROVE  ReadsInv'
<1>1. /\ DOMAIN worker' = AttemptFields /\ worker'.pc = "read" /\ worker'.todo = worker.todo \ {k}
      /\ worker'.values = Put(worker.values, k, v) /\ worker'.writes = worker.writes
  BY Zenon DEF ReadsInv, Shapes, Loaded, AttemptFields
<1>2. Shapes'
  BY <1>1, Zenon DEF ReadsInv, Shapes, Put, tempVars
<1>3. ASSUME load.drops = {} PROVE Layers' /\ Fills'
  BY <1>3, Zenon DEF ReadsInv, Layers, Fills, Due, Under, Changes, tempVars, permVars, ghostVars
<1>4. ASSUME load.drops = {} PROVE Attempt'
  BY <1>1, <1>4 DEF ReadsInv, Attempt, Put, tempVars, ghostVars
<1> QED
  BY <1>2, <1>3, <1>4, Zenon DEF ReadsInv

\* Where the worker looks next changes nothing else.
LEMMA LookKeeps ==
    ASSUME ReadsInv, NEW a, worker' = a, DOMAIN a = AttemptFields,
           a.pc \in {"read", "cache", "perm"}, a.todo \subseteq Keys, DOMAIN a.values \subseteq Keys,
           a.pc \in {"cache", "perm"} =>
              a.key \in a.todo /\ a.key \notin DOMAIN pendingState \cup DOMAIN latestState,
           a.values = worker.values \/ a.values = Empty,
           a.writes \subseteq a.todo \cup DOMAIN a.values,
           UNCHANGED <<tempVars, permVars, cache, miner, reader, ghostVars, load>>
    PROVE  ReadsInv'
<1>1. Shapes'
  BY Zenon DEF ReadsInv, Shapes, tempVars
<1>2. ASSUME load.drops = {} PROVE Layers' /\ Fills'
  BY <1>2, Zenon DEF ReadsInv, Layers, Fills, Due, Under, Changes, tempVars, permVars, ghostVars
<1>3. ASSUME load.drops = {} PROVE Attempt'
  BY <1>3, Zenon DEF ReadsInv, Attempt, Empty, tempVars, ghostVars
<1> QED
  BY <1>1, <1>2, <1>3, Zenon DEF ReadsInv

\* A save puts the transaction's originals and changes over the pending block.
LEMMA SaveKeeps ==
    ASSUME ReadsInv, WorkerSave, UNCHANGED load PROVE ReadsInv'
<1>1. DOMAIN NoAttempt = AttemptFields /\ NoAttempt.pc = "idle" /\ NoAttempt.todo = {}
      /\ DOMAIN NoAttempt.values = {}
  BY Zenon DEF NoAttempt, AttemptFields, Empty
<1>2. CASE worker.number # pendingNumber
  <2>1. /\ worker' = NoAttempt
        /\ UNCHANGED <<tempVars, permVars, cache, miner, reader, ghostVars, load>>
    BY <1>2, Zenon DEF WorkerSave, tempVars
  <2>2. Shapes'
    BY <1>1, <2>1, Zenon DEF ReadsInv, Shapes, tempVars
  <2>3. ASSUME load.drops = {} PROVE Layers' /\ Fills'
    BY <2>1, <2>3, Zenon DEF ReadsInv, Layers, Fills, Due, Under, Changes, tempVars, permVars,
       ghostVars
  <2>4. ASSUME load.drops = {} PROVE Attempt'
    BY <1>1, <2>1, <2>4, Zenon DEF ReadsInv, Attempt, ghostVars
  <2> QED
    BY <2>1, <2>2, <2>3, <2>4, Zenon DEF ReadsInv
<1>3. CASE worker.number = pendingNumber
  <2>1. /\ worker' = NoAttempt /\ pendingState' = Merge(pendingState, Output)
        /\ worker.pc = "read" /\ worker.todo = {}
        /\ RecordSave
        /\ UNCHANGED <<latestState, permLatest, cache, miner, reader, load>>
    BY <1>3, Zenon DEF WorkerSave, permVars, AttemptDone
  <2>2. /\ DOMAIN Output = DOMAIN worker.values
        /\ DOMAIN pendingState' = DOMAIN pendingState \cup DOMAIN worker.values
    BY <2>1, Zenon DEF Output, Merge
  <2>3. \A k \in DOMAIN worker.values :
           /\ Output[k].value = IF k \in worker.writes THEN txs + 1 ELSE worker.values[k]
           /\ Output[k].changed <=> k \in worker.writes
    BY Zenon DEF Output
  <2>4. \A k \in DOMAIN pendingState' :
           pendingState'[k] = IF k \in DOMAIN worker.values
                                   /\ (k \in worker.writes \/ k \notin DOMAIN pendingState)
                              THEN Output[k] ELSE pendingState[k]
    BY <2>1, <2>2, <2>3, Zenon DEF Merge
  <2>5. Shapes'
    BY <1>1, <2>1, <2>2, Zenon DEF ReadsInv, Shapes
  <2>6. ASSUME load.drops = {} PROVE Layers' /\ Attempt' /\ Fills'
    <3>1. Layers /\ Attempt /\ Fills
      BY <2>6, Zenon DEF ReadsInv
    <3>2. worker.writes \subseteq DOMAIN worker.values /\ DOMAIN worker.values \subseteq Keys
      BY <2>1, <3>1, Zenon DEF Attempt, ReadsInv, Shapes
    <3>3. \A k \in Keys : truth'[k] = IF k \in worker.writes THEN txs + 1 ELSE truth[k]
      BY <2>1, Zenon DEF RecordSave
    <3>4. \A k \in Keys : Under(k)' = Under(k)
      BY <2>1, Zenon DEF Under
    <3>5. \A k \in Keys : truth'[k] = IF k \in DOMAIN pendingState' THEN pendingState'[k].value
                                      ELSE Under(k)
      <4> TAKE k \in Keys
      <4>1. CASE k \in worker.writes
        BY <4>1, <2>2, <2>3, <2>4, <3>2, <3>3, Zenon
      <4>2. CASE k \notin worker.writes /\ k \in DOMAIN pendingState
        BY <4>2, <2>2, <2>4, <3>1, <3>3, Zenon DEF Layers
      <4>3. CASE k \notin worker.writes /\ k \notin DOMAIN pendingState /\ k \in DOMAIN worker.values
        BY <4>3, <2>2, <2>3, <2>4, <3>1, <3>3 DEF Attempt
      <4>4. CASE k \notin DOMAIN pendingState /\ k \notin DOMAIN worker.values
        BY <4>4, <2>2, <3>1, <3>2, <3>3, Zenon DEF Layers
      <4> QED
        BY <4>1, <4>2, <4>3, <4>4, Zenon
    <3>6. ASSUME NEW k \in DOMAIN pendingState', ~pendingState'[k].changed
          PROVE  pendingState'[k].value = Under(k)
      <4>1. CASE k \in DOMAIN pendingState /\ k \notin worker.writes
        BY <4>1, <3>6, <2>4, <3>1, Zenon DEF Layers, Changes
      <4>2. CASE k \in worker.writes
        BY <4>2, <3>6, <2>3, <2>4, <3>2, Zenon
      <4>3. CASE k \notin DOMAIN pendingState /\ k \notin worker.writes
        <5>1. k \in DOMAIN worker.values /\ k \in Keys /\ pendingState'[k].value = worker.values[k]
          BY <4>3, <2>2, <2>3, <2>4, <3>2, Zenon
        <5> QED
          BY <5>1, <4>3, <3>1, Zenon DEF Layers, Attempt
      <4> QED
        BY <4>1, <4>2, <4>3, Zenon
    <3>7. DOMAIN pendingState' \subseteq Keys
      BY <2>5, Zenon DEF Shapes
    <3>8. Layers'
      <4>1. \A k \in Keys : truth'[k] = IF k \in DOMAIN pendingState' THEN pendingState'[k].value
                                        ELSE Under(k)'
        BY <3>4, <3>5, Zenon
      <4>2. \A k \in DOMAIN pendingState' \ Changes(pendingState)' : pendingState'[k].value = Under(k)'
        BY <3>4, <3>6, <3>7, Zenon DEF Changes
      <4>3. Changes(latestState)' = Changes(latestState)
        BY <2>1, Zenon DEF Changes
      <4> QED
        BY <4>1, <4>2, <4>3, <2>1, <3>1, Zenon DEF Layers
    <3>9. Attempt'
      BY <1>1, <2>1, <3>1, Zenon DEF Attempt, RecordSave
    <3>10. Fills'
      BY <2>1, <3>1, Zenon DEF Fills, Due
    <3> QED
      BY <3>8, <3>9, <3>10, Zenon
  <2> QED
    BY <2>1, <2>5, <2>6, Zenon DEF ReadsInv
<1> QED
  BY <1>2, <1>3, Zenon

\* Every step of an attempt: the temporary storage answers what it holds, and a key it does not
\* hold is, in the cache and in RocksDB, as the transactions before left it.
LEMMA WorkerKeeps ==
    ASSUME ReadsInv, WorkerNext, UNCHANGED load PROVE ReadsInv'
<1>1. CASE BeginAttempt
  <2>1. PICK rs \in SUBSET Keys : \E ws \in SUBSET rs :
          worker' = [NoAttempt EXCEPT !.pc = "read", !.number = pendingNumber, !.todo = rs,
                                      !.writes = ws]
    BY <1>1, Zenon DEF BeginAttempt
  <2>2. /\ DOMAIN worker' = AttemptFields /\ worker'.pc = "read" /\ worker'.todo = rs
        /\ worker'.writes \subseteq rs /\ worker'.values = Empty
    BY <2>1, Zenon DEF NoAttempt, AttemptFields
  <2>3. DOMAIN Empty \subseteq Keys
    BY Zenon DEF Empty
  <2> QED
    BY <1>1, <2>2, <2>3, LookKeeps, Zenon DEF BeginAttempt
<1>2. ASSUME NEW k \in Keys, WorkerReadTemp(k) PROVE ReadsInv'
  <2>1. worker.pc = "read" /\ k \in worker.todo
        /\ UNCHANGED <<tempVars, permVars, cache, miner, reader, ghostVars, load>>
    BY <1>2, Zenon DEF WorkerReadTemp
  <2>2. CASE k \in DOMAIN pendingState
    <3>1. worker' = Loaded(k, pendingState[k].value)
      BY <1>2, <2>2, Zenon DEF WorkerReadTemp
    <3>2. load.drops = {} => pendingState[k].value = truth[k]
      BY <2>2, Zenon DEF ReadsInv, Layers
    <3> QED
      BY <2>1, <3>1, <3>2, LoadKeeps, Zenon
  <2>3. CASE k \in DOMAIN latestState \ DOMAIN pendingState
    <3>1. worker' = Loaded(k, latestState[k].value)
      BY <1>2, <2>3, Zenon DEF WorkerReadTemp
    <3>2. load.drops = {} => latestState[k].value = truth[k]
      BY <2>3, Zenon DEF ReadsInv, Layers, Under
    <3> QED
      BY <2>1, <3>1, <3>2, LoadKeeps, Zenon
  <2>4. CASE k \notin DOMAIN pendingState \cup DOMAIN latestState
    <3> DEFINE a == [worker EXCEPT !.pc = "cache", !.key = k]
    <3>1. worker' = a
      BY <1>2, <2>4, Zenon DEF WorkerReadTemp
    <3>2. /\ DOMAIN a = AttemptFields /\ a.pc = "cache" /\ a.key = k /\ a.todo = worker.todo
          /\ a.values = worker.values /\ a.writes = worker.writes
      BY Zenon DEF ReadsInv, Shapes, AttemptFields
    <3>3. worker.todo \subseteq Keys /\ DOMAIN worker.values \subseteq Keys
      BY Zenon DEF ReadsInv, Shapes
    <3>4. worker.writes \subseteq worker.todo \cup DOMAIN worker.values
      BY <2>1, Zenon DEF ReadsInv, Shapes
    <3> HIDE DEF a
    <3> QED
      BY <2>1, <2>4, <3>1, <3>2, <3>3, <3>4, LookKeeps, Zenon
  <2> QED
    BY <2>2, <2>3, <2>4, Zenon
<1>3. ASSUME worker.pc \in {"cache", "perm"}
      PROVE  /\ worker.key \in worker.todo /\ worker.key \in Keys
             /\ load.drops = {} => permLatest[worker.key] = truth[worker.key]
             /\ worker.key \notin DOMAIN pendingState \cup DOMAIN latestState
  BY <1>3, Zenon DEF ReadsInv, Shapes, Layers, Attempt, Under
<1>4. CASE WorkerReadCache
  <2>1. CASE worker.key \in DOMAIN cache
    <3>1. worker' = Loaded(worker.key, cache[worker.key])
      BY <1>4, <2>1, Zenon DEF WorkerReadCache
    <3>2. ASSUME load.drops = {} PROVE cache[worker.key] = truth[worker.key]
      <4>1. worker.key \notin Due
        BY <1>3, <1>4, <3>2, Zenon DEF WorkerReadCache, Due, ReadsInv, Layers
      <4> QED
        BY <1>3, <1>4, <2>1, <3>2, <4>1, Zenon DEF WorkerReadCache, ReadsInv, Fills
    <3> QED
      BY <1>3, <1>4, <3>1, <3>2, LoadKeeps, Zenon DEF WorkerReadCache
  <2>2. CASE worker.key \notin DOMAIN cache
    <3> DEFINE a == [worker EXCEPT !.pc = "perm"]
    <3>1. worker' = a
      BY <1>4, <2>2, Zenon DEF WorkerReadCache
    <3>2. /\ DOMAIN a = AttemptFields /\ a.pc = "perm" /\ a.key = worker.key /\ a.todo = worker.todo
          /\ a.values = worker.values /\ a.writes = worker.writes
      BY Zenon DEF ReadsInv, Shapes, AttemptFields
    <3>3. /\ worker.todo \subseteq Keys /\ DOMAIN worker.values \subseteq Keys
          /\ worker.writes \subseteq worker.todo \cup DOMAIN worker.values
      BY <1>4, Zenon DEF ReadsInv, Shapes, WorkerReadCache
    <3> HIDE DEF a
    <3> QED
      BY <1>3, <1>4, <3>1, <3>2, <3>3, LookKeeps, Zenon DEF WorkerReadCache
  <2> QED
    BY <2>1, <2>2, Zenon
<1>5. CASE WorkerReadPerm
  BY <1>3, <1>5, LoadKeeps, Zenon DEF WorkerReadPerm
<1> QED
  BY <1>1, <1>2, <1>4, <1>5, SaveKeeps, Zenon DEF WorkerNext

\* Losing entries is outside what is claimed of the cache; the shapes survive it.
LEMMA DropKeeps ==
    ASSUME ReadsInv, (\E k \in Keys : Evict(k)) \/ ClearCache, UNCHANGED load PROVE ReadsInv'
<1>1. load.drops # {}
  BY Zenon DEF Evict, ClearCache
<1>2. Shapes'
  BY Zenon DEF ReadsInv, Shapes, Evict, ClearCache, Empty, tempVars
<1> QED
  BY <1>1, <1>2, Zenon DEF ReadsInv

\* The invariant of the storage's layers, its cache and the attempt that reads through them.
THEOREM ReadsInductive == Spec => []ReadsInv
<1>1. ASSUME ReadsInv, [Next]_vars PROVE ReadsInv'
  <2>1. CASE UNCHANGED vars
    BY <1>1, <2>1, Zenon DEF vars, tempVars, permVars, ghostVars, ReadsInv, Shapes, Layers,
       Attempt, Fills,
                      Under, Changes, Due
  <2>2. CASE Next
    <3>1. load.readers \subseteq Readers
      BY <1>1, ReadsAssumption, Zenon DEF ReadsInv, Shapes, Readers
    <3> QED
      BY <1>1, <2>2, <3>1, WorkerKeeps, MinerKeeps, ReaderKeeps, DropKeeps, Zenon DEF Next
  <2> QED
    BY <1>1, <2>1, <2>2, Zenon
<1> QED
  BY <1>1, Start, PTL DEF Spec

\* While the cache keeps its entries, a transaction saved in the pending block was executed on the
\* values the transactions saved before it left (StratusStorage::read at Pending against save_block
\* and the fills of the other readers).
THEOREM Current == Spec => []TxReadsCurrent
<1>1. ReadsInv => TxReadsCurrent
  BY Zenon DEF ReadsInv, Attempt, TxReadsCurrent
<1> QED
  BY <1>1, ReadsInductive, PTL

\* While the cache keeps its entries, it agrees with RocksDB whenever no commit holds the write lock:
\* no late fill leaves an older value behind.
THEOREM Coherent == Spec => []CacheCoherent
<1>1. ReadsInv => CacheCoherent
  BY Zenon DEF ReadsInv, Fills, Due, CacheCoherent, WriteLocked
<1> QED
  BY <1>1, ReadsInductive, PTL

\* What survives a cache that loses entries: a change of the pending block, or of the last finished
\* one when no later change covers it, is the last value saved, also where a transaction read it
\* since; a value the worker read may be old only for a key neither block changed.
Recent ==
    /\ \A k \in Changes(pendingState) : pendingState[k].value = truth[k]
    /\ \A k \in Changes(latestState) \ Changes(pendingState) :
         /\ latestState[k].value = truth[k]
         /\ k \in DOMAIN pendingState => pendingState[k].value = truth[k]
    /\ \A k \in DOMAIN worker.values \cap (Changes(pendingState) \cup Changes(latestState)) :
         worker.values[k] = truth[k]
    /\ TxReadsRecent

\* A value read keeps Recent when it can be old only for a key neither block changed.
LEMMA RecentLoad ==
    ASSUME Shapes, Recent, NEW k, NEW v, worker' = Loaded(k, v),
           k \in Changes(pendingState) \cup Changes(latestState) => v = truth[k],
           UNCHANGED <<tempVars, ghostVars>>
    PROVE  Recent'
<1>1. worker'.values = Put(worker.values, k, v)
  BY Zenon DEF Shapes, Loaded, AttemptFields
<1> QED
  BY <1>1 DEF Recent, Put, Changes, TxReadsRecent, tempVars, ghostVars

\* A save: the values it changes are the last ones, and an original it adds over a change of the
\* last finished block was read there.
LEMMA RecentSave == ASSUME Shapes, Recent, WorkerSave PROVE Recent'
<1>1. DOMAIN NoAttempt.values = {}
  BY Zenon DEF NoAttempt, Empty
<1>2. CASE worker.number # pendingNumber
  <2>1. worker' = NoAttempt /\ UNCHANGED <<pendingState, latestState, ghostVars>>
    BY <1>2, Zenon DEF WorkerSave
  <2> QED
    BY <1>1, <2>1, Zenon DEF Recent, Changes, TxReadsRecent, ghostVars
<1>3. CASE worker.number = pendingNumber
  <2>1. /\ worker' = NoAttempt /\ pendingState' = Merge(pendingState, Output)
        /\ RecordSave /\ latestState' = latestState /\ worker.todo = {} /\ worker.pc = "read"
    BY <1>3, Zenon DEF WorkerSave, AttemptDone
  <2>2. /\ DOMAIN Output = DOMAIN worker.values
        /\ DOMAIN pendingState' = DOMAIN pendingState \cup DOMAIN worker.values
        /\ worker.writes \subseteq DOMAIN worker.values /\ DOMAIN worker.values \subseteq Keys
    BY <2>1, Zenon DEF Output, Merge, Shapes
  <2>3. \A k \in DOMAIN worker.values :
           /\ Output[k].value = IF k \in worker.writes THEN txs + 1 ELSE worker.values[k]
           /\ Output[k].changed <=> k \in worker.writes
    BY Zenon DEF Output
  <2>4. \A k \in DOMAIN pendingState' :
           pendingState'[k] = IF k \in DOMAIN worker.values
                                   /\ (k \in worker.writes \/ k \notin DOMAIN pendingState)
                              THEN Output[k] ELSE pendingState[k]
    BY <2>1, <2>2, <2>3, Zenon DEF Merge
  <2>5. \A k \in Keys : truth'[k] = IF k \in worker.writes THEN txs + 1 ELSE truth[k]
    BY <2>1, Zenon DEF RecordSave
  <2>6. Changes(pendingState)' = Changes(pendingState) \cup worker.writes
    BY <2>2, <2>3, <2>4, Zenon DEF Changes
  <2>7. Changes(latestState)' = Changes(latestState) /\ Changes(latestState) \subseteq Keys
        /\ Changes(pendingState) \subseteq DOMAIN pendingState /\ DOMAIN pendingState \subseteq Keys
    BY <2>1, Zenon DEF Changes, Shapes
  <2>8. ASSUME NEW k \in Changes(pendingState)' PROVE pendingState'[k].value = truth'[k]
    <3>1. CASE k \in worker.writes
      BY <3>1, <2>2, <2>3, <2>4, <2>5
    <3>2. CASE k \notin worker.writes
      BY <3>2, <2>2, <2>4, <2>5, <2>6, <2>7, Zenon DEF Recent
    <3> QED
      BY <3>1, <3>2, Zenon
  <2>9. ASSUME NEW k \in Changes(latestState), k \notin Changes(pendingState)'
        PROVE  /\ latestState[k].value = truth'[k]
               /\ k \in DOMAIN pendingState' => pendingState'[k].value = truth'[k]
    <3>1. k \notin worker.writes /\ k \notin Changes(pendingState) /\ k \in Keys
      BY <2>9, <2>6, <2>7, Zenon
    <3>2. truth'[k] = truth[k] /\ latestState[k].value = truth[k]
      BY <3>1, <2>5, Zenon DEF Recent
    <3>3. CASE k \in DOMAIN pendingState
      BY <3>1, <3>2, <3>3, <2>2, <2>4, Zenon DEF Recent
    <3>4. CASE k \notin DOMAIN pendingState /\ k \in DOMAIN worker.values
      BY <3>1, <3>2, <3>4, <2>2, <2>3, <2>4, Zenon DEF Recent
    <3> QED
      BY <3>2, <3>3, <3>4, <2>2, Zenon
  <2>10. TxReadsRecent'
    <3>1. ASSUME NEW e \in stale' PROVE ~e[2]
      <4>1. CASE e \in stale
        BY <4>1, Zenon DEF Recent, TxReadsRecent
      <4>2. CASE e \notin stale
        <5>1. PICK k \in DOMAIN worker.values :
                /\ worker.values[k] # truth[k]
                /\ e = <<k, k \in Changes(pendingState) \cup Changes(latestState)>>
          BY <2>1, <4>2, Zenon DEF RecordSave
        <5>2. k \notin Changes(pendingState) \cup Changes(latestState)
          BY <5>1, Zenon DEF Recent
        <5> QED
          BY <5>1, <5>2, Zenon
      <4> QED
        BY <4>1, <4>2, Zenon
    <3> QED
      BY <3>1, Zenon DEF TxReadsRecent
  <2> QED
    BY <1>1, <2>1, <2>7, <2>8, <2>9, <2>10, Zenon DEF Recent
<1> QED
  BY <1>2, <1>3, Zenon

\* A key that the pending block or the last finished one changed is always read at its last value by
\* the transactions after, whatever the cache holds, misses or loses: those reads never reach it.
THEOREM RecentReads == Spec => []TxReadsRecent
<1>1. Init => Recent
  BY Zenon DEF Init, Recent, Changes, Empty, NoAttempt, TxReadsRecent
<1>2. ASSUME Shapes, Recent, [Next]_vars PROVE Recent'
  <2>1. CASE UNCHANGED <<tempVars, worker, ghostVars>>
    BY <1>2, <2>1, Zenon DEF Recent, Changes, TxReadsRecent, tempVars, ghostVars
  <2>2. CASE WorkerNext
    <3>1. CASE BeginAttempt
      <4>1. DOMAIN worker'.values = {} /\ UNCHANGED <<tempVars, ghostVars>>
        BY <3>1 DEF BeginAttempt, NoAttempt, Empty
      <4> QED
        BY <1>2, <4>1, Zenon DEF Recent, Changes, TxReadsRecent, tempVars, ghostVars
    <3>2. ASSUME NEW k \in Keys, WorkerReadTemp(k) PROVE Recent'
      <4>1. UNCHANGED <<tempVars, ghostVars>>
        BY <3>2, Zenon DEF WorkerReadTemp
      <4>2. CASE k \in DOMAIN pendingState
        <5>1. worker' = Loaded(k, pendingState[k].value)
          BY <3>2, <4>2, Zenon DEF WorkerReadTemp
        <5> QED
          BY <1>2, <4>1, <4>2, <5>1, RecentLoad, Zenon DEF Recent
      <4>3. CASE k \in DOMAIN latestState \ DOMAIN pendingState
        <5>1. worker' = Loaded(k, latestState[k].value)
          BY <3>2, <4>3, Zenon DEF WorkerReadTemp
        <5>2. k \notin Changes(pendingState)
          BY <4>3, Zenon DEF Changes
        <5> QED
          BY <1>2, <4>1, <5>1, <5>2, RecentLoad, Zenon DEF Recent
      <4>4. CASE k \notin DOMAIN pendingState \cup DOMAIN latestState
        <5>1. worker'.values = worker.values
          BY <1>2, <3>2, <4>4, Zenon DEF WorkerReadTemp, Shapes, AttemptFields
        <5> QED
          BY <1>2, <4>1, <5>1, Zenon DEF Recent, Changes, TxReadsRecent, tempVars, ghostVars
      <4> QED
        BY <4>2, <4>3, <4>4, Zenon
    <3>3. ASSUME worker.pc \in {"cache", "perm"}
          PROVE  worker.key \notin Changes(pendingState) \cup Changes(latestState)
      BY <1>2, <3>3, Zenon DEF Shapes, Changes
    <3>4. CASE WorkerReadCache
      <4>1. CASE worker.key \in DOMAIN cache
        <5>1. worker' = Loaded(worker.key, cache[worker.key])
          BY <3>4, <4>1, Zenon DEF WorkerReadCache
        <5> QED
          BY <1>2, <3>3, <3>4, <5>1, RecentLoad, Zenon DEF WorkerReadCache
      <4>2. CASE worker.key \notin DOMAIN cache
        <5>1. worker'.values = worker.values /\ UNCHANGED <<tempVars, ghostVars>>
          BY <1>2, <3>4, <4>2, Zenon DEF WorkerReadCache, Shapes, AttemptFields
        <5> QED
          BY <1>2, <5>1 DEF Recent, Changes, TxReadsRecent, tempVars, ghostVars
      <4> QED
        BY <4>1, <4>2, Zenon
    <3>5. CASE WorkerReadPerm
      BY <1>2, <3>3, <3>5, RecentLoad, Zenon DEF WorkerReadPerm
    <3> QED
      BY <1>2, <2>2, <3>1, <3>2, <3>4, <3>5, RecentSave, Zenon DEF WorkerNext
  <2>3. CASE FinishPendingBlock
    <3>1. /\ latestState' = pendingState /\ Changes(pendingState)' = {} /\ DOMAIN pendingState' = {}
          /\ Changes(latestState)' = Changes(pendingState)
          /\ UNCHANGED <<worker, truth, stale>>
      BY <2>3, Zenon DEF FinishPendingBlock, Changes, Empty
    <3> QED
      BY <1>2, <3>1, Zenon DEF Recent, TxReadsRecent
  <2>4. CASE CommitPerm \/ PublishMined \/ \E k \in Keys : CacheChange(k)
    BY <2>1, <2>4, Zenon DEF CommitPerm, PublishMined, CacheChange
  <2>5. ASSUME NEW r, ReaderNext(r) PROVE UNCHANGED <<tempVars, worker, ghostVars>>
    BY <2>5, Zenon DEF ReaderNext, ReadHeader, ReadHistory, ReadCache, ReadPerm, FillCache, EndCall,
                LoadRetainLatest, LoadRetainCache, PinCall, ResolvePinned, ResolveLatest,
                LoadRetainPending
  <2>6. CASE (\E k \in Keys : Evict(k)) \/ ClearCache
    BY <2>1, <2>6, Zenon DEF Evict, ClearCache
  <2> QED
    BY <1>2, <2>1, <2>2, <2>3, <2>4, <2>5, <2>6, Zenon DEF Next, MinerNext, vars
<1>3. ReadsInv => Shapes
  BY Zenon DEF ReadsInv
<1>4. Recent => TxReadsRecent
  BY Zenon DEF Recent
<1> QED
  BY <1>1, <1>2, <1>3, <1>4, ReadsInductive, PTL DEF Spec

-----------------------------------------------------------------------------
(***************************************************************************)
(* What a pinned call reads.                                               *)
(***************************************************************************)
\* The mined number follows the BlockInfo, which follows the finished blocks.
Numbers ==
    /\ pendingNumber \in Nat \ {0} /\ info \in Nat /\ mined \in Nat
    /\ miner.pc # "idle" => miner.number = pendingNumber - 1
    /\ info = IF miner.pc = "commit" THEN pendingNumber - 2 ELSE pendingNumber - 1
    /\ mined = IF miner.pc = "idle" THEN pendingNumber - 1 ELSE pendingNumber - 2
    /\ DOMAIN snapshot = 0..(pendingNumber - 1)

\* RocksDB's latest state is that at the end of the block of the BlockInfo; a block on its way
\* there is the difference to its own end.
Settled ==
    /\ \A k \in Keys : permLatest[k] = snapshot[info][k]
    /\ miner.pc = "commit" => \A k \in Keys : Under(k) = snapshot[pendingNumber - 1][k]

\* The entry of k's history that says what k was at the end of block n.
Says(e, k, n) ==
    /\ e[1] <= n /\ e[2] = snapshot[n][k]
    /\ \A f \in permHistory[k] : f[1] <= n => f[1] <= e[1]

Histories ==
    \A k \in Keys :
        /\ \A e \in permHistory[k] : e[1] \in 0..info
        /\ \A e, f \in permHistory[k] : e[1] = f[1] => e[2] = f[2]
        /\ \A n \in 0..info : \E e \in permHistory[k] : Says(e, k, n)

\* A call that reads the latest state holds the lock and pinned the block of the BlockInfo, and what
\* it has read so far is what was at the end of the block it pinned.
Call(r) ==
    reader[r].pc # "idle" =>
        /\ reader[r].pc \in {"header", "read", "history", "cache", "perm", "fill"}
        /\ reader[r].pin \in 0..mined
        /\ reader[r].pc # "header" => reader[r].header = reader[r].pin
        /\ reader[r].pc \in {"cache", "perm"} => r \in guards /\ reader[r].pin = info
        /\ reader[r].pc = "fill" => reader[r].value = snapshot[reader[r].pin][reader[r].key]
        /\ \A k \in DOMAIN reader[r].values : reader[r].values[k] = snapshot[reader[r].pin][k]

\* Only calls hold the lock, and no commit writes meanwhile.
Calls ==
    /\ guards \subseteq Pinned
    /\ guards # {} => miner.pc # "cache"
    /\ \A r \in Readers : reader[r].pc \in {"header", "read", "history"} => r \in Pinned
    /\ \A r \in Pinned : Call(r)

PinInv == load.drops = {} => Numbers /\ Settled /\ Histories /\ Calls

\* A history that says what a key was at the end of a block answers just that.
LEMMA HistoryAnswers ==
    ASSUME Numbers, Histories, NEW k \in Keys, NEW n \in 0..info PROVE HistoryAt(k, n) = snapshot[n][k]
<1> DEFINE before == {e \in permHistory[k] : e[1] <= n}
           last == CHOOSE e \in before : \A f \in before : f[1] <= e[1]
<1>1. PICK e \in permHistory[k] : Says(e, k, n)
  BY Zenon DEF Histories
<1>2. e \in before /\ \A f \in before : f[1] <= e[1]
  BY <1>1, Zenon DEF Says
<1>3. last \in before /\ \A f \in before : f[1] <= last[1]
  BY <1>2, Zenon
<1> HIDE DEF last
<1>4. last[1] \in Nat /\ e[1] \in Nat
  BY <1>3 DEF Histories, Numbers
<1>5. last[1] = e[1]
  BY <1>2, <1>3, <1>4
<1>6. last[2] = e[2]
  BY <1>3, <1>5, Zenon DEF Histories
<1> QED
  BY <1>1, <1>6, Zenon DEF HistoryAt, Says, last

\* Before the first block, every state there is is the empty one.
LEMMA PinStart == Init => PinInv
<1> SUFFICES ASSUME Init PROVE Numbers /\ Settled /\ Histories /\ Calls
  BY Zenon DEF PinInv
<1>1. Numbers
  BY DEF Init, Numbers, NoBlock
<1>2. Settled
  BY Zenon DEF Init, Settled, NoBlock
<1>3. Histories
  <2>1. info = 0 /\ \A k \in Keys : permHistory[k] = {<<0, 0>>} /\ snapshot[0][k] = 0
    BY Zenon DEF Init
  <2>2. ASSUME NEW k \in Keys, NEW n \in 0..0 PROVE Says(<<0, 0>>, k, n)
    BY <2>1, <2>2 DEF Says
  <2> QED
    BY <2>1, <2>2 DEF Histories
<1>4. Calls
  BY Zenon DEF Init, Calls, Call, NoRead, NoBlock, Readers
<1> QED
  BY <1>1, <1>2, <1>3, <1>4, Zenon

\* The worker's steps, and those of a reader outside Calls, leave all of it alone.
LEMMA PinFrame ==
    ASSUME Numbers, Settled, Histories,
           UNCHANGED <<pendingNumber, latestState, permVars, info, mined, miner, snapshot>>
    PROVE  Numbers' /\ Settled' /\ Histories'
<1>1. Numbers'
  BY Zenon DEF Numbers
<1>2. Settled'
  BY Zenon DEF Settled, Under, permVars
<1>3. Histories'
  BY Zenon DEF Histories, Says, permVars
<1> QED
  BY <1>1, <1>2, <1>3, Zenon

\* Finishing a block only adds the state at its end.
LEMMA PinFinish ==
    ASSUME ReadsInv, load.drops = {}, Numbers, Settled, Histories, Calls, FinishPendingBlock
    PROVE  Numbers' /\ Settled' /\ Histories' /\ Calls'
<1>1. /\ miner.pc = "idle" /\ miner'.pc = "commit" /\ miner'.number = pendingNumber
      /\ pendingNumber' = pendingNumber + 1 /\ latestState' = pendingState
      /\ snapshot' = [n \in DOMAIN snapshot \cup {pendingNumber} |->
                        IF n = pendingNumber THEN truth ELSE snapshot[n]]
      /\ UNCHANGED <<permLatest, permHistory, info, mined, guards, reader>>
  BY Zenon DEF FinishPendingBlock, permVars, lockVars
<1>2. Numbers'
  BY <1>1 DEF Numbers
<1>3. snapshot'[pendingNumber] = truth /\ \A n \in 0..info : snapshot'[n] = snapshot[n]
  BY <1>1 DEF Numbers
<1>4. Settled'
  <2>1. \A k \in Keys : permLatest[k] = snapshot'[info][k]
    BY <1>3 DEF Settled, Numbers
  <2>2. \A k \in Keys : Under(k)' = truth[k]
    BY <1>1, Zenon DEF ReadsInv, Layers, Under
  <2>3. pendingNumber' - 1 = pendingNumber
    BY <1>1 DEF Numbers
  <2> QED
    BY <1>1, <1>3, <2>1, <2>2, <2>3, Zenon DEF Settled
<1>5. Histories'
  <2>1. ASSUME NEW k \in Keys, NEW n \in 0..info, NEW e, Says(e, k, n) PROVE Says(e, k, n)'
    BY <1>1, <1>3, <2>1, Zenon DEF Says
  <2> QED
    BY <1>1, <2>1, Zenon DEF Histories
<1>6. Calls'
  <2>1. mined = info
    BY <1>1, Zenon DEF Numbers
  <2>2. \A r \in Pinned : reader[r].pc # "idle" => snapshot'[reader[r].pin] = snapshot[reader[r].pin]
    BY <1>3, <2>1, Zenon DEF Calls, Call
  <2>3. ASSUME NEW r \in Pinned PROVE Call(r)'
    <3>1. Call(r) /\ reader'[r] = reader[r] /\ UNCHANGED <<guards, info, mined>>
      BY <1>1, Zenon DEF Calls
    <3> QED
      BY <2>2, <3>1, Zenon DEF Call
  <2> QED
    BY <1>1, <2>3, Zenon DEF Calls
<1> QED
  BY <1>2, <1>4, <1>5, <1>6, Zenon

\* The commit's batch is the difference between the ends of two blocks, and its history entries say
\* what the changed keys are from that block on.
LEMMA PinCommit ==
    ASSUME ReadsInv, load.drops = {}, Numbers, Settled, Histories, Calls, CommitPerm
    PROVE  Numbers' /\ Settled' /\ Histories' /\ Calls'
<1>1. /\ miner.pc = "commit" /\ guards = {} /\ info' = miner.number /\ miner'.pc = "cache"
      /\ miner'.number = miner.number /\ miner.changes = latestState
      /\ UNCHANGED <<pendingNumber, latestState, mined, guards, reader, snapshot>>
  BY Zenon DEF CommitPerm, tempVars, ghostVars, ReadsInv, Shapes, BlockFields, Layers
<1>2. miner.number = pendingNumber - 1 /\ info = pendingNumber - 2 /\ info' = info + 1
      /\ info \in Nat /\ pendingNumber \in Nat
  BY <1>1 DEF Numbers
<1>3. Numbers'
  BY <1>1, <1>2 DEF Numbers
<1>4. \A k \in Keys : permLatest'[k] = IF k \in Changes(latestState) THEN latestState[k].value
                                       ELSE permLatest[k]
  BY <1>1, Zenon DEF CommitPerm
<1>5. \A k \in Keys : permLatest'[k] = snapshot[info'][k]
  <2>1. \A k \in Keys : permLatest'[k] = Under(k)
    BY <1>4, Zenon DEF Under, ReadsInv, Layers, Changes
  <2> QED
    BY <1>1, <1>2, <2>1, Zenon DEF Settled
<1>6. Settled'
  BY <1>1, <1>5, Zenon DEF Settled
<1>7. Histories'
  <2> SUFFICES ASSUME NEW k \in Keys
               PROVE  /\ \A e \in permHistory'[k] : e[1] \in 0..info'
                      /\ \A e, f \in permHistory'[k] : e[1] = f[1] => e[2] = f[2]
                      /\ \A n \in 0..info' : \E e \in permHistory'[k] :
                            /\ e[1] <= n /\ e[2] = snapshot[n][k]
                            /\ \A f \in permHistory'[k] : f[1] <= n => f[1] <= e[1]
    BY <1>1 DEF Histories, Says
  <2>1. /\ \A e \in permHistory[k] : e[1] \in 0..info
        /\ \A e, f \in permHistory[k] : e[1] = f[1] => e[2] = f[2]
    BY Zenon DEF Histories
  <2>2. \A n \in 0..info : \E e \in permHistory[k] :
            /\ e[1] <= n /\ e[2] = snapshot[n][k]
            /\ \A f \in permHistory[k] : f[1] <= n => f[1] <= e[1]
    BY Zenon DEF Histories, Says
  <2>3. CASE k \in Changes(latestState)
    <3> DEFINE new == <<info + 1, latestState[k].value>>
    <3>1. permHistory'[k] = permHistory[k] \cup {new}
      BY <1>1, <1>2, <2>3, Zenon DEF CommitPerm
    <3>2. new[1] = info + 1 /\ new[2] = snapshot[info + 1][k]
      BY <1>2, <1>4, <1>5, <2>3, Zenon
    <3> HIDE DEF new
    <3>3. \A e \in permHistory'[k] : e[1] \in 0..info'
      BY <1>2, <2>1, <3>1, <3>2
    <3>4. \A e, f \in permHistory'[k] : e[1] = f[1] => e[2] = f[2]
      BY <1>2, <2>1, <3>1, <3>2
    <3>5. ASSUME NEW n \in 0..info'
          PROVE  \E e \in permHistory'[k] : /\ e[1] <= n /\ e[2] = snapshot[n][k]
                                            /\ \A f \in permHistory'[k] : f[1] <= n => f[1] <= e[1]
      <4>1. CASE n = info + 1
        BY <1>2, <2>1, <3>1, <3>2, <4>1
      <4>2. CASE n \in 0..info
        <5>1. PICK e \in permHistory[k] : /\ e[1] <= n /\ e[2] = snapshot[n][k]
                                          /\ \A f \in permHistory[k] : f[1] <= n => f[1] <= e[1]
          BY <2>2, <4>2, Zenon
        <5>2. ~(new[1] <= n)
          BY <1>2, <3>2, <4>2
        <5> QED
          BY <3>1, <5>1, <5>2, Zenon
      <4> QED
        BY <1>2, <3>5, <4>1, <4>2
    <3> QED
      BY <3>3, <3>4, <3>5, Zenon
  <2>4. CASE k \notin Changes(latestState)
    <3>1. permHistory'[k] = permHistory[k]
      BY <1>1, <2>4, Zenon DEF CommitPerm
    <3>2. snapshot[info + 1][k] = snapshot[info][k]
      BY <1>2, <1>4, <1>5, <2>4, Zenon DEF Settled
    <3>3. ASSUME NEW n \in 0..info'
          PROVE  \E e \in permHistory[k] : /\ e[1] <= n /\ e[2] = snapshot[n][k]
                                           /\ \A f \in permHistory[k] : f[1] <= n => f[1] <= e[1]
      <4>1. CASE n = info + 1
        <5>1. PICK e \in permHistory[k] : /\ e[1] <= info /\ e[2] = snapshot[info][k]
                                          /\ \A f \in permHistory[k] : f[1] <= info => f[1] <= e[1]
          BY <1>2, <2>2
        <5> QED
          BY <1>2, <2>1, <3>2, <4>1, <5>1
      <4>2. CASE n \in 0..info
        BY <2>2, <4>2, Zenon
      <4> QED
        BY <1>2, <3>3, <4>1, <4>2
    <3> QED
      BY <1>2, <2>1, <3>1, <3>3
  <2> QED
    BY <2>3, <2>4, Zenon
<1>8. Calls'
  BY <1>1, Zenon DEF Calls, Call
<1> QED
  BY <1>3, <1>6, <1>7, <1>8, Zenon

\* A reader's step disturbs no other reader's call.
LEMMA CallMoves ==
    ASSUME Shapes, Calls, NEW r \in Readers, NEW rd, reader' = [reader EXCEPT ![r] = rd],
           guards' \subseteq guards \cup {r}, guards \ {r} \subseteq guards',
           r \in guards' => r \in Pinned, guards' # {} => miner.pc # "cache",
           rd.pc \in {"header", "read", "history"} => r \in Pinned, r \in Pinned => Call(r)',
           UNCHANGED <<info, mined, miner, snapshot>>
    PROVE  Calls'
<1>1. DOMAIN reader = Readers /\ Pinned \subseteq Readers
  BY Zenon DEF Shapes, Readers
<1>2. ASSUME NEW q \in Pinned, q # r PROVE Call(q)'
  <2>1. Call(q) /\ reader'[q] = reader[q] /\ (q \in guards' <=> q \in guards)
    BY <1>1, <1>2, Zenon DEF Calls
  <2> QED
    BY <2>1, Zenon DEF Call
<1> QED
  BY <1>1, <1>2, Zenon DEF Calls

\* An answer from the pinned block is one more value of it.
LEMMA CallAnswered ==
    ASSUME Shapes, Calls, NEW r \in Readers, reader[r].pc \notin {"idle", "header"}, NEW k, NEW v,
           r \in Pinned => v = snapshot[reader[r].pin][k],
           reader' = [reader EXCEPT ![r] = Answered(r, k, v)],
           guards' = guards \/ guards' = guards \ {r},
           UNCHANGED <<info, mined, miner, snapshot>>
    PROVE  Calls'
<1> DEFINE rd == Answered(r, k, v)
<1>1. DOMAIN reader = Readers /\ DOMAIN reader[r] = ReadFields
  BY Zenon DEF Shapes
<1>2. /\ rd.pc = IF r \in Pinned THEN "read" ELSE "answer"
      /\ rd.pin = reader[r].pin /\ rd.header = reader[r].header
      /\ rd.values = Put(reader[r].values, k, v)
  BY <1>1, Zenon DEF Answered, ReadFields
<1>3. reader'[r] = rd
  BY <1>1, Zenon
<1> HIDE DEF rd
<1>4. ASSUME r \in Pinned PROVE Call(r)'
  <2>1. Call(r)
    BY <1>4, Zenon DEF Calls
  <2>2. \A x \in DOMAIN rd.values : rd.values[x] = snapshot[reader[r].pin][x]
    BY <1>2, <1>4, <2>1, Zenon DEF Call, Put
  <2> QED
    BY <1>2, <1>3, <1>4, <2>1, <2>2 DEF Call
<1>5. guards' # {} => miner.pc # "cache"
  BY Zenon DEF Calls
<1>6. r \in guards' => r \in Pinned
  BY Zenon DEF Calls
<1>7. reader' = [reader EXCEPT ![r] = rd]
  BY Zenon DEF rd
<1> QED
  BY <1>2, <1>4, <1>5, <1>6, <1>7, CallMoves, Zenon

\* Every step of a call, and of the readers and loaders beside it.
LEMMA PinReader ==
    ASSUME ReadsInv, load.drops = {}, Numbers, Settled, Histories, Calls, NEW r \in Readers,
           ReaderNext(r)
    PROVE  Calls'
<1>1. Shapes /\ DOMAIN reader = Readers /\ DOMAIN reader[r] = ReadFields
  BY Zenon DEF ReadsInv, Shapes
<1>2. mined <= info /\ mined \in Nat /\ info \in Nat
  BY DEF Numbers
<1>3. r \in Pinned => Call(r)
  BY Zenon DEF Calls
<1>4. reader[r].pc \in KeyPhases => reader[r].key \in Keys
  BY Zenon DEF ReadsInv, Shapes
<1>5. ASSUME r \in Pinned, reader[r].pc \in {"cache", "perm"}
      PROVE  /\ r \in guards /\ Due = {} /\ reader[r].pin = info
             /\ permLatest[reader[r].key] = snapshot[reader[r].pin][reader[r].key]
  BY <1>3, <1>4, <1>5, Zenon DEF Call, Calls, Due, Settled, KeyPhases
<1>6. DOMAIN NoRead = ReadFields /\ NoRead.pc = "idle"
  BY Zenon DEF NoRead, ReadFields
<1>7. CASE ReadHeader(r)
  <2> DEFINE rd == [reader[r] EXCEPT !.pc = "read",
                       !.header = IF reader[r].pin = info + 1 THEN pendingNumber ELSE reader[r].pin]
  <2>1. r \in Pinned /\ reader[r].pin \in 0..mined
    BY <1>3, <1>7, Zenon DEF ReadHeader, Calls, Call
  <2>2. rd.pc = "read" /\ rd.header = reader[r].pin /\ rd.pin = reader[r].pin
        /\ rd.values = reader[r].values
    BY <1>1, <1>2, <2>1 DEF ReadFields
  <2>3. reader' = [reader EXCEPT ![r] = rd] /\ reader'[r] = rd
    BY <1>1, <1>7, Zenon DEF ReadHeader
  <2> HIDE DEF rd
  <2>4. UNCHANGED <<guards, info, mined, miner, snapshot>>
    BY <1>7, Zenon DEF ReadHeader, lockVars, ghostVars
  <2>5. Call(r)'
    BY <1>3, <1>7, <2>1, <2>2, <2>3, <2>4, Zenon DEF Call, ReadHeader
  <2> QED
    BY <1>1, <2>1, <2>3, <2>4, <2>5, CallMoves, Zenon DEF Calls
<1>8. CASE ReadHistory(r)
  <2>1. r \in Pinned /\ reader[r].pin \in 0..info /\ reader[r].key \in Keys
    BY <1>2, <1>3, <1>4, <1>8 DEF ReadHistory, Calls, Call, KeyPhases
  <2>2. HistoryAt(reader[r].key, reader[r].pin) = snapshot[reader[r].pin][reader[r].key]
    BY <2>1, HistoryAnswers, Zenon
  <2> QED
    BY <1>1, <1>8, <2>2, CallAnswered, Zenon DEF ReadHistory, lockVars, ghostVars
<1>9. CASE ReadCache(r)
  <2>1. CASE reader[r].key \in DOMAIN cache
    <3>1. r \in Pinned => cache[reader[r].key] = snapshot[reader[r].pin][reader[r].key]
      BY <1>5, <1>9, <2>1, Zenon DEF ReadCache, ReadsInv, Fills
    <3>2. /\ reader' = [reader EXCEPT ![r] = Answered(r, reader[r].key, cache[reader[r].key])]
          /\ guards' = guards \ {r} /\ reader[r].pc = "cache"
          /\ UNCHANGED <<info, mined, miner, snapshot>>
      BY <1>9, <2>1, Zenon DEF ReadCache, ghostVars
    <3> QED
      BY <1>1, <3>1, <3>2, CallAnswered, Zenon
  <2>2. CASE reader[r].key \notin DOMAIN cache
    <3> DEFINE rd == [reader[r] EXCEPT !.pc = "perm"]
    <3>1. rd.pc = "perm" /\ rd.pin = reader[r].pin /\ rd.header = reader[r].header
          /\ rd.values = reader[r].values
      BY <1>1, Zenon DEF ReadFields
    <3>2. /\ reader' = [reader EXCEPT ![r] = rd] /\ reader'[r] = rd /\ reader[r].pc = "cache"
          /\ UNCHANGED <<guards, info, mined, miner, snapshot>>
      BY <1>1, <1>9, <2>2, Zenon DEF ReadCache, ghostVars
    <3> HIDE DEF rd
    <3>3. r \in Pinned => Call(r)'
      BY <1>3, <3>1, <3>2 DEF Call
    <3> QED
      BY <1>1, <3>1, <3>2, <3>3, CallMoves, Zenon DEF Calls
  <2> QED
    BY <2>1, <2>2, Zenon
<1>10. CASE ReadPerm(r)
  <2> DEFINE rd == [reader[r] EXCEPT !.pc = "fill", !.value = permLatest[reader[r].key]]
  <2>1. rd.pc = "fill" /\ rd.pin = reader[r].pin /\ rd.header = reader[r].header
        /\ rd.values = reader[r].values /\ rd.key = reader[r].key
        /\ rd.value = permLatest[reader[r].key]
    BY <1>1, Zenon DEF ReadFields
  <2>2. /\ reader' = [reader EXCEPT ![r] = rd] /\ reader'[r] = rd /\ reader[r].pc = "perm"
        /\ guards' = guards \ {r} /\ UNCHANGED <<info, mined, miner, snapshot>>
    BY <1>1, <1>10, Zenon DEF ReadPerm, ghostVars
  <2> HIDE DEF rd
  <2>3. r \in Pinned => Call(r)'
    BY <1>3, <1>5, <2>1, <2>2 DEF Call
  <2> QED
    BY <1>1, <2>1, <2>2, <2>3, CallMoves, Zenon DEF Calls
<1>11. CASE FillCache(r)
  <2>1. r \in Pinned => reader[r].value = snapshot[reader[r].pin][reader[r].key]
    BY <1>3, <1>11, Zenon DEF Call, FillCache
  <2> QED
    BY <1>1, <1>11, <2>1, CallAnswered, Zenon DEF FillCache, lockVars, ghostVars
<1>12. ASSUME NEW rd, reader' = [reader EXCEPT ![r] = rd], r \notin Pinned \/ rd.pc = "idle",
              rd.pc \notin {"header", "read", "history"},
              UNCHANGED <<lockVars, miner, ghostVars>>
       PROVE  Calls'
  <2>1. reader'[r] = rd /\ UNCHANGED <<guards, info, mined, miner, snapshot>>
    BY <1>1, <1>12, Zenon DEF lockVars, ghostVars
  <2>2. r \in Pinned => Call(r)'
    BY <1>12, <2>1, Zenon DEF Call
  <2> QED
    BY <1>1, <1>12, <2>1, <2>2, CallMoves, Zenon DEF Calls
<1>13. CASE EndCall(r)
  BY <1>6, <1>12, <1>13, Zenon DEF EndCall
<1>14. CASE LoadRetainLatest(r) \/ LoadRetainCache(r)
  <2>1. r \notin Pinned /\ UNCHANGED <<lockVars, miner, ghostVars>>
    BY <1>3, <1>14, Zenon DEF Call, LoadRetainLatest, LoadRetainCache
  <2> DEFINE rl == [reader[r] EXCEPT !.pc = "retain_cache"]
             rp == [reader[r] EXCEPT !.pc = "perm"]
  <2>2. rl.pc = "retain_cache" /\ rp.pc = "perm"
    BY <1>1, Zenon DEF ReadFields
  <2>3. \/ reader' = [reader EXCEPT ![r] = NoRead]
        \/ reader' = [reader EXCEPT ![r] = rl]
        \/ reader' = [reader EXCEPT ![r] = rp]
    BY <1>1, <1>14, Zenon DEF LoadRetainLatest, LoadRetainCache
  <2> HIDE DEF rl, rp
  <2> QED
    BY <1>6, <1>12, <2>1, <2>2, <2>3, Zenon
<1>15. CASE r \in Pinned /\ PinCall(r)
  <2> DEFINE rd == [NoRead EXCEPT !.pc = "header", !.pin = mined, !.todo = Keys]
  <2>1. rd.pc = "header" /\ rd.pin = mined /\ DOMAIN rd.values = {}
    BY Zenon DEF NoRead, Empty
  <2>2. /\ reader' = [reader EXCEPT ![r] = rd] /\ reader'[r] = rd
        /\ UNCHANGED <<guards, info, mined, miner, snapshot>>
    BY <1>1, <1>15, Zenon DEF PinCall, lockVars, ghostVars
  <2> HIDE DEF rd
  <2>3. Call(r)'
    BY <1>2, <2>1, <2>2 DEF Call
  <2> QED
    BY <1>1, <1>15, <2>1, <2>2, <2>3, CallMoves, Zenon DEF Calls
<1>16. ASSUME NEW k \in Keys, ResolvePinned(r, k) PROVE Calls'
  <2>1. /\ r \in Pinned /\ reader[r].pin \in 0..mined /\ reader[r].pc = "read"
        /\ miner.pc # "cache" /\ UNCHANGED <<info, mined, miner, snapshot>>
    BY <1>3, <1>16, Zenon DEF ResolvePinned, Calls, Call, WriteLocked, ghostVars
  <2> DEFINE rd == [reader[r] EXCEPT !.pc = "cache", !.key = k]
             rh == [reader[r] EXCEPT !.pc = "history", !.key = k]
  <2>2. /\ rd.pc = "cache" /\ rd.pin = reader[r].pin /\ rd.header = reader[r].header
        /\ rd.values = reader[r].values
        /\ rh.pc = "history" /\ rh.pin = reader[r].pin /\ rh.header = reader[r].header
        /\ rh.values = reader[r].values
    BY <1>1, Zenon DEF ReadFields
  <2>3. CASE reader[r].pin >= info
    <3>0. ~(reader[r].pin < info)
      BY <1>2, <2>1, <2>3
    <3>1. reader' = [reader EXCEPT ![r] = rd] /\ reader'[r] = rd /\ guards' = guards \cup {r}
      BY <1>1, <1>16, <3>0, Zenon DEF ResolvePinned
    <3> HIDE DEF rd, rh
    <3>2. reader[r].pin = info
      BY <1>2, <2>1, <2>3
    <3>3. Call(r)'
      BY <1>3, <2>1, <2>2, <3>1, <3>2 DEF Call
    <3> QED
      BY <1>1, <2>1, <2>2, <3>1, <3>3, CallMoves, Zenon
  <2>4. CASE reader[r].pin < info
    <3>0. ~(reader[r].pin >= info)
      BY <1>2, <2>1, <2>4
    <3>1. reader' = [reader EXCEPT ![r] = rh] /\ reader'[r] = rh /\ guards' = guards
      BY <1>1, <1>16, <3>0, Zenon DEF ResolvePinned
    <3> HIDE DEF rd, rh
    <3>2. Call(r)'
      BY <1>3, <2>1, <2>2, <3>1 DEF Call
    <3> QED
      BY <1>1, <2>1, <2>2, <3>1, <3>2, CallMoves, Zenon DEF Calls
  <2> QED
    BY <1>2, <2>1, <2>3, <2>4
<1>17. ASSUME NEW k \in Keys, r \in Unpinned /\ ResolveLatest(r, k) PROVE Calls'
  <2> DEFINE rd == [NoRead EXCEPT !.pc = "cache", !.key = k]
  <2>1. rd.pc = "cache" /\ reader' = [reader EXCEPT ![r] = rd] /\ r \notin Pinned
    BY <1>17, ReadsAssumption, Zenon DEF ResolveLatest, NoRead
  <2> HIDE DEF rd
  <2> QED
    BY <1>12, <1>17, <2>1, Zenon DEF ResolveLatest
<1>18. ASSUME NEW k \in Keys, r \in Loaders /\ LoadRetainPending(r, k) PROVE Calls'
  <2> DEFINE rd == [NoRead EXCEPT !.pc = "retain", !.key = k]
  <2>1. rd.pc = "retain" /\ reader' = [reader EXCEPT ![r] = rd] /\ r \notin Pinned
    BY <1>18, ReadsAssumption, Zenon DEF LoadRetainPending, NoRead
  <2> HIDE DEF rd
  <2> QED
    BY <1>12, <1>18, <2>1, Zenon DEF LoadRetainPending
<1> QED
  BY <1>7, <1>8, <1>9, <1>10, <1>11, <1>13, <1>14, <1>15, <1>16, <1>17, <1>18, Zenon DEF ReaderNext

\* The invariant behind the pinned reads.
THEOREM PinInductive == Spec => []PinInv
<1>1. ASSUME ReadsInv, ReadsInv', PinInv, [Next]_vars PROVE PinInv'
  <2> SUFFICES ASSUME load.drops = {}, load' = load PROVE Numbers' /\ Settled' /\ Histories' /\ Calls'
    BY <1>1, Zenon DEF PinInv, Next, vars
  <2>1. Numbers /\ Settled /\ Histories /\ Calls /\ Shapes
    BY <1>1, Zenon DEF PinInv, ReadsInv
  <2>2. ASSUME UNCHANGED <<pendingNumber, latestState, permVars, lockVars, miner, reader, snapshot>>
        PROVE  Numbers' /\ Settled' /\ Histories' /\ Calls'
    <3>1. Numbers' /\ Settled' /\ Histories'
      BY <2>1, <2>2, PinFrame, Zenon DEF lockVars
    <3>2. Calls'
      BY <2>1, <2>2, Zenon DEF Calls, Call, lockVars
    <3> QED
      BY <3>1, <3>2, Zenon
  <2>3. CASE UNCHANGED vars
    BY <2>2, <2>3, Zenon DEF vars, tempVars, ghostVars
  <2>4. CASE WorkerNext
    BY <2>2, <2>4, Zenon DEF WorkerNext, BeginAttempt, WorkerReadCache, WorkerReadPerm,
       WorkerReadTemp,
                      WorkerSave, RecordSave, tempVars, ghostVars
  <2>5. CASE FinishPendingBlock
    BY <1>1, <2>1, <2>5, PinFinish, Zenon
  <2>6. CASE CommitPerm
    BY <1>1, <2>1, <2>6, PinCommit, Zenon
  <2>7. CASE PublishMined
    <3>1. /\ miner.pc = "cache" /\ mined' = miner.number /\ miner'.pc = "idle"
          /\ UNCHANGED <<pendingNumber, latestState, permLatest, permHistory, info, guards, reader,
                         snapshot>>
      BY <2>7, Zenon DEF PublishMined, NoBlock, tempVars, permVars, ghostVars
    <3>2. mined' = mined + 1 /\ mined \in Nat
      BY <2>1, <3>1 DEF Numbers
    <3>3. Numbers'
      BY <2>1, <3>1, <3>2, Zenon DEF Numbers
    <3>4. Settled' /\ Histories'
      BY <2>1, <3>1, Zenon DEF Settled, Histories, Says
    <3>5. ASSUME NEW r \in Pinned PROVE Call(r)'
      <4>1. Call(r)
        BY <2>1, Zenon DEF Calls
      <4>2. reader[r].pin \in 0..mined => reader[r].pin \in 0..mined'
        BY <3>2
      <4> QED
        BY <3>1, <4>1, <4>2, Zenon DEF Call
    <3> QED
      BY <2>1, <3>1, <3>3, <3>4, <3>5, Zenon DEF Calls
  <2>8. ASSUME NEW k \in Keys, CacheChange(k) PROVE Numbers' /\ Settled' /\ Histories' /\ Calls'
    <3>1. /\ miner.pc = "cache" /\ miner'.pc = "cache" /\ miner'.number = miner.number
          /\ UNCHANGED <<pendingNumber, latestState, permLatest, permHistory, info, mined, guards,
                         reader, snapshot>>
      BY <2>1, <2>8, Zenon DEF CacheChange, Shapes, BlockFields, tempVars, permVars, lockVars,
         ghostVars
    <3>2. Numbers' /\ Settled'
      BY <2>1, <3>1, Zenon DEF Numbers, Settled
    <3>3. Histories'
      BY <2>1, <3>1, Zenon DEF Histories, Says
    <3>4. \A r \in Pinned : Call(r)'
      BY <2>1, <3>1, Zenon DEF Calls, Call
    <3>5. Calls'
      BY <2>1, <3>1, <3>4, Zenon DEF Calls
    <3> QED
      BY <3>2, <3>3, <3>5, Zenon
  <2>9. ASSUME NEW r \in Readers, ReaderNext(r) PROVE Numbers' /\ Settled' /\ Histories' /\ Calls'
    <3>1. UNCHANGED <<tempVars, permVars, info, mined, miner, ghostVars>>
      BY <2>9, Zenon DEF ReaderNext, ReadHeader, ReadHistory, ReadCache, ReadPerm, FillCache,
         EndCall,
                  LoadRetainLatest, LoadRetainCache, PinCall, ResolvePinned, ResolveLatest,
                  LoadRetainPending, lockVars
    <3>2. Numbers' /\ Settled' /\ Histories'
      BY <2>1, <3>1, PinFrame, Zenon DEF tempVars, ghostVars
    <3> QED
      BY <1>1, <2>1, <2>9, <3>2, PinReader, Zenon
  <2>10. ASSUME (\E k \in Keys : Evict(k)) \/ ClearCache PROVE FALSE
    BY <2>10, Zenon DEF Evict, ClearCache
  <2>11. load.readers \subseteq Readers
    BY <2>1, ReadsAssumption, Zenon DEF Shapes, Readers
  <2> QED
    BY <1>1, <2>3, <2>4, <2>5, <2>6, <2>7, <2>8, <2>9, <2>10, <2>11, Zenon DEF Next, MinerNext
<1> QED
  BY <1>1, PinStart, ReadsInductive, PTL DEF Spec

\* While the cache keeps its entries, the header and every key an eth_call reads belong to the block
\* it pinned, however many blocks are committed between its reads (LatestPinned resolves to the
\* latest state under the read lock, or to the history once the chain has moved on).
THEOREM Snapshots == Spec => []PinnedSnapshot
<1>1. PinInv => PinnedSnapshot
  BY Zenon DEF PinInv, Calls, Call, PinnedSnapshot
<1> QED
  BY <1>1, PinInductive, PTL
=============================================================================
