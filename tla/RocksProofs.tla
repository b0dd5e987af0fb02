---------------------------- MODULE RocksProofs -----------------------------
(***************************************************************************)
(* The column families that find blocks and transactions always agree with *)
(* the blocks the storage accepted, through crashes, power failures and    *)
(* resets; reads of accounts and slots at a block replay the blocks; and   *)
(* no failure takes back a published block when writes are synced.         *)
(***************************************************************************)
EXTENDS Rocks, WellFoundedInduction, TLAPS

(***************************************************************************)
(* The inductive invariant.                                                *)
(***************************************************************************)
NoChanges == [accounts |-> Empty, slots |-> Empty]

\* The form of a block that can be read back as it was, and found by its number and hash.
Storable(n, entry) ==
    LET block == entry.block
        stored == BlockToRocks(block)
    IN  /\ None \notin {entry.changes, stored}
        /\ block.header.number = n
        /\ block.header.hash = BlockHash(n)
        /\ block.header.timestamp \in Nat
        /\ SameBlock(BlockFromRocks(stored), block)
        /\ DOMAIN block.transactions \subseteq Nat
        /\ \A i, j \in DOMAIN block.transactions :
             block.transactions[i].execution.hash = block.transactions[j].execution.hash => i = j

\* The families of a storage that accepted the blocks of g.
Numbers(g) == 0..(Len(g.blocks) - 1)
TimeOf(g, n) == g.blocks[n + 1].block.header.timestamp

ByNumber(cfs, g) ==
    /\ DOMAIN cfs.blocks_by_number = Numbers(g)
    /\ \A n \in Numbers(g) :
         /\ cfs.blocks_by_number[n] = BlockToRocks(g.blocks[n + 1].block)
         /\ n \in DOMAIN cfs.block_changes
         /\ cfs.block_changes[n] = g.blocks[n + 1].changes

ByHash(cfs, g) ==
    \A n \in Numbers(g) :
        /\ BlockHash(n) \in DOMAIN cfs.blocks_by_hash
        /\ cfs.blocks_by_hash[BlockHash(n)] = n

HashAt(g, n, i) == g.blocks[n + 1].block.transactions[i].execution.hash

ByTransaction(cfs, g) ==
    \A n \in Numbers(g) : \A i \in DOMAIN g.blocks[n + 1].block.transactions :
        HashAt(g, n, i) \in DOMAIN cfs.transactions /\ cfs.transactions[HashAt(g, n, i)] = n

ByTime(cfs, g) ==
    /\ DOMAIN cfs.blocks_by_timestamp = {TimeOf(g, n) : n \in Numbers(g)}
    /\ \A n \in Numbers(g) :
         LET last == cfs.blocks_by_timestamp[TimeOf(g, n)]
         IN  last \in Numbers(g) /\ TimeOf(g, last) = TimeOf(g, n) /\ n <= last

Chain(cfs, g) ==
    /\ IsSequence(g.blocks)
    /\ Len(g.blocks) <= MaxBlock + 1
    /\ \A n \in Numbers(g) : Storable(n, g.blocks[n + 1])
    /\ ByNumber(cfs, g)
    /\ ByHash(cfs, g)
    /\ ByTransaction(cfs, g)
    /\ ByTime(cfs, g)

IsGhost(g) ==
    /\ g = [blocks |-> g.blocks, accounts |-> g.accounts, edited |-> g.edited, torn |-> g.torn]
    /\ g.torn \in BOOLEAN

IsJob ==
    /\ job.op \in {"idle", "down", "publish", "reset", "accounts", "slots"}
    /\ job.op = "idle" => job = Idle
    /\ job.op = "reset" =>
         /\ job = [op |-> "reset", left |-> job.left, half |-> job.half]
         /\ job.left \in Seq(FamilyNames)
    /\ job.op = "slots" => job = [op |-> "slots", left |-> job.left]

Shapes ==
    /\ build \in Builds
    /\ DOMAIN db = FamilyNames
    /\ DOMAIN disk.db = FamilyNames
    /\ disk = [db |-> disk.db, ghost |-> disk.ghost]
    /\ IsGhost(ghost)
    /\ IsGhost(disk.ghost)
    /\ IsJob

\* Whether the families must agree with the ghost: not from the first cleared family of a reset
\* until its genesis block.
Genuine == ~ghost.torn \/ job.op \in {"accounts", "slots"}

\* The families a reset has behind it are empty.
ResetInv ==
    /\ job.op = "reset" =>
         /\ job.left = ResetOrder \/ ghost.torn
         /\ \A cf \in Range(ResetOrder) \ Range(job.left) : DOMAIN db[cf] = {}
    /\ job.op \in {"accounts", "slots"} => ghost.torn

\* The number that is published.
Published(g) == IF g.blocks = <<>> THEN 0 ELSE Len(g.blocks) - 1

NumberInv ==
    /\ ~ghost.torn /\ job.op = "idle" => number = Published(ghost)
    /\ ~ghost.torn /\ job.op = "publish" =>
         /\ ghost.blocks # <<>>
         /\ job.number = Len(ghost.blocks) - 1
         /\ number \in 0..job.number
    /\ job.op \in {"accounts", "slots"} => Len(ghost.blocks) = 1

StorageInv ==
    /\ Shapes
    /\ Genuine => Chain(db, ghost)
    /\ ~disk.ghost.torn => Chain(disk.db, disk.ghost)
    /\ build.sync /\ Genuine => disk.ghost.blocks = ghost.blocks
    /\ ResetInv
    /\ NumberInv

(***************************************************************************)
(* Sequences.                                                              *)
(***************************************************************************)
\* A sequence over a set is one over a larger set.
LEMMA SeqWithin ==
    ASSUME NEW S, NEW T, NEW s \in Seq(S), S \subseteq T
    PROVE  s \in Seq(T)
  OBVIOUS

\* A sequence is a function.
LEMMA SeqFunction ==
    ASSUME NEW S, NEW s \in Seq(S)
    PROVE  s \in [1..Len(s) -> S] /\ Len(s) \in Nat
  OBVIOUS

\* The empty sequence is the one of length 0.
LEMMA SeqEmpty ==
    ASSUME NEW S
    PROVE  /\ <<>> \in Seq(S) /\ Len(<<>>) = 0
           /\ \A s \in Seq(S) : s # <<>> => Len(s) \in Nat \ {0}
  OBVIOUS

\* Appending adds one element at the end.
LEMMA SeqAppend ==
    ASSUME NEW S, NEW s \in Seq(S), NEW e \in S
    PROVE  /\ Append(s, e) \in Seq(S)
           /\ Append(s, e) # <<>> /\ Len(Append(s, e)) = Len(s) + 1
           /\ \A i \in 1..Len(s) : Append(s, e)[i] = s[i]
           /\ Append(s, e)[Len(s) + 1] = e
  OBVIOUS

\* The tail is the sequence without its first element.
LEMMA SeqTail ==
    ASSUME NEW S, NEW s \in Seq(S), s # <<>>
    PROVE  /\ Head(s) \in S /\ Tail(s) \in Seq(S) /\ Len(Tail(s)) = Len(s) - 1
           /\ \A i \in 1..Len(Tail(s)) : Tail(s)[i] = s[i + 1]
  OBVIOUS

(***************************************************************************)
(* Column families.                                                        *)
(***************************************************************************)
\* A set of numbers that is not empty has a least one.
LEMMA LeastNumber ==
    ASSUME NEW S, S \subseteq Nat, S # {}
    PROVE  Min(S) \in S /\ \A x \in S : Min(S) <= x
<1> DEFINE R == {ss \in Nat \X Nat : ss[1] < ss[2]}
<1>1. IsWellFoundedOn(R, Nat)
  BY NatLessThanWellFounded, Zenon DEF OpToRel
<1> HIDE DEF R
<1>2. PICK x \in S : \A y \in S : ~(<<y, x>> \in R)
  BY <1>1, WFMin, Zenon
<1>3. ASSUME NEW y \in S
      PROVE  x <= y
  <2>1. x \in Nat /\ y \in Nat /\ ~(<<y, x>> \in R)
    BY <1>2, Zenon
  <2>2. <<y, x>> \in Nat \X Nat /\ <<y, x>>[1] = y /\ <<y, x>>[2] = x
    BY <2>1, Zenon
  <2>3. ~(y < x)
    BY <2>1, <2>2, Zenon DEF R
  <2>4. QED
    BY <2>1, <2>3
<1>4. QED
  BY <1>3, Zenon DEF Min

\* A set of numbers with a bound that is not empty has a greatest one.
LEMMA GreatestNumber ==
    ASSUME NEW S, S \subseteq Nat, S # {}, NEW bound \in Nat, \A x \in S : x <= bound
    PROVE  Max(S) \in S /\ \A x \in S : x <= Max(S)
<1> DEFINE T == {bound - x : x \in S}
<1>0. \A x \in S : bound - x \in Nat /\ bound - x \in T
  OBVIOUS
<1>1. T \subseteq Nat /\ T # {}
  BY <1>0, Zenon
<1>2. Min(T) \in T /\ \A x \in T : Min(T) <= x
  BY <1>1, LeastNumber, Zenon
<1>3. PICK m \in S : Min(T) = bound - m
  BY <1>2, Zenon
<1>4. ASSUME NEW x \in S
      PROVE  x <= m
  <2>1. bound - m <= bound - x
    BY <1>0, <1>2, <1>3, Zenon
  <2>2. x \in Nat /\ m \in Nat
    BY Zenon
  <2>3. QED
    BY <2>1, <2>2
<1>5. QED
  BY <1>4, Zenon DEF Max

\* The greatest number of a set.
LEMMA MaxIs ==
    ASSUME NEW S, S \subseteq Nat, NEW m \in S, \A x \in S : x <= m
    PROVE  Max(S) = m
<1>1. m \in S /\ \A x \in S : m >= x
  BY Zenon
<1>2. ASSUME NEW n \in S, \A x \in S : n >= x
      PROVE  n = m
  BY <1>2
<1>3. QED
  BY <1>1, <1>2, Zenon DEF Max

\* An iterator over block numbers without a gap finds the last and the first one.
LEMMA EndsOfRange ==
    ASSUME NEW cf, NEW len \in Nat, DOMAIN cf = 0..(len - 1)
    PROVE  /\ len = 0 => LastKey(cf) = None
           /\ len > 0 => LastKey(cf) = len - 1 /\ FirstKey(cf) = 0
<1>1. CASE len = 0
  BY <1>1 DEF LastKey
<1>2. CASE len > 0
  <2>1. 0 \in DOMAIN cf /\ len - 1 \in DOMAIN cf /\ \A k \in DOMAIN cf : 0 <= k /\ k <= len - 1
    BY <1>2
  <2>2. Max(DOMAIN cf) = len - 1
    BY <2>1 DEF Max
  <2>3. Min(DOMAIN cf) = 0
    BY <2>1 DEF Min
  <2>4. QED
    BY <1>2, <2>1, <2>2, <2>3 DEF LastKey, FirstKey
<1>3. QED
  BY <1>1, <1>2, Zenon

(***************************************************************************)
(* Blocks: what is stored is read back.                                    *)
(***************************************************************************)
\* The length of a function on 1..k.
LEMMA LenOf ==
    ASSUME NEW k \in Nat, NEW f, f = [i \in 1..k |-> f[i]]
    PROVE  Len(f) = k /\ IsSequence(f)
<1>1. DOMAIN f = 1..k
  BY Zenon
<1>2. f \in [1..k -> Range(f)]
  BY <1>1, Zenon DEF Range
<1>3. QED
  BY <1>2 DEF IsSequence

\* A transaction that is stored and read back has its execution, its place and, when it has
\* logs, the index of the first one (TransactionMinedRocksdb and back).
LEMMA TransactionRoundTrip ==
    ASSUME NEW tx, NEW hash, IsExecution(tx.execution), tx.mined.first_log_index \in Nat
    PROVE  LET r == TransactionFromRocks(TransactionToRocks(tx), tx.execution.number, hash)
           IN  /\ r.execution = tx.execution
               /\ r.mined.index = tx.mined.index
               /\ r.mined.block_hash = hash
               /\ tx.execution.logs # <<>> => r.mined.first_log_index = tx.mined.first_log_index
<1> DEFINE e == tx.execution
           stored == TransactionToRocks(tx)
           r == TransactionFromRocks(stored, e.number, hash)
<1>1. /\ stored.hash = e.hash /\ stored.result = e.result /\ stored.output = e.output
      /\ stored.time = e.time /\ stored.index = tx.mined.index
      /\ stored.logs = [i \in DOMAIN e.logs |->
                          [log |-> e.logs[i], index |-> tx.mined.first_log_index + (i - 1)]]
  BY Zenon DEF TransactionToRocks
<1>2. e.logs \in Seq(Range(e.logs))
  BY Zenon DEF IsExecution, IsSequence
<1>3. e.logs = [i \in DOMAIN e.logs |-> e.logs[i]] /\ DOMAIN e.logs = 1..Len(e.logs) /\ Len(e.logs) \in Nat
  BY <1>2
<1> HIDE DEF stored
<1>4. [i \in DOMAIN stored.logs |-> stored.logs[i].log] = e.logs
  <2>1. DOMAIN stored.logs = DOMAIN e.logs /\ \A i \in DOMAIN e.logs : stored.logs[i].log = e.logs[i]
    BY <1>1
  <2>2. [i \in DOMAIN stored.logs |-> stored.logs[i].log] = [i \in DOMAIN e.logs |-> e.logs[i]]
    BY <2>1, Zenon
  <2>3. QED
    BY <1>3, <2>2, Zenon
<1>5. r.execution = [hash |-> e.hash, number |-> e.number, time |-> e.time,
                     result |-> e.result, output |-> e.output, logs |-> e.logs]
  BY <1>1, <1>4, Zenon DEF TransactionFromRocks
<1>6. r.execution = e
  BY <1>5, Zenon DEF IsExecution
<1>7. r.mined.index = tx.mined.index /\ r.mined.block_hash = hash
  BY <1>1, Zenon DEF TransactionFromRocks
<1>8. ASSUME e.logs # <<>>
      PROVE  r.mined.first_log_index = tx.mined.first_log_index
  <2>1. 1 \in DOMAIN e.logs
    BY <1>2, <1>3, <1>8
  <2>2. stored.logs # <<>> /\ stored.logs[1].index = tx.mined.first_log_index + (1 - 1)
    BY <1>1, <2>1
  <2>3. QED
    BY <2>2 DEF TransactionFromRocks
<1>9. QED
  BY <1>6, <1>7, <1>8, Zenon DEF stored

\* An execution with its block in it.
LEMMA Placed ==
    ASSUME NEW e, IsExecution(e), NEW n, NEW t
    PROVE  LET f == InBlock(e, n, t)
           IN  IsExecution(f) /\ f.number = n /\ f.hash = e.hash
<1> DEFINE f == InBlock(e, n, t)
<1>1. DOMAIN e = {"hash", "number", "time", "result", "output", "logs"} /\ IsSequence(e.logs)
  BY Zenon DEF IsExecution
<1>2. /\ f = [x \in DOMAIN e |-> f[x]]
      /\ DOMAIN f = DOMAIN e
      /\ f.number = n /\ f.hash = e.hash /\ f.logs = e.logs
  BY <1>1, Zenon DEF InBlock
<1> HIDE DEF f
<1>3. f = [hash |-> f.hash, number |-> f.number, time |-> f.time,
           result |-> f.result, output |-> f.output, logs |-> f.logs]
  BY <1>1, <1>2, Zenon
<1>4. QED
  BY <1>1, <1>2, <1>3, Zenon DEF IsExecution, f

\* The fields of a block that is mined from a body (Block::from PendingBlock).
LEMMA MinedForm ==
    ASSUME NEW n, NEW t, NEW body \in Bodies
    PROVE  LET block == MinedBlock(n, t, body)
           IN  /\ block.header.number = n
               /\ block.header.hash = BlockHash(n)
               /\ block.header.timestamp = t
               /\ Len(body.txs) \in Nat
               /\ DOMAIN body.txs = 1..Len(body.txs)
               /\ block.transactions = [i \in 1..Len(body.txs) |-> block.transactions[i]]
<1> DEFINE execs == [i \in DOMAIN body.txs |-> InBlock(body.txs[i], n, t)]
           txs == [i \in 1..Len(execs) |->
                     TransactionFromExecution(execs[i], BlockHash(n), i - 1, LogsBefore(execs, i))]
           block == MinedBlock(n, t, body)
<1>1. Len(body.txs) \in Nat /\ DOMAIN body.txs = 1..Len(body.txs)
  BY BodyAssumption DEF IsSequence
<1>2. Len(execs) = Len(body.txs)
  BY <1>1, LenOf, Zenon
<1>3. block = BlockFromPending(n, t, execs)
  BY Zenon DEF MinedBlock
<1> HIDE DEF execs, block
<1>4. /\ block.header.number = n /\ block.header.hash = BlockHash(n) /\ block.header.timestamp = t
      /\ block.transactions = txs
  BY <1>3, Zenon DEF BlockFromPending, NewBlock, NewHeader
<1>5. block.transactions = [i \in 1..Len(body.txs) |-> block.transactions[i]]
  BY <1>2, <1>4, Zenon
<1>6. QED
  BY <1>1, <1>4, <1>5, Zenon DEF block

\* The transactions of a block that is mined from a body.
LEMMA MinedTransaction ==
    ASSUME NEW n, NEW t, NEW body \in Bodies, NEW i \in 1..Len(body.txs)
    PROVE  LET tx == MinedBlock(n, t, body).transactions[i]
           IN  /\ IsExecution(tx.execution)
               /\ tx.execution.number = n
               /\ tx.execution.hash = body.txs[i].hash
               /\ tx.mined.block_hash = BlockHash(n)
<1> DEFINE execs == [j \in DOMAIN body.txs |-> InBlock(body.txs[j], n, t)]
           e == body.txs[i]
           tx == MinedBlock(n, t, body).transactions[i]
<1>1. Len(body.txs) \in Nat /\ DOMAIN body.txs = 1..Len(body.txs)
  BY BodyAssumption DEF IsSequence
<1>2. Len(execs) = Len(body.txs)
  BY <1>1, LenOf, Zenon
<1>3. IsExecution(e)
  BY <1>1, BodyAssumption, Zenon
<1>4. execs[i] = InBlock(e, n, t)
  BY <1>1, Zenon
<1> HIDE DEF e, execs
<1>5. IsExecution(execs[i]) /\ execs[i].number = n /\ execs[i].hash = e.hash
  BY <1>3, <1>4, Placed
<1>6. tx = BlockFromPending(n, t, execs).transactions[i]
  BY Zenon DEF MinedBlock, execs
<1> HIDE DEF tx
<1>7. tx = TransactionFromExecution(execs[i], BlockHash(n), i - 1, LogsBefore(execs, i))
  BY <1>2, <1>6, Zenon DEF BlockFromPending, NewBlock, NewHeader
<1>8. tx.execution = execs[i] /\ tx.mined.block_hash = BlockHash(n)
  BY <1>7, Zenon DEF TransactionFromExecution
<1>9. QED
  BY <1>5, <1>8, Zenon DEF e, tx

\* A mined block can be stored.
LEMMA MinedStorable ==
    ASSUME NEW n \in 0..MaxBlock, NEW t \in 0..MaxTime, NEW body \in Bodies
    PROVE  LET entry == [block |-> MinedBlock(n, t, body), changes |-> body.changes]
           IN  Storable(n, entry)
<1> DEFINE block == MinedBlock(n, t, body)
           stored == BlockToRocks(block)
           read == BlockFromRocks(stored)
           k == Len(body.txs)
<1>1. n \in Nat /\ t \in Nat
  BY BoundAssumption
<1>2. /\ block.header.number = n /\ block.header.hash = BlockHash(n) /\ block.header.timestamp = t
      /\ k \in Nat /\ DOMAIN body.txs = 1..k
      /\ block.transactions = [i \in 1..k |-> block.transactions[i]]
  BY MinedForm
<1>3. \A i \in 1..k :
        LET tx == block.transactions[i]
        IN  /\ IsExecution(tx.execution)
            /\ tx.execution.number = n
            /\ tx.execution.hash = body.txs[i].hash
            /\ tx.mined.block_hash = BlockHash(n)
  BY MinedTransaction
<1>4. read # None /\ stored # None
  BY NoneAssumption, Zenon
<1>5. DOMAIN block.transactions = 1..k
  BY <1>2, Zenon
<1>6. \A i \in 1..k : block.transactions[i].mined.first_log_index \in Nat
  BY <1>5, IndexAssumption, Zenon
<1> HIDE DEF block, k
<1>7. /\ stored.header = block.header
      /\ stored.transactions = [i \in 1..k |-> TransactionToRocks(block.transactions[i])]
  BY <1>5, Zenon DEF BlockToRocks
<1> HIDE DEF stored
<1>8. /\ read.header = block.header
      /\ read.transactions = [i \in 1..k |->
           TransactionFromRocks(TransactionToRocks(block.transactions[i]), n, BlockHash(n))]
  BY <1>2, <1>7, Zenon DEF BlockFromRocks
<1> HIDE DEF read
<1>9. Len(read.transactions) = k /\ Len(block.transactions) = k
  <2>1. read.transactions = [i \in 1..k |-> read.transactions[i]]
    BY <1>8, Zenon
  <2>2. QED
    BY <1>2, <2>1, LenOf, Zenon
<1>10. ASSUME NEW i \in DOMAIN block.transactions
       PROVE  LET r == read.transactions[i]
                  b == block.transactions[i]
              IN  /\ r.execution = b.execution
                  /\ r.mined.index = b.mined.index
                  /\ r.mined.block_hash = b.mined.block_hash
                  /\ b.execution.logs # <<>> => r.mined.first_log_index = b.mined.first_log_index
  <2>1. i \in 1..k
    BY <1>5, Zenon
  <2>2. read.transactions[i]
          = TransactionFromRocks(TransactionToRocks(block.transactions[i]),
                                 block.transactions[i].execution.number, BlockHash(n))
    BY <1>3, <1>8, <2>1, Zenon
  <2>3. /\ IsExecution(block.transactions[i].execution)
        /\ block.transactions[i].mined.first_log_index \in Nat
        /\ block.transactions[i].mined.block_hash = BlockHash(n)
    BY <1>3, <1>6, <2>1, Zenon
  <2> DEFINE r == TransactionFromRocks(TransactionToRocks(block.transactions[i]),
                                       block.transactions[i].execution.number, BlockHash(n))
             b == block.transactions[i]
  <2>4. /\ r.execution = b.execution
        /\ r.mined.index = b.mined.index
        /\ r.mined.block_hash = BlockHash(n)
        /\ b.execution.logs # <<>> => r.mined.first_log_index = b.mined.first_log_index
    BY <2>3, TransactionRoundTrip, Zenon
  <2> HIDE DEF r
  <2>5. read.transactions[i] = r
    BY <2>2, Zenon DEF r
  <2>6. QED
    BY <2>3, <2>4, <2>5, Zenon
<1>11. SameBlock(read, block)
  BY <1>4, <1>8, <1>9, <1>10, Zenon DEF SameBlock
<1>12. \A i, j \in 1..k : block.transactions[i].execution.hash = block.transactions[j].execution.hash => i = j
  BY <1>2, <1>3, BodyAssumption
<1>13. body.changes # None
  BY NoneAssumption, Zenon
<1>14. QED
  BY <1>1, <1>2, <1>4, <1>5, <1>11, <1>12, <1>13 DEF Storable, block, stored, read

\* The genesis block can be stored.
LEMMA GenesisStorable ==
    ASSUME NEW b \in Builds
    PROVE  Storable(0, [block |-> GenesisBlockOf(b.file), changes |-> NoChanges])
<1> DEFINE block == GenesisBlockOf(b.file)
           read == BlockFromRocks(BlockToRocks(block))
<1>1. /\ block.header.number = 0 /\ block.header.hash = BlockHash(0) /\ block.transactions = <<>>
  BY Zenon DEF GenesisBlockOf, ToGenesisBlock, NewBlock, NewHeader
<1>2. block.header.timestamp \in Nat /\ read # None /\ NoChanges # None /\ BlockToRocks(block) # None
  BY GenesisAssumption, NoneAssumption, Zenon DEF NoChanges
<1> HIDE DEF block
<1>3. DOMAIN block.transactions = {}
  BY <1>1
<1>4. read.header = block.header /\ read.transactions = <<>>
  BY <1>3 DEF BlockFromRocks, BlockToRocks
<1> HIDE DEF read
<1>5. SameBlock(read, block)
  BY <1>1, <1>2, <1>3, <1>4, Zenon DEF SameBlock
<1>6. QED
  BY <1>1, <1>2, <1>3, <1>5, Zenon DEF Storable, block, read

(***************************************************************************)
(* The families.                                                           *)
(***************************************************************************)
Finding == {"blocks_by_number", "block_changes", "blocks_by_hash", "transactions", "blocks_by_timestamp"}

\* Only the families that find blocks and transactions matter, and the accepted blocks.
LEMMA ChainFrame ==
    ASSUME NEW cfs, NEW g, NEW cfs2, NEW g2, Chain(cfs, g),
           g2.blocks = g.blocks, \A cf \in Finding : cfs2[cf] = cfs[cf]
    PROVE  Chain(cfs2, g2)
<1>1. /\ cfs2.blocks_by_number = cfs.blocks_by_number /\ cfs2.block_changes = cfs.block_changes
      /\ cfs2.blocks_by_hash = cfs.blocks_by_hash /\ cfs2.transactions = cfs.transactions
      /\ cfs2.blocks_by_timestamp = cfs.blocks_by_timestamp
  BY Zenon DEF Finding
<1>2. Numbers(g2) = Numbers(g) /\ \A n : TimeOf(g2, n) = TimeOf(g, n)
  BY Zenon DEF Numbers, TimeOf
<1>3. ByNumber(cfs2, g2)
  BY <1>1, <1>2, Zenon DEF Chain, ByNumber
<1>4. ByHash(cfs2, g2) /\ ByTransaction(cfs2, g2)
  <2>1. \A n, i : HashAt(g2, n, i) = HashAt(g, n, i)
    BY Zenon DEF HashAt
  <2>2. QED
    BY <1>1, <1>2, <2>1 DEF Chain, ByHash, ByTransaction
<1>5. ByTime(cfs2, g2)
  <2>1. {TimeOf(g2, n) : n \in Numbers(g2)} = {TimeOf(g, n) : n \in Numbers(g)}
    BY <1>2, Zenon
  <2>2. QED
    BY <1>1, <1>2, <2>1, Zenon DEF Chain, ByTime
<1>6. QED
  BY <1>2, <1>3, <1>4, <1>5, Zenon DEF Chain

\* Without blocks there is nothing to find.
LEMMA EmptyChain ==
    ASSUME NEW cfs, NEW g, g.blocks = <<>>,
           DOMAIN cfs.blocks_by_number = {}, DOMAIN cfs.blocks_by_timestamp = {}
    PROVE  Chain(cfs, g)
<1>1. IsSequence(g.blocks) /\ Len(g.blocks) = 0
  BY DEF IsSequence
<1>2. Numbers(g) = {}
  BY <1>1 DEF Numbers
<1>3. {TimeOf(g, n) : n \in Numbers(g)} = {}
  BY <1>2, Zenon
<1>4. QED
  BY <1>1, <1>2, <1>3, BoundAssumption DEF Chain, ByNumber, ByHash, ByTransaction, ByTime

\* One element more.
LEMMA Appended ==
    ASSUME NEW s, s \in Seq(Range(s)), NEW e
    PROVE  Append(s, e) # <<>> /\ Len(Append(s, e)) = Len(s) + 1
<1> DEFINE S == Range(s) \cup {e}
<1>1. s \in Seq(S) /\ e \in S
  BY SeqWithin, Zenon
<1> HIDE DEF S
<1>2. QED
  BY <1>1, SeqAppend

\* Every sequence is one over its own elements.
LEMMA AnySequence ==
    ASSUME NEW S, NEW s \in Seq(S)
    PROVE  IsSequence(s)
<1>1. s \in [1..Len(s) -> S] /\ Len(s) \in Nat
  BY SeqFunction, Zenon
<1>2. s \in [1..Len(s) -> Range(s)]
  BY <1>1, Zenon DEF Range
<1>3. QED
  BY <1>1, <1>2 DEF IsSequence

\* The families, by name.
LEMMA Families ==
    FamilyNames = {"accounts", "accounts_history", "account_slots", "account_slots_history",
                   "transactions", "blocks_by_number", "blocks_by_hash", "blocks_by_timestamp",
                   "block_changes"}
<1>1. DOMAIN ResetOrder = 1..8
  BY DEF ResetOrder
<1>2. 1..8 = {1, 2, 3, 4, 5, 6, 7, 8}
  OBVIOUS
<1>3. Range(ResetOrder) = {ResetOrder[i] : i \in {1, 2, 3, 4, 5, 6, 7, 8}}
  BY <1>1, <1>2, Zenon DEF Range
<1>4. QED
  BY <1>3 DEF FamilyNames, ResetOrder

\* The batch of a block that can be stored as the next one (save_block).
LEMMA ChainExtends ==
    ASSUME NEW cfs, NEW g, NEW entry, IsGhost(g), DOMAIN cfs = FamilyNames, Chain(cfs, g),
           Len(g.blocks) <= MaxBlock, Storable(Len(g.blocks), entry),
           \A i \in DOMAIN entry.block.transactions :
               entry.block.transactions[i].execution.hash \notin DOMAIN cfs.transactions
    PROVE  Chain(ExecutionChanges(BlockInsertion(cfs, entry.block), Len(g.blocks), entry.changes),
                 [g EXCEPT !.blocks = Append(@, entry)])
<1> DEFINE k == Len(g.blocks)
           block == entry.block
           cfs2 == ExecutionChanges(BlockInsertion(cfs, block), k, entry.changes)
           g2 == [g EXCEPT !.blocks = Append(@, entry)]
           hashes == {block.transactions[i].execution.hash : i \in DOMAIN block.transactions}
<1>1. k \in Nat /\ g.blocks \in Seq(Range(g.blocks))
  BY DEF Chain, IsSequence
<1>2. g2.blocks = Append(g.blocks, entry)
  BY Zenon DEF IsGhost
<1> DEFINE S == Range(g.blocks) \cup {entry}
<1>3. g.blocks \in Seq(S) /\ entry \in S
  BY <1>1, SeqWithin, Zenon
<1>4. /\ g2.blocks \in Seq(S) /\ Len(g2.blocks) = k + 1
      /\ g2.blocks[k + 1] = entry /\ \A i \in 1..k : g2.blocks[i] = g.blocks[i]
  BY <1>2, <1>3, SeqAppend
<1>5. IsSequence(g2.blocks)
  BY <1>4, AnySequence, Zenon
<1>6. block.header.number = k /\ block.header.hash = BlockHash(k) /\ block.header.timestamp \in Nat
  BY Zenon DEF Storable
<1>7. /\ cfs2.blocks_by_number = Insert(cfs.blocks_by_number, One(k, BlockToRocks(block)))
      /\ cfs2.blocks_by_hash = Insert(cfs.blocks_by_hash, One(BlockHash(k), k))
      /\ cfs2.blocks_by_timestamp = Insert(cfs.blocks_by_timestamp, One(block.header.timestamp, k))
      /\ cfs2.transactions = Insert(cfs.transactions, [h \in hashes |-> k])
      /\ cfs2.block_changes = Insert(cfs.block_changes, One(k, entry.changes))
  BY <1>6, Families DEF ExecutionChanges, BlockInsertion
<1> DEFINE time == block.header.timestamp
<1> HIDE DEF g2, cfs2, k, S, block, time
<1>71. /\ DOMAIN cfs2.blocks_by_number = {k} \cup DOMAIN cfs.blocks_by_number
       /\ cfs2.blocks_by_number[k] = BlockToRocks(block)
       /\ \A x \in DOMAIN cfs.blocks_by_number \ {k} : cfs2.blocks_by_number[x] = cfs.blocks_by_number[x]
  BY <1>7 DEF Insert, One
<1>72. /\ DOMAIN cfs2.block_changes = {k} \cup DOMAIN cfs.block_changes
       /\ cfs2.block_changes[k] = entry.changes
       /\ \A x \in DOMAIN cfs.block_changes \ {k} : cfs2.block_changes[x] = cfs.block_changes[x]
  BY <1>7, Zenon DEF Insert, One
<1>73. /\ DOMAIN cfs2.blocks_by_hash = {BlockHash(k)} \cup DOMAIN cfs.blocks_by_hash
       /\ cfs2.blocks_by_hash[BlockHash(k)] = k
       /\ \A x \in DOMAIN cfs.blocks_by_hash \ {BlockHash(k)} : cfs2.blocks_by_hash[x] = cfs.blocks_by_hash[x]
  BY <1>7 DEF Insert, One
<1>74. /\ DOMAIN cfs2.blocks_by_timestamp = {time} \cup DOMAIN cfs.blocks_by_timestamp
       /\ cfs2.blocks_by_timestamp[time] = k
       /\ \A x \in DOMAIN cfs.blocks_by_timestamp \ {time} :
            cfs2.blocks_by_timestamp[x] = cfs.blocks_by_timestamp[x]
  BY <1>7 DEF Insert, One, time
<1>75. /\ DOMAIN cfs2.transactions = hashes \cup DOMAIN cfs.transactions
       /\ \A h \in hashes : cfs2.transactions[h] = k
       /\ \A h \in DOMAIN cfs.transactions \ hashes : cfs2.transactions[h] = cfs.transactions[h]
  <2> DEFINE entries == [h \in hashes |-> k]
  <2>1. DOMAIN entries = hashes /\ \A h \in hashes : entries[h] = k
    BY Zenon
  <2> HIDE DEF entries, hashes
  <2>2. cfs2.transactions = Insert(cfs.transactions, entries)
    BY <1>7, Zenon DEF entries
  <2>3. QED
    BY <2>1, <2>2, Zenon DEF Insert
<1>8. /\ Numbers(g2) = Numbers(g) \cup {k} /\ Numbers(g) = 0..(k - 1)
      /\ \A n \in Numbers(g) : n \in Nat /\ n < k /\ n + 1 \in 1..k /\ g2.blocks[n + 1] = g.blocks[n + 1]
  BY <1>1, <1>4 DEF Numbers, k
<1>9. \A n \in Numbers(g2) : Storable(n, g2.blocks[n + 1])
  BY <1>4, <1>8, Zenon DEF Chain, k
<1>10. ByNumber(cfs2, g2)
  <2>1. DOMAIN cfs2.blocks_by_number = Numbers(g2)
    BY <1>8, <1>71, Zenon DEF Chain, ByNumber
  <2>2. ASSUME NEW n \in Numbers(g2)
        PROVE  /\ cfs2.blocks_by_number[n] = BlockToRocks(g2.blocks[n + 1].block)
               /\ n \in DOMAIN cfs2.block_changes
               /\ cfs2.block_changes[n] = g2.blocks[n + 1].changes
    <3>1. CASE n = k
      BY <1>4, <1>71, <1>72, <3>1, Zenon DEF block
    <3>2. CASE n \in Numbers(g)
      <4>1. n \in DOMAIN cfs.blocks_by_number \ {k} /\ n \in DOMAIN cfs.block_changes \ {k}
        BY <1>8, <3>2 DEF Chain, ByNumber
      <4>2. /\ cfs2.blocks_by_number[n] = cfs.blocks_by_number[n]
            /\ n \in DOMAIN cfs2.block_changes
            /\ cfs2.block_changes[n] = cfs.block_changes[n]
        BY <1>71, <1>72, <4>1, Zenon
      <4>3. QED
        BY <1>8, <3>2, <4>2, Zenon DEF Chain, ByNumber
    <3>3. QED
      BY <1>8, <3>1, <3>2, Zenon
  <2>3. QED
    BY <2>1, <2>2, Zenon DEF ByNumber
<1>11. ByHash(cfs2, g2)
  <2>1. ASSUME NEW n \in Numbers(g2)
        PROVE  /\ BlockHash(n) \in DOMAIN cfs2.blocks_by_hash
               /\ cfs2.blocks_by_hash[BlockHash(n)] = n
    <3>1. CASE n = k
      BY <1>73, <3>1, Zenon
    <3>2. CASE n \in Numbers(g)
      <4>1. BlockHash(n) # BlockHash(k)
        BY <1>8, <3>2 DEF BlockHash
      <4>2. BlockHash(n) \in DOMAIN cfs.blocks_by_hash /\ cfs.blocks_by_hash[BlockHash(n)] = n
        BY <3>2, Zenon DEF Chain, ByHash
      <4>3. QED
        BY <1>73, <4>1, <4>2, Zenon
    <3>3. QED
      BY <1>8, <3>1, <3>2, Zenon
  <2>2. QED
    BY <2>1, Zenon DEF ByHash
<1>16. ByTransaction(cfs2, g2)
  <2>1. hashes \cap DOMAIN cfs.transactions = {}
    BY Zenon DEF block
  <2>2. ASSUME NEW n \in Numbers(g2), NEW i \in DOMAIN g2.blocks[n + 1].block.transactions
        PROVE  HashAt(g2, n, i) \in DOMAIN cfs2.transactions /\ cfs2.transactions[HashAt(g2, n, i)] = n
    <3>1. CASE n = k
      <4>1. g2.blocks[n + 1] = entry
        BY <1>4, <3>1, Zenon
      <4>2. HashAt(g2, n, i) \in hashes
        BY <4>1, Zenon DEF HashAt, block
      <4>3. QED
        BY <1>75, <3>1, <4>2, Zenon
    <3>2. CASE n \in Numbers(g)
      <4>1. g2.blocks[n + 1] = g.blocks[n + 1]
        BY <1>8, <3>2, Zenon
      <4>2. HashAt(g2, n, i) = HashAt(g, n, i) /\ i \in DOMAIN g.blocks[n + 1].block.transactions
        BY <4>1, Zenon DEF HashAt
      <4>3. HashAt(g, n, i) \in DOMAIN cfs.transactions /\ cfs.transactions[HashAt(g, n, i)] = n
        BY <3>2, <4>2, Zenon DEF Chain, ByTransaction
      <4> HIDE DEF hashes
      <4>4. QED
        BY <1>75, <2>1, <4>2, <4>3, Zenon
    <3>3. QED
      BY <1>8, <3>1, <3>2, Zenon
  <2>3. QED
    BY <2>2, Zenon DEF ByTransaction
<1>12. ByTime(cfs2, g2)
  <2>2. TimeOf(g2, k) = time /\ \A n \in Numbers(g) : TimeOf(g2, n) = TimeOf(g, n)
    BY <1>4, <1>8, Zenon DEF TimeOf, block, time
  <2>3. {TimeOf(g2, n) : n \in Numbers(g2)} = {time} \cup {TimeOf(g, n) : n \in Numbers(g)}
    BY <1>8, <2>2, Zenon
  <2>4. DOMAIN cfs2.blocks_by_timestamp = {TimeOf(g2, n) : n \in Numbers(g2)}
    BY <1>74, <2>3, Zenon DEF Chain, ByTime
  <2>5. ASSUME NEW n \in Numbers(g2)
        PROVE  LET last == cfs2.blocks_by_timestamp[TimeOf(g2, n)]
               IN  last \in Numbers(g2) /\ TimeOf(g2, last) = TimeOf(g2, n) /\ n <= last
    <3>1. CASE TimeOf(g2, n) = time
      BY <1>1, <1>8, <1>74, <2>2, <3>1 DEF k
    <3>2. CASE TimeOf(g2, n) # time
      <4>1. n \in Numbers(g) /\ TimeOf(g2, n) = TimeOf(g, n)
        BY <1>8, <2>2, <3>2, Zenon
      <4>2. TimeOf(g, n) \in DOMAIN cfs.blocks_by_timestamp \ {time}
        BY <3>2, <4>1, Zenon DEF Chain, ByTime
      <4>3. QED
        BY <1>8, <1>74, <2>2, <4>1, <4>2, Zenon DEF Chain, ByTime
    <3>3. QED
      BY <3>1, <3>2, Zenon
  <2>6. QED
    BY <2>4, <2>5, Zenon DEF ByTime
<1>13. Len(g2.blocks) <= MaxBlock + 1
  BY <1>1, <1>4, BoundAssumption DEF k
<1>14. Chain(cfs2, g2)
  BY <1>5, <1>9, <1>10, <1>11, <1>12, <1>13, <1>16, Zenon DEF Chain
<1>15. QED
  BY <1>14, Zenon DEF g2, cfs2, k, block

(***************************************************************************)
(* The reads.                                                              *)
(***************************************************************************)
\* The blocks of the ghost by their number.
LEMMA MinedBlocks ==
    ASSUME Chain(db, ghost)
    PROVE  /\ Len(ghost.blocks) \in Nat
           /\ Blocks = Numbers(ghost)
           /\ \A n \in Blocks : n \in Nat /\ n # None /\ n + 1 \in DOMAIN ghost.blocks
           /\ \A n \in Blocks : Mined(n) = ghost.blocks[n + 1].block
           /\ \A n \in Blocks : Storable(n, ghost.blocks[n + 1])
<1>1. Len(ghost.blocks) \in Nat /\ DOMAIN ghost.blocks = 1..Len(ghost.blocks)
  BY DEF Chain, IsSequence
<1>2. Blocks = Numbers(ghost)
  BY <1>1, BoundAssumption DEF Chain, Blocks, Numbers
<1>3. \A n \in Blocks : n \in Nat /\ n # None /\ n + 1 \in DOMAIN ghost.blocks
  BY <1>1, NoneAssumption DEF Blocks
<1>4. QED
  BY <1>1, <1>2, <1>3, Zenon DEF Chain, Mined

LEMMA EndsFound ==
    ASSUME Chain(db, ghost), ghost.blocks # <<>>
    PROVE  /\ LastMined \in Blocks /\ 0 \in Blocks
           /\ BlockNumberOf([by |-> "latest"]) = LastMined
           /\ BlockNumberOf([by |-> "earliest"]) = 0
<1>1. Len(ghost.blocks) \in Nat /\ Len(ghost.blocks) > 0 /\ Blocks = 0..(Len(ghost.blocks) - 1)
  BY MinedBlocks, SeqEmpty DEF Chain, IsSequence, Numbers
<1>2. DOMAIN db.blocks_by_number = 0..(Len(ghost.blocks) - 1)
  BY Zenon DEF Chain, ByNumber, Numbers
<1>3. LastKey(db.blocks_by_number) = LastMined /\ FirstKey(db.blocks_by_number) = 0
  BY <1>1, <1>2, EndsOfRange, Zenon DEF LastMined
<1>4. QED
  BY <1>1, <1>3 DEF BlockNumberOf, LastMined

\* What the invariant says about the reads.
LEMMA InvLookups ==
    ASSUME StorageInv
    PROVE  LookupsAgree
\* A block that is found by any filter is the one with that number, as it was mined.
<1>FoundBlock. ASSUME Chain(db, ghost), NEW filter, NEW n \in Blocks, BlockNumberOf(filter) = n
               PROVE  /\ ReadBlock(filter) = BlockFromRocks(BlockToRocks(Mined(n)))
                      /\ SameBlock(ReadBlock(filter), Mined(n))
  <2> USE <1>FoundBlock
  <2>1. /\ n \in Numbers(ghost) /\ n # None
        /\ Mined(n) = ghost.blocks[n + 1].block /\ Storable(n, ghost.blocks[n + 1])
    BY MinedBlocks, Zenon
  <2>2. n \in DOMAIN db.blocks_by_number /\ db.blocks_by_number[n] = BlockToRocks(Mined(n))
    BY <2>1, Zenon DEF Chain, ByNumber
  <2>3. ReadBlock(filter) = BlockFromRocks(BlockToRocks(Mined(n)))
    BY <2>1, <2>2, Zenon DEF ReadBlock
  <2>4. QED
    BY <2>1, <2>3, Zenon DEF Storable
\* By number, by hash, the first and the last.
<1>NumbersFound. ASSUME Chain(db, ghost), NEW n \in Blocks
                 PROVE  /\ BlockNumberOf([by |-> "number", number |-> n]) = n
                        /\ BlockNumberOf([by |-> "hash", hash |-> Mined(n).header.hash]) = n
  <2> USE <1>NumbersFound
  <2>1. n \in Numbers(ghost) /\ Mined(n).header.hash = BlockHash(n)
    BY MinedBlocks, Zenon DEF Storable
  <2>2. BlockHash(n) \in DOMAIN db.blocks_by_hash /\ db.blocks_by_hash[BlockHash(n)] = n
    BY <2>1, Zenon DEF Chain, ByHash
  <2>3. BlockNumberOf([by |-> "number", number |-> n]) = n
    BY Zenon DEF BlockNumberOf
  <2>4. BlockNumberOf([by |-> "hash", hash |-> BlockHash(n)]) = Get(db.blocks_by_hash, BlockHash(n))
    BY Zenon DEF BlockNumberOf
  <2>5. QED
    BY <2>1, <2>2, <2>3, <2>4, Zenon DEF Get
\* The changes of a block.
<1>ChangesFound. ASSUME Chain(db, ghost), NEW n \in Blocks
                 PROVE  ReadBlockWithChanges([by |-> "number", number |-> n]).changes = ghost.blocks[n + 1].changes
  <2> USE <1>ChangesFound
  <2> DEFINE block == ReadBlock([by |-> "number", number |-> n])
  <2>1. SameBlock(block, Mined(n))
    BY <1>NumbersFound, <1>FoundBlock, Zenon
  <2>2. block # None /\ block.header = Mined(n).header
    BY <2>1, Zenon DEF SameBlock
  <2>3. block.header.number = n /\ ghost.blocks[n + 1].changes # None /\ n \in Numbers(ghost)
    BY <2>2, MinedBlocks, Zenon DEF Storable
  <2>4. n \in DOMAIN db.block_changes /\ db.block_changes[n] = ghost.blocks[n + 1].changes
    BY <2>3, Zenon DEF Chain, ByNumber
  <2> HIDE DEF block
  <2>5. Get(db.block_changes, block.header.number) = ghost.blocks[n + 1].changes
    BY <2>3, <2>4, Zenon DEF Get
  <2>6. QED
    BY <2>2, <2>3, <2>5, Zenon DEF ReadBlockWithChanges, block
\* A mined transaction, by its hash.
<1>TransactionFound. ASSUME Chain(db, ghost), NEW n \in Blocks, NEW i \in DOMAIN Mined(n).transactions
                     PROVE  ReadTransaction(Mined(n).transactions[i].execution.hash)
                              = ReadBlock([by |-> "number", number |-> n]).transactions[i]
  <2> USE <1>TransactionFound
  <2> DEFINE hash == Mined(n).transactions[i].execution.hash
             stored == BlockToRocks(Mined(n))
             txs == Mined(n).transactions
  <2>1. /\ n \in Numbers(ghost) /\ n # None
        /\ Mined(n) = ghost.blocks[n + 1].block /\ Storable(n, ghost.blocks[n + 1])
    BY MinedBlocks, Zenon
  <2>2. hash \in DOMAIN db.transactions /\ db.transactions[hash] = n
    BY <2>1, Zenon DEF Chain, ByTransaction, HashAt
  <2>3. Get(db.blocks_by_number, n) = stored
    BY <2>1, Zenon DEF Chain, ByNumber, Get
  <2>4. /\ stored.header = Mined(n).header /\ DOMAIN stored.transactions = DOMAIN txs
        /\ \A j \in DOMAIN txs : stored.transactions[j] = TransactionToRocks(txs[j])
    BY Zenon DEF BlockToRocks
  <2>5. \A j \in DOMAIN txs : stored.transactions[j].hash = txs[j].execution.hash
    <3>1. \A tx : TransactionToRocks(tx).hash = tx.execution.hash
      BY Zenon DEF TransactionToRocks
    <3>2. QED
      BY <2>4, <3>1, Zenon
  <2>6. \A j \in DOMAIN txs : txs[j].execution.hash = hash => j = i
    BY <2>1, Zenon DEF Storable
  <2> HIDE DEF stored
  <2>7. {j \in DOMAIN stored.transactions : stored.transactions[j].hash = hash} = {i}
    BY <2>4, <2>5, <2>6, Zenon
  <2>8. Min({i}) = i
    <3>1. i \in Nat
      BY <2>1, Zenon DEF Storable
    <3>2. QED
      BY <3>1 DEF Min
  <2>9. stored # None /\ stored.header.number = n
    BY <2>1, <2>4, Zenon DEF Storable, stored
  <2>10. ReadTransaction(hash) = TransactionFromRocks(stored.transactions[i], n, stored.header.hash)
    <3> DEFINE at == {j \in DOMAIN stored.transactions : stored.transactions[j].hash = hash}
    <3>1. Get(db.transactions, hash) = n /\ n # None /\ db.transactions[hash] = n
      BY <2>1, <2>2, Zenon DEF Get
    <3>2. ReadTransaction(hash)
            = IF at = {} THEN [error |-> "transaction not in its block"]
              ELSE TransactionFromRocks(stored.transactions[Min(at)], n, stored.header.hash)
      <4> HIDE DEF hash
      <4>1. QED
        BY <2>3, <2>9, <3>1, Zenon DEF ReadTransaction
    <3>3. at = {i} /\ at # {}
      BY <2>7, Zenon
    <3> HIDE DEF at, hash
    <3>4. QED
      BY <2>8, <3>2, <3>3, Zenon
  <2>11. ReadBlock([by |-> "number", number |-> n]) = BlockFromRocks(stored)
    BY <1>NumbersFound, <1>FoundBlock, Zenon DEF stored
  <2>12. BlockFromRocks(stored).transactions[i] = TransactionFromRocks(stored.transactions[i], n, stored.header.hash)
    BY <2>4, <2>9, Zenon DEF BlockFromRocks
  <2>13. QED
    BY <2>10, <2>11, <2>12, Zenon
\* The closest block in time.
<1>TimeFound. ASSUME Chain(db, ghost), NEW t \in Nat, NEW d \in {"forward", "backward"}
              PROVE  BlockNumberOf([by |-> "timestamp", timestamp |-> t, direction |-> d]) = Closest(t, d)
  <2> USE <1>TimeFound
  <2> DEFINE cf == db.blocks_by_timestamp
             On(x) == IF d = "forward" THEN x >= t ELSE x <= t
             keys == {x \in DOMAIN cf : On(x)}
             ahead == {n \in Blocks : On(Mined(n).header.timestamp)}
             times == {Mined(n).header.timestamp : n \in ahead}
             best == IF d = "forward" THEN Min(times) ELSE Max(times)
  <2>1. \A n \in Blocks : Mined(n).header.timestamp = TimeOf(ghost, n) /\ TimeOf(ghost, n) \in Nat
    BY MinedBlocks, Zenon DEF TimeOf, Storable
  <2>2. DOMAIN cf = {TimeOf(ghost, n) : n \in Blocks}
    BY MinedBlocks, Zenon DEF Chain, ByTime
  <2>3. keys = times
    BY <2>1, <2>2, Zenon
  <2>4. Closest(t, d) = IF ahead = {} THEN None ELSE Max({n \in ahead : Mined(n).header.timestamp = best})
    BY Zenon DEF Closest
  <2>5. IterFrom(cf, t, d) = IF keys = {} THEN None ELSE IF d = "forward" THEN Min(keys) ELSE Max(keys)
    BY Zenon DEF IterFrom
  <2>6. BlockNumberOf([by |-> "timestamp", timestamp |-> t, direction |-> d])
          = IF IterFrom(cf, t, d) = None THEN None ELSE cf[IterFrom(cf, t, d)]
    BY Zenon DEF BlockNumberOf
  <2>7. times = {} <=> ahead = {}
    BY Zenon
  <2>8. CASE ahead = {}
    BY <2>3, <2>4, <2>5, <2>6, <2>7, <2>8, Zenon
  <2>9. CASE ahead # {}
    <3>1. times \subseteq Nat /\ times # {}
      BY <2>1, <2>7, <2>9, Zenon
    <3>2. d # "forward" => \A x \in times : x <= t
      BY Zenon
    <3>3. best \in times
      BY <3>1, <3>2, LeastNumber, GreatestNumber, Zenon
    <3>4. PICK n \in ahead : Mined(n).header.timestamp = best
      BY <3>3, Zenon
    <3> DEFINE last == cf[best]
    <3>5. n \in Blocks /\ TimeOf(ghost, n) = best
      BY <2>1, <3>4, Zenon
    <3>6. /\ last \in Blocks /\ TimeOf(ghost, last) = best
          /\ \A m \in Blocks : TimeOf(ghost, m) = best => m <= last
      BY <3>5, MinedBlocks, Zenon DEF Chain, ByTime
    <3> HIDE DEF last
    <3> DEFINE S == {m \in ahead : Mined(m).header.timestamp = best}
    <3>7. last \in S /\ S \subseteq Nat /\ \A m \in S : m <= last
      BY <2>1, <3>4, <3>6, MinedBlocks, Zenon
    <3>8. Max(S) = last
      BY <3>7, MaxIs, Zenon
    <3>9. IterFrom(cf, t, d) = best /\ best # None
      BY <2>3, <2>5, <3>1, <3>3, NoneAssumption, Zenon
    <3>10. QED
      BY <2>4, <2>6, <2>9, <3>8, <3>9, Zenon DEF last
  <2>10. QED
    BY <2>8, <2>9, Zenon
<1> SUFFICES ASSUME ~ghost.torn, ghost.blocks # <<>>
             PROVE  /\ \A n \in Blocks :
                          /\ SameBlock(ReadBlock([by |-> "number", number |-> n]), Mined(n))
                          /\ SameBlock(ReadBlock([by |-> "hash", hash |-> Mined(n).header.hash]), Mined(n))
                          /\ ReadBlockWithChanges([by |-> "number", number |-> n]).changes
                               = ghost.blocks[n + 1].changes
                          /\ \A i \in DOMAIN Mined(n).transactions :
                               ReadTransaction(Mined(n).transactions[i].execution.hash)
                                 = ReadBlock([by |-> "number", number |-> n]).transactions[i]
                    /\ SameBlock(ReadBlock([by |-> "latest"]), Mined(LastMined))
                    /\ SameBlock(ReadBlock([by |-> "earliest"]), Mined(0))
                    /\ \A t \in 0..MaxTime, d \in {"forward", "backward"} :
                          BlockNumberOf([by |-> "timestamp", timestamp |-> t, direction |-> d]) = Closest(t, d)
  BY Zenon DEF LookupsAgree
<1>1. Chain(db, ghost)
  BY Zenon DEF StorageInv, Genuine
<1>2. ASSUME NEW n \in Blocks
      PROVE  /\ SameBlock(ReadBlock([by |-> "number", number |-> n]), Mined(n))
             /\ SameBlock(ReadBlock([by |-> "hash", hash |-> Mined(n).header.hash]), Mined(n))
             /\ ReadBlockWithChanges([by |-> "number", number |-> n]).changes = ghost.blocks[n + 1].changes
             /\ \A i \in DOMAIN Mined(n).transactions :
                  ReadTransaction(Mined(n).transactions[i].execution.hash)
                    = ReadBlock([by |-> "number", number |-> n]).transactions[i]
  <2>1. /\ SameBlock(ReadBlock([by |-> "number", number |-> n]), Mined(n))
        /\ SameBlock(ReadBlock([by |-> "hash", hash |-> Mined(n).header.hash]), Mined(n))
    BY <1>1, <1>NumbersFound, <1>FoundBlock, Zenon
  <2>2. ReadBlockWithChanges([by |-> "number", number |-> n]).changes = ghost.blocks[n + 1].changes
    BY <1>1, <1>ChangesFound, Zenon
  <2>3. \A i \in DOMAIN Mined(n).transactions :
           ReadTransaction(Mined(n).transactions[i].execution.hash)
             = ReadBlock([by |-> "number", number |-> n]).transactions[i]
    BY <1>1, <1>TransactionFound, Zenon
  <2>4. QED
    BY <2>1, <2>2, <2>3, Zenon
<1>3. /\ SameBlock(ReadBlock([by |-> "latest"]), Mined(LastMined))
      /\ SameBlock(ReadBlock([by |-> "earliest"]), Mined(0))
  BY <1>1, EndsFound, <1>FoundBlock, Zenon
<1>4. \A t \in 0..MaxTime, d \in {"forward", "backward"} :
         BlockNumberOf([by |-> "timestamp", timestamp |-> t, direction |-> d]) = Closest(t, d)
  <2>1. 0..MaxTime \subseteq Nat
    BY BoundAssumption
  <2>2. QED
    BY <1>1, <2>1, <1>TimeFound, Zenon
<1>5. QED
  BY <1>2, <1>3, <1>4, Zenon

(***************************************************************************)
(* Steps.                                                                  *)
(***************************************************************************)
LEMMA InitStorage ==
    ASSUME Init
    PROVE  StorageInv
<1>1. /\ DOMAIN db = FamilyNames /\ \A cf \in FamilyNames : db[cf] = Empty
      /\ disk.db = db /\ disk.ghost = ghost /\ disk = [db |-> disk.db, ghost |-> disk.ghost]
  BY Zenon DEF Init
<1>2. ghost.blocks = <<>> /\ ghost.torn = FALSE /\ IsGhost(ghost)
  BY Zenon DEF Init, NoGhost, IsGhost
<1>3. job.op = "down"
  BY Zenon DEF Init, Down
<1>4. Shapes
  BY <1>1, <1>2, <1>3, Zenon DEF Init, Shapes, IsJob
<1>5. DOMAIN db.blocks_by_number = {} /\ DOMAIN db.blocks_by_timestamp = {}
  BY <1>1, Families, Zenon DEF Empty
<1>6. Chain(db, ghost)
  BY <1>2, <1>5, EmptyChain, Zenon
<1>7. QED
  BY <1>1, <1>3, <1>4, <1>6, Zenon DEF StorageInv, ResetInv, NumberInv

\* The number of a block that is saved is the next one.
LEMMA NextNumber ==
    ASSUME StorageInv, ~ghost.torn, job = Idle
    PROVE  NextBlockNumber = Len(ghost.blocks)
<1>1. Chain(db, ghost) /\ number = Published(ghost)
  BY Zenon DEF StorageInv, Genuine, NumberInv, Idle
<1>2. /\ ghost.blocks \in Seq(Range(ghost.blocks)) /\ Len(ghost.blocks) \in Nat
      /\ DOMAIN db.blocks_by_number = 0..(Len(ghost.blocks) - 1)
  BY <1>1 DEF Chain, IsSequence, ByNumber, Numbers
<1>3. ghost.blocks = <<>> <=> Len(ghost.blocks) = 0
  BY <1>2, SeqEmpty, Zenon
<1>4. DOMAIN db.blocks_by_number = {} <=> Len(ghost.blocks) = 0
  <2>1. Len(ghost.blocks) > 0 => 0 \in DOMAIN db.blocks_by_number
    BY <1>2
  <2>2. Len(ghost.blocks) = 0 => DOMAIN db.blocks_by_number = {}
    BY <1>2
  <2>3. Len(ghost.blocks) = 0 \/ Len(ghost.blocks) > 0
    BY <1>2
  <2>4. QED
    BY <2>1, <2>2, <2>3, Zenon
<1>5. QED
  BY <1>1, <1>2, <1>3, <1>4 DEF NextBlockNumber, Published

\* The ghost with one part replaced.
LEMMA GhostUpdate ==
    ASSUME NEW g, IsGhost(g), NEW value
    PROVE  /\ LET acc == [g EXCEPT !.blocks = value]
              IN  IsGhost(acc) /\ acc.blocks = value /\ acc.torn = g.torn
           /\ LET acc == [g EXCEPT !.accounts = value]
              IN  IsGhost(acc) /\ acc.blocks = g.blocks /\ acc.torn = g.torn
           /\ LET acc == [g EXCEPT !.edited = value]
              IN  IsGhost(acc) /\ acc.blocks = g.blocks /\ acc.torn = g.torn
           /\ value \in BOOLEAN =>
                LET acc == [g EXCEPT !.torn = value]
                IN  IsGhost(acc) /\ acc.blocks = g.blocks /\ acc.torn = value
<1>1. DOMAIN g = {"blocks", "accounts", "edited", "torn"} /\ g.torn \in BOOLEAN
  BY Zenon DEF IsGhost
<1>2. ASSUME NEW acc, acc = [x \in DOMAIN g |-> acc[x]], acc.torn \in BOOLEAN
      PROVE  IsGhost(acc)
  <2>1. acc = [blocks |-> acc.blocks, accounts |-> acc.accounts, edited |-> acc.edited, torn |-> acc.torn]
    BY <1>1, <1>2, Zenon
  <2>2. QED
    BY <1>2, <2>1, Zenon DEF IsGhost
<1>3. IsGhost([g EXCEPT !.blocks = value]) /\ IsGhost([g EXCEPT !.accounts = value])
  BY <1>1, <1>2, Zenon
<1>4. IsGhost([g EXCEPT !.edited = value]) /\ (value \in BOOLEAN => IsGhost([g EXCEPT !.torn = value]))
  BY <1>1, <1>2, Zenon
<1>5. QED
  BY <1>1, <1>3, <1>4, Zenon

LEMMA StorageStep ==
    ASSUME StorageInv, [Next]_vars
    PROVE  StorageInv'
\* A step that writes nothing.
<1>QuietStep. ASSUME StorageInv, UNCHANGED <<build, db, disk, ghost>>, IsJob', ResetInv', NumberInv',
                     Genuine' => Genuine
              PROVE  StorageInv'
  <2> USE <1>QuietStep
  <2>1. build' = build /\ db' = db /\ disk' = disk /\ ghost' = ghost
    BY Zenon
  <2>2. Shapes'
    BY <2>1, Zenon DEF StorageInv, Shapes, IsGhost
  <2>3. /\ Genuine' => Chain(db', ghost')
        /\ ~disk'.ghost.torn => Chain(disk'.db, disk'.ghost)
        /\ build'.sync /\ Genuine' => disk'.ghost.blocks = ghost'.blocks
    BY <2>1, Zenon DEF StorageInv
  <2>4. QED
    BY <2>2, <2>3, Zenon DEF StorageInv
\* A step with one write.
<1>WriteStep. ASSUME StorageInv, NEW cfs, NEW acc, NEW synced, Write(cfs, acc, synced), build' = build,
                     DOMAIN cfs = FamilyNames, IsGhost(acc),
                     ~acc.torn \/ job'.op \in {"accounts", "slots"} => Chain(cfs, acc),
                     build.sync /\ Genuine' => synced \/ (Genuine /\ acc.blocks = ghost.blocks),
                     IsJob', ResetInv', NumberInv'
              PROVE  StorageInv'
  <2> USE <1>WriteStep
  <2>1. db' = cfs /\ ghost' = acc
    BY Zenon DEF Write
  <2>2. disk' = [db |-> cfs, ghost |-> acc] \/ (~synced /\ disk' = disk)
    BY Zenon DEF Write
  <2>3. Genuine' <=> ~acc.torn \/ job'.op \in {"accounts", "slots"}
    BY <2>1, Zenon DEF Genuine
  <2>4. CASE disk' = [db |-> cfs, ghost |-> acc]
    <3>1. disk'.db = cfs /\ disk'.ghost = acc
      BY <2>4, Zenon
    <3>2. Shapes'
      BY <2>1, <2>4, <3>1, Zenon DEF StorageInv, Shapes, IsGhost
    <3>3. QED
      BY <2>1, <2>3, <3>1, <3>2, Zenon DEF StorageInv
  <2>5. CASE ~synced /\ disk' = disk
    <3>1. Shapes'
      BY <2>1, <2>5, Zenon DEF StorageInv, Shapes, IsGhost
    <3>2. build'.sync /\ Genuine' => disk'.ghost.blocks = ghost'.blocks
      BY <2>1, <2>5, Zenon DEF StorageInv
    <3>3. QED
      BY <2>1, <2>3, <2>5, <3>1, <3>2, Zenon DEF StorageInv
  <2>6. QED
    BY <2>2, <2>4, <2>5, Zenon
\* A reset starts with every family still to clear.
<1>ResetStarts. ASSUME job' = StartReset
                PROVE  job'.op = "reset" /\ IsJob' /\ ResetInv' /\ NumberInv'
  <2> USE <1>ResetStarts
  <2>1. job'.op = "reset" /\ job'.left = ResetOrder /\ job'.half = FALSE
    BY Zenon DEF StartReset
  <2>2. job' = [op |-> "reset", left |-> job'.left, half |-> job'.half]
    BY Zenon DEF StartReset
  <2>3. ResetOrder \in Seq(FamilyNames)
    <3>1. ResetOrder \in Seq({"accounts", "accounts_history", "account_slots", "account_slots_history",
                              "transactions", "blocks_by_number", "blocks_by_hash", "blocks_by_timestamp"})
      BY DEF ResetOrder
    <3>2. QED
      BY <3>1, Families, SeqWithin, Zenon
  <2>4. QED
    BY <2>1, <2>2, <2>3, Zenon DEF IsJob, ResetInv, NumberInv
<1>OpenStep. ASSUME StorageInv, Open
             PROVE  StorageInv'
  <2> USE <1>OpenStep
  <2>1. UNCHANGED <<build, db, disk, ghost>> /\ job.op = "down"
    BY Zenon DEF Open, Down
  <2>2. ghost' = ghost
    BY <2>1, Zenon
  <2>3. CASE job' = StartReset
    <3>1. job'.op = "reset" /\ IsJob' /\ ResetInv' /\ NumberInv'
      BY <2>3, <1>ResetStarts, Zenon
    <3>2. Genuine' => Genuine
      BY <2>2, <3>1, Zenon DEF Genuine
    <3>3. QED
      BY <2>1, <3>1, <3>2, <1>QuietStep, Zenon
  <2>4. CASE job' = Idle
    <3>1. job'.op = "idle"
      BY <2>4, Zenon DEF Idle
    <3>2. IsJob' /\ ResetInv'
      BY <2>4, <3>1, Zenon DEF IsJob, ResetInv
    <3>3. ASSUME ~ghost.torn
          PROVE  number' = Published(ghost)
      <4>1. Chain(db, ghost)
        BY <3>3, Zenon DEF StorageInv, Genuine
      <4>2. /\ ghost.blocks \in Seq(Range(ghost.blocks)) /\ Len(ghost.blocks) \in Nat
            /\ DOMAIN db.blocks_by_number = 0..(Len(ghost.blocks) - 1)
        BY <4>1 DEF Chain, IsSequence, ByNumber, Numbers
      <4>3. ghost.blocks = <<>> <=> Len(ghost.blocks) = 0
        BY <4>2, SeqEmpty, Zenon
      <4>4. /\ Len(ghost.blocks) = 0 => LastKey(db.blocks_by_number) = None
            /\ Len(ghost.blocks) > 0 => LastKey(db.blocks_by_number) = Len(ghost.blocks) - 1
        BY <4>2, EndsOfRange, Zenon
      <4>5. QED
        BY <4>2, <4>3, <4>4, NoneAssumption DEF Open, Published
    <3>4. NumberInv'
      BY <2>2, <3>1, <3>3, Zenon DEF NumberInv, Published
    <3>5. Genuine' => Genuine
      BY <2>2, <3>1, Zenon DEF Genuine
    <3>6. QED
      BY <2>1, <3>2, <3>4, <3>5, <1>QuietStep, Zenon
  <2>5. QED
    BY <2>3, <2>4, Zenon DEF Open
\* The timestamps blocks are mined with.
<1>TimesBounded. ASSUME Chain(db, ghost)
                 PROVE  Times \subseteq 0..MaxTime
  <2> USE <1>TimesBounded
  <2> DEFINE last == ghost.blocks[Len(ghost.blocks)].block.header.timestamp
  <2>1. CASE ghost.blocks = <<>>
    BY <2>1, BoundAssumption DEF Times
  <2>2. CASE ghost.blocks # <<>>
    <3>1. LastMined \in Blocks /\ LastMined + 1 = Len(ghost.blocks)
      BY <2>2, EndsFound, MinedBlocks DEF LastMined
    <3>2. last \in Nat
      BY <3>1, MinedBlocks, Zenon DEF Storable
    <3> HIDE DEF last
    <3>3. Times = {t \in {last, last + 1, last + 2} : t <= MaxTime}
      BY <2>2, Zenon DEF Times, last
    <3>4. QED
      BY <3>2, <3>3, BoundAssumption
  <2>3. QED
    BY <2>1, <2>2, Zenon
\* What a batch leaves of the families as a whole.
<1>BatchDomain. ASSUME NEW cfs, DOMAIN cfs = FamilyNames, NEW n, NEW block, NEW changes
                PROVE  DOMAIN ExecutionChanges(BlockInsertion(cfs, block), n, changes) = FamilyNames
  BY <1>BatchDomain, Zenon DEF ExecutionChanges, BlockInsertion
<1>SaveBlockStep. ASSUME StorageInv, NEW t \in Times, NEW body \in Bodies, SaveBlock(t, body)
                  PROVE  StorageInv'
  <2> USE <1>SaveBlockStep
  <2> DEFINE n == NextBlockNumber
             block == MinedBlock(n, t, body)
             entry == [block |-> block, changes |-> body.changes]
             cfs == ExecutionChanges(BlockInsertion(db, block), n, body.changes)
             acc == [ghost EXCEPT !.blocks = Append(@, entry)]
  <2>1. /\ job = Idle /\ n <= MaxBlock /\ Write(cfs, acc, build.sync)
        /\ \A i \in DOMAIN body.txs : body.txs[i].hash \notin DOMAIN db.transactions
        /\ job' = [op |-> "publish", number |-> n] /\ UNCHANGED <<build, number>>
    BY Zenon DEF SaveBlock
  <2>2. DOMAIN db = FamilyNames /\ IsGhost(ghost)
    BY Zenon DEF StorageInv, Shapes
  <2>3. IsGhost(acc) /\ acc.torn = ghost.torn /\ acc.blocks = Append(ghost.blocks, entry)
    <3> DEFINE bs == Append(ghost.blocks, entry)
    <3> HIDE DEF entry, bs
    <3>1. acc = [ghost EXCEPT !.blocks = bs]
      BY Zenon DEF bs
    <3>2. QED
      BY <2>2, <3>1, GhostUpdate, Zenon DEF bs
  <2>4. DOMAIN cfs = FamilyNames
    BY <2>2, <1>BatchDomain, Zenon
  <2>5. ghost' = acc
    BY <2>1, Zenon DEF Write
  <2>6. job.op = "idle" /\ job'.op = "publish" /\ job'.number = n
    BY <2>1, Zenon DEF Idle
  <2>7. IsJob' /\ ResetInv'
    BY <2>6, Zenon DEF IsJob, ResetInv
  <2> HIDE DEF n, block, entry, cfs, acc
  <2>8. ASSUME ~ghost.torn
        PROVE  /\ Chain(cfs, acc) /\ acc.blocks # <<>> /\ n = Len(acc.blocks) - 1 /\ number \in 0..n
    <3>1. Chain(db, ghost) /\ number = Published(ghost)
      BY <2>6, <2>8, Zenon DEF StorageInv, Genuine, NumberInv
    <3>2. n = Len(ghost.blocks) /\ n \in Nat /\ ghost.blocks \in Seq(Range(ghost.blocks))
      BY <2>1, <2>8, <3>1, NextNumber DEF n, Chain, IsSequence
    <3>3. n \in 0..MaxBlock /\ t \in 0..MaxTime
      BY <2>1, <3>1, <3>2, <1>TimesBounded, BoundAssumption
    <3>4. Storable(n, entry)
      BY <3>3, MinedStorable, Zenon DEF block, entry
    <3>5. entry.block = block /\ entry.changes = body.changes
      BY Zenon DEF entry
    <3>6. \A i \in DOMAIN entry.block.transactions :
              entry.block.transactions[i].execution.hash \notin DOMAIN db.transactions
      <4>1. DOMAIN block.transactions = 1..Len(body.txs) /\ DOMAIN body.txs = 1..Len(body.txs)
        <5>1. /\ block.transactions = [i \in 1..Len(body.txs) |-> block.transactions[i]]
              /\ DOMAIN body.txs = 1..Len(body.txs)
          BY MinedForm DEF block
        <5>2. QED
          BY <5>1, Zenon
      <4>2. \A i \in 1..Len(body.txs) : block.transactions[i].execution.hash = body.txs[i].hash
        BY MinedTransaction DEF block
      <4>3. QED
        BY <2>1, <3>5, <4>1, <4>2, Zenon
    <3>7. Chain(cfs, acc)
      BY <2>1, <2>2, <3>1, <3>2, <3>4, <3>5, <3>6, ChainExtends, Zenon DEF cfs, acc
    <3>8. acc.blocks # <<>> /\ Len(acc.blocks) = n + 1
      BY <2>3, <3>2, Appended, Zenon
    <3>9. number \in 0..n
      BY <3>1, <3>2, SeqEmpty DEF Published
    <3>10. QED
      BY <3>2, <3>7, <3>8, <3>9
  <2>9. NumberInv'
    BY <2>1, <2>3, <2>5, <2>6, <2>8, Zenon DEF NumberInv
  <2>10. ~acc.torn \/ job'.op \in {"accounts", "slots"} => Chain(cfs, acc)
    BY <2>3, <2>6, <2>8, Zenon
  <2>11. QED
    BY <2>1, <2>3, <2>4, <2>7, <2>9, <2>10, <1>WriteStep, Zenon
<1>PublishStep. ASSUME StorageInv, SetMinedBlockNumber
                PROVE  StorageInv'
  <2> USE <1>PublishStep
  <2>1. UNCHANGED <<build, db, disk, ghost>> /\ job.op = "publish" /\ number' = job.number /\ job' = Idle
    BY Zenon DEF SetMinedBlockNumber
  <2>2. job'.op = "idle" /\ ghost' = ghost
    BY <2>1, Zenon DEF Idle
  <2>3. IsJob' /\ ResetInv' /\ NumberInv'
    BY <2>1, <2>2, Zenon DEF StorageInv, IsJob, ResetInv, NumberInv, Published
  <2>4. Genuine' => Genuine
    BY <2>2, Zenon DEF Genuine
  <2>5. QED
    BY <2>1, <2>3, <2>4, <1>QuietStep, Zenon
\* A write that leaves the blocks alone, while nothing else is going on.
<1>EditStep. ASSUME StorageInv, NEW cfs, NEW value, NEW acc, acc = [ghost EXCEPT !.edited = value],
                    Write(cfs, acc, FALSE), UNCHANGED <<build, number>>,
                    DOMAIN cfs = FamilyNames, \A cf \in Finding : cfs[cf] = db[cf],
                    job'.op = job.op, IsJob', job.op \in {"idle", "slots"}
             PROVE  StorageInv'
  <2> USE <1>EditStep
  <2>1. IsGhost(ghost)
    BY Zenon DEF StorageInv, Shapes
  <2>2. IsGhost(acc) /\ acc.blocks = ghost.blocks /\ acc.torn = ghost.torn
    BY <2>1, GhostUpdate, Zenon
  <2>3. ghost' = acc
    BY Zenon DEF Write
  <2>4. Genuine' <=> Genuine
    BY <2>2, <2>3, Zenon DEF Genuine
  <2>5. ASSUME Genuine
        PROVE  Chain(cfs, acc)
    <3>1. Chain(db, ghost)
      BY <2>5, Zenon DEF StorageInv
    <3>2. ASSUME NEW g, g.blocks = ghost.blocks
          PROVE  Chain(cfs, g)
      BY <3>1, <3>2, ChainFrame
    <3>3. QED
      BY <2>2, <3>2, Zenon
  <2>6. ResetInv' /\ NumberInv'
    BY <2>2, <2>3, Zenon DEF StorageInv, ResetInv, NumberInv, Published
  <2>7. ~acc.torn \/ job'.op \in {"accounts", "slots"} => Chain(cfs, acc)
    BY <2>2, <2>5, Zenon DEF Genuine
  <2>8. QED
    BY <2>2, <2>4, <2>6, <2>7, <1>WriteStep, Zenon
<1>SetAccountStep. ASSUME StorageInv, NEW a, NEW change, SetAccount(a, change)
                   PROVE  StorageInv'
  <2> USE <1>SetAccountStep
  <2> DEFINE cfs == SaveAccountField(db, a, change)
             value == ghost.edited \cup {<<a>>}
             acc == [ghost EXCEPT !.edited = value]
  <2>1. /\ job = Idle /\ Write(cfs, acc, FALSE) /\ UNCHANGED <<build, number, job>>
    BY Zenon DEF SetAccount
  <2>2. DOMAIN db = FamilyNames /\ IsJob
    BY Zenon DEF StorageInv, Shapes
  <2>3. DOMAIN cfs = FamilyNames /\ \A cf \in Finding : cfs[cf] = db[cf]
    BY <2>2, Families, Zenon DEF SaveAccountField, Finding
  <2>4. IsJob' /\ job'.op = job.op /\ job.op = "idle"
    BY <2>1, <2>2, Zenon DEF IsJob, Idle
  <2> HIDE DEF cfs, value
  <2>5. QED
    BY <2>1, <2>3, <2>4, <1>EditStep, Zenon
\* Saving a slot, by a development endpoint or from the genesis file.
<1>SlotSaved. ASSUME StorageInv, NEW a, NEW i, NEW v
              PROVE  /\ DOMAIN SaveSlot(db, a, i, v) = FamilyNames
                     /\ \A cf \in Finding : SaveSlot(db, a, i, v)[cf] = db[cf]
  <2> USE <1>SlotSaved
  <2>1. DOMAIN db = FamilyNames
    BY Zenon DEF StorageInv, Shapes
  <2>2. QED
    BY <2>1, Families, Zenon DEF SaveSlot, Finding
<1>SetStorageStep. ASSUME StorageInv, NEW a, NEW i, NEW v, SetStorageAt(a, i, v)
                   PROVE  StorageInv'
  <2> USE <1>SetStorageStep
  <2> DEFINE cfs == SaveSlot(db, a, i, v)
             value == ghost.edited \cup {<<a, i>>}
             acc == [ghost EXCEPT !.edited = value]
  <2>1. /\ job = Idle /\ Write(cfs, acc, FALSE) /\ UNCHANGED <<build, number, job>>
    BY Zenon DEF SetStorageAt
  <2>2. DOMAIN cfs = FamilyNames /\ \A cf \in Finding : cfs[cf] = db[cf]
    BY <1>SlotSaved, Zenon
  <2>3. IsJob' /\ job'.op = job.op /\ job.op = "idle"
    BY <2>1, Zenon DEF StorageInv, Shapes, IsJob, Idle
  <2> HIDE DEF cfs, value
  <2>4. QED
    BY <2>1, <2>2, <2>3, <1>EditStep, Zenon
<1>ResetStep. ASSUME StorageInv, Reset
              PROVE  StorageInv'
  <2> USE <1>ResetStep
  <2>1. job' = StartReset /\ UNCHANGED <<build, db, disk, ghost>>
    BY Zenon DEF Reset
  <2>2. job'.op = "reset" /\ IsJob' /\ ResetInv' /\ NumberInv'
    BY <2>1, <1>ResetStarts, Zenon
  <2>3. Genuine' => Genuine
    BY <2>1, <2>2, Zenon DEF Genuine
  <2>4. QED
    BY <2>1, <2>2, <2>3, <1>QuietStep, Zenon
\* A family that is cleared, or half cleared: whatever is left, the storage is torn.
<1>ClearStep. ASSUME StorageInv, ClearFamily
              PROVE  StorageInv'
  <2> USE <1>ClearStep
  <2> DEFINE cf == Head(job.left)
             torn == [NoGhost EXCEPT !.torn = TRUE]
  <2>1. /\ job.op = "reset" /\ job.left # <<>> /\ UNCHANGED <<build, number>>
        /\ \/ /\ Write([db EXCEPT ![cf] = ClearLeftovers(@)], torn, FALSE)
              /\ job' = [job EXCEPT !.left = Tail(@), !.half = FALSE]
           \/ /\ \E last \in LastKeys(cf, db[cf]) : Write([db EXCEPT ![cf] = ClearRange(@, last)], torn, FALSE)
              /\ job' = [job EXCEPT !.half = TRUE]
    BY Zenon DEF ClearFamily
  <2>2. /\ DOMAIN db = FamilyNames
        /\ job = [op |-> "reset", left |-> job.left, half |-> job.half] /\ job.left \in Seq(FamilyNames)
    BY <2>1, Zenon DEF StorageInv, Shapes, IsJob
  <2>3. IsGhost(torn) /\ torn.torn = TRUE
    <3>1. IsGhost(NoGhost)
      BY Zenon DEF IsGhost, NoGhost
    <3>2. QED
      BY <3>1, GhostUpdate, Zenon
  <2>4. cf \in FamilyNames /\ Tail(job.left) \in Seq(FamilyNames) /\ cf \in Range(job.left)
    BY <2>1, <2>2, SeqTail DEF Range
  <2>5. Range(job.left) \subseteq Range(Tail(job.left)) \cup {cf}
    <3>1. ASSUME NEW i \in DOMAIN job.left
          PROVE  job.left[i] = cf \/ job.left[i] \in Range(Tail(job.left))
      <4>1. CASE i = 1
        BY <2>2, <4>1
      <4>2. CASE i # 1
        <5>1. i - 1 \in DOMAIN Tail(job.left) /\ Tail(job.left)[i - 1] = job.left[i]
          BY <2>1, <2>2, <4>2
        <5>2. QED
          BY <5>1, Zenon DEF Range
      <4>3. QED
        BY <4>1, <4>2, Zenon
    <3>2. QED
      BY <3>1, Zenon DEF Range
  <2> HIDE DEF torn
  <2>6. CASE /\ Write([db EXCEPT ![cf] = ClearLeftovers(@)], torn, FALSE)
             /\ job' = [job EXCEPT !.left = Tail(@), !.half = FALSE]
    <3> DEFINE cfs == [db EXCEPT ![cf] = ClearLeftovers(@)]
    <3>1. job' = [op |-> "reset", left |-> Tail(job.left), half |-> FALSE]
      <4>1. DOMAIN job = {"op", "left", "half"}
        BY <2>2, Zenon
      <4>2. /\ job' = [x \in DOMAIN job |-> job'[x]]
            /\ job'.op = "reset" /\ job'.left = Tail(job.left) /\ job'.half = FALSE
        BY <2>1, <2>6, <4>1, Zenon
      <4>3. QED
        BY <4>1, <4>2, Zenon
    <3>2. job'.op = "reset" /\ job'.left = Tail(job.left) /\ job'.half = FALSE
      BY <3>1, Zenon
    <3>3. IsJob'
      BY <2>4, <3>1, <3>2, Zenon DEF IsJob
    <3>4. db' = cfs /\ ghost' = torn /\ ghost'.torn
      BY <2>3, <2>6, Zenon DEF Write
    <3>5. DOMAIN cfs = FamilyNames /\ DOMAIN cfs[cf] = {} /\ \A o \in FamilyNames \ {cf} : cfs[o] = db[o]
      BY <2>2, <2>4, Zenon DEF ClearLeftovers, Empty
    <3> HIDE DEF cfs, cf
    <3>6. ASSUME NEW o \in Range(ResetOrder), o \notin Range(Tail(job.left))
          PROVE  DOMAIN cfs[o] = {}
      <4>1. CASE o = cf
        BY <3>5, <4>1, Zenon
      <4>2. CASE o # cf
        <5>1. o \in FamilyNames /\ o \notin Range(job.left)
          BY <2>5, <3>6, <4>2, Zenon DEF FamilyNames
        <5>2. DOMAIN db[o] = {}
          BY <2>1, <5>1, Zenon DEF StorageInv, ResetInv
        <5>3. QED
          BY <3>5, <4>2, <5>1, <5>2, Zenon
      <4>3. QED
        BY <4>1, <4>2, Zenon
    <3>7. ResetInv' /\ NumberInv'
      BY <3>2, <3>4, <3>6, Zenon DEF ResetInv, NumberInv
    <3>8. Write(cfs, torn, FALSE) /\ ~Genuine' /\ build' = build
      BY <2>1, <2>6, <3>2, <3>4, Zenon DEF Genuine, cfs
    <3>9. QED
      BY <2>3, <3>2, <3>3, <3>5, <3>7, <3>8, <1>WriteStep, Zenon
  <2>7. CASE /\ \E last \in LastKeys(cf, db[cf]) : Write([db EXCEPT ![cf] = ClearRange(@, last)], torn, FALSE)
             /\ job' = [job EXCEPT !.half = TRUE]
    <3>1. PICK last \in LastKeys(cf, db[cf]) : Write([db EXCEPT ![cf] = ClearRange(@, last)], torn, FALSE)
      BY <2>7, Zenon
    <3> DEFINE cfs == [db EXCEPT ![cf] = ClearRange(@, last)]
    <3>2. job' = [op |-> "reset", left |-> job.left, half |-> TRUE]
      <4>1. DOMAIN job = {"op", "left", "half"}
        BY <2>2, Zenon
      <4>2. /\ job' = [x \in DOMAIN job |-> job'[x]]
            /\ job'.op = "reset" /\ job'.left = job.left /\ job'.half = TRUE
        BY <2>1, <2>7, <4>1, Zenon
      <4>3. QED
        BY <4>1, <4>2, Zenon
    <3>3. job'.op = "reset" /\ job'.left = job.left /\ job'.half = TRUE
      BY <3>2, Zenon
    <3>4. IsJob'
      BY <2>2, <3>2, <3>3, Zenon DEF IsJob
    <3>5. db' = cfs /\ ghost' = torn /\ ghost'.torn
      BY <2>3, <3>1, Zenon DEF Write
    <3>6. DOMAIN cfs = FamilyNames /\ \A o \in FamilyNames \ {cf} : cfs[o] = db[o]
      BY <2>2, <2>4, Zenon
    <3> HIDE DEF cfs, cf
    <3>7. ASSUME NEW o \in Range(ResetOrder), o \notin Range(job.left)
          PROVE  DOMAIN cfs[o] = {}
      <4>1. o \in FamilyNames \ {cf}
        BY <2>4, <3>7, Zenon DEF FamilyNames
      <4>2. QED
        BY <2>1, <3>6, <3>7, <4>1, Zenon DEF StorageInv, ResetInv
    <3>8. ResetInv' /\ NumberInv'
      BY <3>3, <3>5, <3>7, Zenon DEF ResetInv, NumberInv
    <3>9. Write(cfs, torn, FALSE) /\ ~Genuine' /\ build' = build
      BY <2>1, <3>1, <3>3, <3>5, Zenon DEF Genuine, cfs
    <3>10. QED
      BY <2>3, <3>3, <3>4, <3>6, <3>8, <3>9, <1>WriteStep, Zenon
  <2>8. QED
    BY <2>1, <2>6, <2>7, Zenon
<1>GenesisBlockStep. ASSUME StorageInv, SaveGenesisBlock
                     PROVE  StorageInv'
  <2> USE <1>GenesisBlockStep
  <2> DEFINE genesis == GenesisBlockOf(build.file)
             entry == [block |-> genesis, changes |-> NoChanges]
             cfs == ExecutionChanges(BlockInsertion(db, genesis), 0, NoChanges)
             acc == [ghost EXCEPT !.blocks = <<entry>>]
             none == [ghost EXCEPT !.blocks = <<>>]
  <2>1. /\ job.op = "reset" /\ job.left = <<>> /\ Write(cfs, acc, build.sync)
        /\ job' = [op |-> "accounts"] /\ number' = 0 /\ build' = build
    BY Zenon DEF SaveGenesisBlock, NoChanges
  <2>2. build \in Builds /\ DOMAIN db = FamilyNames /\ IsGhost(ghost)
    BY Zenon DEF StorageInv, Shapes
  <2>3. ghost.torn /\ \A cf \in Range(ResetOrder) : DOMAIN db[cf] = {}
    <3>1. Range(job.left) = {}
      BY <2>1 DEF Range
    <3>2. job.left # ResetOrder
      BY <2>1 DEF ResetOrder
    <3>3. QED
      BY <2>1, <3>1, <3>2, Zenon DEF StorageInv, ResetInv
  <2>4. {"blocks_by_number", "blocks_by_timestamp", "transactions"} \subseteq Range(ResetOrder)
    <3>1. {5, 6, 8} \subseteq DOMAIN ResetOrder
      BY DEF ResetOrder
    <3>2. ResetOrder[5] = "transactions" /\ ResetOrder[6] = "blocks_by_number" /\ ResetOrder[8] = "blocks_by_timestamp"
      BY Zenon DEF ResetOrder
    <3>3. QED
      BY <3>1, <3>2, Zenon DEF Range
  <2>5. /\ IsGhost(none) /\ none.blocks = <<>> /\ none.torn = ghost.torn
        /\ IsGhost(acc) /\ acc.blocks = <<entry>> /\ acc.torn = ghost.torn
    <3> HIDE DEF entry
    <3>1. IsGhost(none) /\ none.blocks = <<>> /\ none.torn = ghost.torn
      BY <2>2, GhostUpdate, Zenon
    <3>2. IsGhost(acc) /\ acc.blocks = <<entry>> /\ acc.torn = ghost.torn
      BY <2>2, GhostUpdate, Zenon
    <3>3. QED
      BY <3>1, <3>2, Zenon
  <2>6. Chain(db, none)
    <3>1. DOMAIN db.blocks_by_number = {} /\ DOMAIN db.blocks_by_timestamp = {}
      BY <2>3, <2>4, Zenon
    <3> HIDE DEF none
    <3>2. QED
      BY <2>5, <3>1, EmptyChain, Zenon
  <2>7. [none EXCEPT !.blocks = Append(@, entry)] = acc
    <3>1. \A e : Append(<<>>, e) = <<e>>
      OBVIOUS
    <3>2. [none EXCEPT !.blocks = Append(@, entry)] = [none EXCEPT !.blocks = <<entry>>]
      BY <2>5, <3>1, Zenon
    <3>3. QED
      BY <3>2, Zenon
  <2>8. Storable(0, entry) /\ entry.block = genesis /\ entry.changes = NoChanges
    BY <2>2, GenesisStorable, Zenon
  <2>9. \A i \in DOMAIN genesis.transactions : genesis.transactions[i].execution.hash \notin DOMAIN db.transactions
    BY <2>3, <2>4, Zenon
  <2> HIDE DEF genesis, entry, none
  <2>10. Chain(cfs, acc)
    <3>1. Len(none.blocks) = 0 /\ 0 <= MaxBlock
      BY <2>5, BoundAssumption
    <3>2. Chain(ExecutionChanges(BlockInsertion(db, entry.block), Len(none.blocks), entry.changes),
                [none EXCEPT !.blocks = Append(@, entry)])
      BY <2>2, <2>5, <2>6, <2>8, <2>9, <3>1, ChainExtends, Zenon
    <3>3. QED
      BY <2>7, <2>8, <3>1, <3>2, Zenon
  <2> HIDE DEF acc
  <2>11. DOMAIN cfs = FamilyNames
    BY <2>2, <1>BatchDomain, Zenon
  <2>12. ghost' = acc /\ job'.op = "accounts"
    BY <2>1, Zenon DEF Write
  <2> HIDE DEF cfs
  <2>13. IsJob' /\ ResetInv' /\ NumberInv'
    <3>1. Len(acc.blocks) = 1
      BY <2>5
    <3>2. QED
      BY <2>3, <2>5, <2>12, <3>1, Zenon DEF IsJob, ResetInv, NumberInv
  <2>14. QED
    BY <2>1, <2>5, <2>10, <2>11, <2>13, <1>WriteStep, Zenon
<1>GenesisAccountsStep. ASSUME StorageInv, SaveGenesisAccounts
                        PROVE  StorageInv'
  <2> USE <1>GenesisAccountsStep
  <2> DEFINE accounts == GenesisStateOf(build.file).accounts
             slots == GenesisStateOf(build.file).slots
             cfs == AccountsInsertion(db, accounts)
             acc == [ghost EXCEPT !.accounts = accounts]
  <2>1. /\ job.op = "accounts" /\ Write(cfs, acc, build.sync)
        /\ job' = [op |-> "slots", left |-> slots] /\ UNCHANGED <<build, number>>
    BY Zenon DEF SaveGenesisAccounts
  <2>2. DOMAIN db = FamilyNames /\ IsGhost(ghost)
    BY Zenon DEF StorageInv, Shapes
  <2>3. DOMAIN cfs = FamilyNames /\ \A cf \in Finding : cfs[cf] = db[cf]
    BY <2>2, Families, Zenon DEF AccountsInsertion, Finding
  <2> HIDE DEF accounts, slots, cfs
  <2>4. IsGhost(acc) /\ acc.blocks = ghost.blocks /\ acc.torn = ghost.torn
    BY <2>2, GhostUpdate, Zenon
  <2>5. ghost' = acc /\ job'.op = "slots" /\ job'.left = slots
    BY <2>1, Zenon DEF Write
  <2>6. Chain(db, ghost) /\ ghost.torn
    BY <2>1, Zenon DEF StorageInv, Genuine, ResetInv
  <2> HIDE DEF acc
  <2>7. Chain(cfs, acc)
    BY <2>3, <2>4, <2>6, ChainFrame
  <2>8. IsJob' /\ ResetInv' /\ NumberInv'
    <3>1. job' = [op |-> "slots", left |-> job'.left]
      BY <2>1, <2>5, Zenon
    <3>2. Len(ghost.blocks) = 1
      BY <2>1, Zenon DEF StorageInv, NumberInv
    <3>3. QED
      BY <2>4, <2>5, <2>6, <3>1, <3>2, Zenon DEF IsJob, ResetInv, NumberInv
  <2>9. build.sync /\ Genuine' => build.sync \/ (Genuine /\ acc.blocks = ghost.blocks)
    BY Zenon
  <2>10. QED
    BY <2>1, <2>3, <2>4, <2>7, <2>8, <2>9, <1>WriteStep, Zenon
<1>GenesisSlotStep. ASSUME StorageInv, SaveGenesisSlot
                    PROVE  StorageInv'
  <2> USE <1>GenesisSlotStep
  <2>1. PICK s \in DOMAIN job.left :
          /\ Write(SaveSlot(db, s[1], s[2], job.left[s]), [ghost EXCEPT !.edited = @ \cup {s}], FALSE)
          /\ job' = [job EXCEPT !.left = [o \in DOMAIN @ \ {s} |-> @[o]]]
    BY Zenon DEF SaveGenesisSlot
  <2> DEFINE cfs == SaveSlot(db, s[1], s[2], job.left[s])
             value == ghost.edited \cup {s}
             left == [o \in DOMAIN job.left \ {s} |-> job.left[o]]
  <2>2. job.op = "slots" /\ UNCHANGED <<build, number>>
    BY Zenon DEF SaveGenesisSlot
  <2>3. job = [op |-> "slots", left |-> job.left]
    BY <2>2, Zenon DEF StorageInv, Shapes, IsJob
  <2>4. job' = [job EXCEPT !.left = left]
    BY <2>1, Zenon
  <2> HIDE DEF left
  <2>5. job' = [op |-> "slots", left |-> left]
    BY <2>3, <2>4
  <2>6. IsJob' /\ job'.op = job.op
    BY <2>2, <2>5, Zenon DEF IsJob
  <2>7. DOMAIN cfs = FamilyNames /\ \A cf \in Finding : cfs[cf] = db[cf]
    BY <1>SlotSaved
  <2>8. Write(cfs, [ghost EXCEPT !.edited = value], FALSE)
    BY <2>1, Zenon
  <2> HIDE DEF cfs, value
  <2>9. QED
    BY <2>2, <2>6, <2>7, <2>8, <1>EditStep, Zenon
<1>GenesisSavedStep. ASSUME StorageInv, GenesisSaved
                     PROVE  StorageInv'
  <2> USE <1>GenesisSavedStep
  <2> DEFINE acc == [ghost EXCEPT !.torn = FALSE]
  <2>1. /\ job.op = "slots" /\ ghost' = acc /\ number' = 0 /\ job' = Idle
        /\ build' = build /\ db' = db /\ disk' = disk
    BY Zenon DEF GenesisSaved
  <2>2. /\ Shapes /\ Chain(db, ghost) /\ Len(ghost.blocks) = 1
        /\ ~disk.ghost.torn => Chain(disk.db, disk.ghost)
        /\ build.sync => disk.ghost.blocks = ghost.blocks
    BY <2>1, Zenon DEF StorageInv, Genuine, NumberInv
  <2>3. IsGhost(acc) /\ acc.blocks = ghost.blocks /\ acc.torn = FALSE
    <3>1. IsGhost(ghost)
      BY <2>2, Zenon DEF Shapes
    <3>2. QED
      BY <3>1, GhostUpdate, Zenon
  <2> HIDE DEF acc
  <2>4. Chain(db, acc)
    BY <2>2, <2>3, ChainFrame, Zenon
  <2>5. job'.op = "idle"
    BY <2>1, Zenon DEF Idle
  <2>6. IsJob' /\ ResetInv'
    BY <2>1, <2>5, Zenon DEF IsJob, ResetInv
  <2>7. NumberInv'
    <3>1. acc.blocks # <<>> /\ Len(acc.blocks) - 1 = 0
      BY <2>2, <2>3
    <3>2. QED
      BY <2>1, <2>5, <3>1, Zenon DEF NumberInv, Published
  <2>8. Shapes'
    BY <2>1, <2>2, <2>3, <2>6, Zenon DEF Shapes, IsGhost
  <2>9. QED
    BY <2>1, <2>2, <2>3, <2>4, <2>6, <2>7, <2>8, Zenon DEF StorageInv
\* What a process wrote survives it.
<1>CrashStep. ASSUME StorageInv, Crash
              PROVE  StorageInv'
  <2> USE <1>CrashStep
  <2>1. UNCHANGED <<build, db, disk, ghost>> /\ job'.op = "down" /\ ghost' = ghost
    BY Zenon DEF Crash, Down
  <2>2. IsJob' /\ ResetInv' /\ NumberInv'
    BY <2>1, Zenon DEF IsJob, ResetInv, NumberInv
  <2>3. Genuine' => Genuine
    BY <2>1, Zenon DEF Genuine
  <2>4. QED
    BY <2>1, <2>2, <2>3, <1>QuietStep, Zenon
<1>PowerFailureStep. ASSUME StorageInv, PowerFailure
                     PROVE  StorageInv'
  <2> USE <1>PowerFailureStep
  <2>1. /\ db' = disk.db /\ ghost' = disk.ghost /\ build' = build /\ disk' = disk
        /\ job'.op = "down"
    BY Zenon DEF PowerFailure, Down
  <2>2. Shapes /\ (~disk.ghost.torn => Chain(disk.db, disk.ghost))
    BY Zenon DEF StorageInv
  <2>3. IsJob' /\ ResetInv' /\ NumberInv'
    BY <2>1, Zenon DEF IsJob, ResetInv, NumberInv
  <2>4. Shapes'
    BY <2>1, <2>2, <2>3, Zenon DEF Shapes, IsGhost
  <2>5. Genuine' <=> ~disk.ghost.torn
    BY <2>1, Zenon DEF Genuine
  <2>6. QED
    BY <2>1, <2>2, <2>3, <2>4, <2>5, Zenon DEF StorageInv
<1>1. CASE Open
  BY <1>1, <1>OpenStep, Zenon
<1>2. CASE \E t \in Times, body \in Bodies : SaveBlock(t, body)
  BY <1>2, <1>SaveBlockStep, Zenon
<1>3. CASE SetMinedBlockNumber
  BY <1>3, <1>PublishStep, Zenon
<1>4. CASE \E a \in Addresses, c \in Edits : SetAccount(a, c)
  BY <1>4, <1>SetAccountStep, Zenon
<1>5. CASE \E a \in Addresses, i \in Slots, v \in SlotEdits : SetStorageAt(a, i, v)
  BY <1>5, <1>SetStorageStep, Zenon
<1>6. CASE Reset
  BY <1>6, <1>ResetStep, Zenon
<1>7. CASE ClearFamily
  BY <1>7, <1>ClearStep, Zenon
<1>8. CASE SaveGenesisBlock
  BY <1>8, <1>GenesisBlockStep, Zenon
<1>9. CASE SaveGenesisAccounts
  BY <1>9, <1>GenesisAccountsStep, Zenon
<1>10. CASE SaveGenesisSlot
  BY <1>10, <1>GenesisSlotStep, Zenon
<1>11. CASE GenesisSaved
  BY <1>11, <1>GenesisSavedStep, Zenon
<1>12. CASE Crash
  BY <1>12, <1>CrashStep, Zenon
<1>13. CASE PowerFailure
  BY <1>13, <1>PowerFailureStep, Zenon
<1>14. CASE UNCHANGED vars
  <2>1. build' = build /\ db' = db /\ disk' = disk /\ number' = number /\ job' = job /\ ghost' = ghost
    BY <1>14, Zenon DEF vars
  <2>2. UNCHANGED <<build, db, disk, ghost>> /\ (Genuine' => Genuine)
    BY <2>1, Zenon DEF Genuine
  <2>3. IsJob' /\ ResetInv' /\ NumberInv'
    BY <2>1, Zenon DEF StorageInv, Shapes, IsJob, ResetInv, NumberInv
  <2>4. QED
    BY <2>2, <2>3, <1>QuietStep, Zenon
<1>15. QED
  BY <1>1, <1>2, <1>3, <1>4, <1>5, <1>6, <1>7, <1>8, <1>9, <1>10, <1>11, <1>12, <1>13, <1>14,
     Zenon DEF Next

(***************************************************************************)
(* The histories of accounts and slots.  A row is the history of one of    *)
(* them, by block number; what it was at block n is its last entry that is *)
(* not above n.                                                            *)
(***************************************************************************)
Upto(row, n) == {m \in DOMAIN row : m <= n}
Past(row, n) == IF Upto(row, n) = {} THEN None ELSE row[Max(Upto(row, n))]
Before(row, base, n) == IF n = 0 THEN base ELSE Past(row, n - 1)

AccountRow(cfs, a) ==
    [m \in {x \in 0..MaxBlock : <<a, x>> \in DOMAIN cfs.accounts_history} |-> cfs.accounts_history[<<a, m>>]]

SlotRow(cfs, s) ==
    [m \in {x \in 0..MaxBlock : <<s[1], s[2], x>> \in DOMAIN cfs.account_slots_history}
       |-> cfs.account_slots_history[<<s[1], s[2], m>>]]

ChangesAt(g, n) == g.blocks[n + 1].changes

\* The history of an account or a slot follows the blocks of g, and its latest value the history.
AccountReplays(cfs, g, a) ==
    LET row == AccountRow(cfs, a)
        base == Get(g.accounts, a)
    IN  /\ \A n \in Numbers(g) : Past(row, n) = ApplyChange(Before(row, base, n), a, ChangesAt(g, n))
        /\ Get(cfs.accounts, a) = Before(row, base, Len(g.blocks))

SlotReplays(cfs, g, s) ==
    LET row == SlotRow(cfs, s)
    IN  /\ \A n \in Numbers(g) : Past(row, n) = ApplySlotChange(Before(row, None, n), s, ChangesAt(g, n))
        /\ Get(cfs.account_slots, s) = Before(row, None, Len(g.blocks))

HistoryKeys(cfs, g) ==
    /\ DOMAIN cfs.accounts_history \subseteq Addresses \X Numbers(g)
    /\ DOMAIN cfs.account_slots_history \subseteq Addresses \X Slots \X Numbers(g)

History(cfs, g) ==
    /\ HistoryKeys(cfs, g)
    /\ g.blocks = <<>> => g.accounts = Empty
    /\ \A a \in Addresses : <<a>> \notin g.edited => AccountReplays(cfs, g, a)
    /\ \A s \in Addresses \X Slots : s \notin g.edited => SlotReplays(cfs, g, s)

StateFamilies == {"accounts", "accounts_history", "account_slots", "account_slots_history"}

\* A reset writes the genesis accounts to families that it has emptied.
GenesisHistory ==
    /\ job.op = "reset" => job.left = ResetOrder \/ ghost.accounts = Empty
    /\ job.op = "accounts" =>
         /\ \A cf \in StateFamilies : DOMAIN db[cf] = {}
         /\ ChangesAt(ghost, 0) = NoChanges
    /\ job.op = "slots" => DOMAIN job.left \subseteq Addresses \X Slots

\* Histories agree with the accepted blocks when the blocks do.
HistoryInv ==
    /\ Genuine => History(db, ghost)
    /\ ~disk.ghost.torn => History(disk.db, disk.ghost)
    /\ GenesisHistory

(***************************************************************************)
(* Histories: what a row is read as.                                       *)
(***************************************************************************)
\* An account is at a block what the block's entry says, or else what it was before.
LEMMA RowPast ==
    ASSUME NEW row, DOMAIN row \subseteq Nat, NEW n \in Nat
    PROVE  /\ n \in DOMAIN row => Past(row, n) = row[n]
           /\ n \notin DOMAIN row => Past(row, n) = Before(row, None, n)
<1>1. CASE n \in DOMAIN row
  <2>1. Upto(row, n) \subseteq Nat /\ n \in Upto(row, n) /\ \A x \in Upto(row, n) : x <= n
    BY <1>1 DEF Upto
  <2>2. Max(Upto(row, n)) = n
    BY <2>1, MaxIs, Zenon
  <2>3. QED
    BY <1>1, <2>1, <2>2, Zenon DEF Past
<1>2. CASE n \notin DOMAIN row
  <2>1. CASE n = 0
    <3>1. Upto(row, n) = {}
      BY <1>2, <2>1 DEF Upto
    <3>2. QED
      BY <1>2, <2>1, <3>1, Zenon DEF Past, Before
  <2>2. CASE n # 0
    <3>1. Upto(row, n) = Upto(row, n - 1)
      BY <1>2, <2>2 DEF Upto
    <3>2. QED
      BY <1>2, <2>2, <3>1, Zenon DEF Past, Before
  <2>3. QED
    BY <2>1, <2>2, Zenon
<1>3. QED
  BY <1>1, <1>2, Zenon

\* Rows that agree up to a block are read alike at it.
LEMMA RowsAgree ==
    ASSUME NEW row, NEW row2, DOMAIN row \subseteq Nat, NEW n \in Nat,
           Upto(row2, n) = Upto(row, n), \A m \in Upto(row, n) : row2[m] = row[m]
    PROVE  Past(row2, n) = Past(row, n)
<1>1. Upto(row, n) \subseteq Nat /\ \A x \in Upto(row, n) : x <= n
  BY Zenon DEF Upto
<1>2. Upto(row, n) # {} => Max(Upto(row, n)) \in Upto(row, n)
  BY <1>1, GreatestNumber, Zenon
<1>3. QED
  BY <1>2, Zenon DEF Past

\* A block adds at most one entry to a row, its last; `left` is what the block leaves.
RowGrows(row, row2, k, base, left) ==
    /\ DOMAIN row \subseteq 0..(k - 1)
    /\ DOMAIN row2 \subseteq 0..k
    /\ \A m \in 0..(k - 1) : m \in DOMAIN row2 <=> m \in DOMAIN row
    /\ \A m \in DOMAIN row : row2[m] = row[m]
    /\ k = 0 => base = None \/ 0 \in DOMAIN row2
    /\ left = IF k \in DOMAIN row2 THEN row2[k] ELSE Before(row, base, k)

\* It leaves the past as it was.
LEMMA RowAppend ==
    ASSUME NEW row, NEW row2, NEW k \in Nat, NEW base, NEW left, RowGrows(row, row2, k, base, left)
    PROVE  /\ \A n \in 0..(k - 1) :
                Past(row2, n) = Past(row, n) /\ Before(row2, base, n) = Before(row, base, n)
           /\ Before(row2, base, k) = Before(row, base, k)
           /\ Past(row2, k) = left /\ Before(row2, base, k + 1) = left
<1> USE DEF RowGrows
<1>1. DOMAIN row \subseteq Nat /\ DOMAIN row2 \subseteq Nat
  OBVIOUS
<1>2. ASSUME NEW n \in 0..(k - 1)
      PROVE  Past(row2, n) = Past(row, n)
  <2>1. n \in Nat /\ Upto(row2, n) = Upto(row, n)
    BY <1>1 DEF Upto
  <2>2. \A m \in Upto(row, n) : row2[m] = row[m]
    BY Zenon DEF Upto
  <2>3. QED
    BY <1>1, <2>1, <2>2, RowsAgree, Zenon
<1>3. ASSUME NEW n \in 0..k
      PROVE  Before(row2, base, n) = Before(row, base, n)
  <2>1. n = 0 \/ n - 1 \in 0..(k - 1)
    OBVIOUS
  <2>2. QED
    BY <1>2, <2>1, Zenon DEF Before
<1>4. k \in DOMAIN row2 => Past(row2, k) = row2[k]
  BY <1>1, RowPast, Zenon
<1>5. ASSUME k \notin DOMAIN row2
      PROVE  Past(row2, k) = Before(row, base, k)
  <2>1. Past(row2, k) = Before(row2, None, k)
    BY <1>1, <1>5, RowPast, Zenon
  <2>2. k \in 0..k
    OBVIOUS
  <2>3. Before(row2, base, k) = Before(row, base, k)
    BY <1>3, <2>2, Zenon
  <2>4. Before(row2, None, k) = Before(row2, base, k)
    BY <1>5, Zenon DEF Before
  <2>5. QED
    BY <2>1, <2>3, <2>4, Zenon
<1>6. 0..(k - 1) \subseteq 0..k /\ k \in 0..k /\ k + 1 # 0 /\ (k + 1) - 1 = k
  OBVIOUS
<1>7. Past(row2, k) = left
  BY <1>4, <1>5, Zenon
<1>8. Before(row2, base, k + 1) = left
  BY <1>6, <1>7, Zenon DEF Before
<1>9. QED
  BY <1>2, <1>3, <1>6, <1>7, <1>8, Zenon

\* The order of the keys of accounts' histories, and of slots'.
LEMMA PairLeq ==
    ASSUME NEW k \in Nat \X Nat, NEW o \in Nat \X Nat
    PROVE  KeyLeq(k, o) <=> k[1] < o[1] \/ (k[1] = o[1] /\ k[2] <= o[2])
<1>1. /\ DOMAIN k = {1, 2} /\ 1..(1 - 1) = {} /\ 1..(2 - 1) = {1}
      /\ k = <<k[1], k[2]>> /\ o = <<o[1], o[2]>>
      /\ k[1] \in Nat /\ k[2] \in Nat /\ o[1] \in Nat /\ o[2] \in Nat
  OBVIOUS
<1>2. k = o <=> k[1] = o[1] /\ k[2] = o[2]
  BY <1>1, Zenon
<1>3. KeyLeq(k, o) <=> (k = o \/ k[1] < o[1] \/ (k[2] < o[2] /\ k[1] = o[1]))
  <2>1. (\E i \in DOMAIN k : k[i] < o[i] /\ \A j \in 1..(i - 1) : k[j] = o[j])
          <=> \/ k[1] < o[1] /\ \A j \in 1..(1 - 1) : k[j] = o[j]
              \/ k[2] < o[2] /\ \A j \in 1..(2 - 1) : k[j] = o[j]
    BY <1>1, Zenon
  <2>2. QED
    BY <1>1, <2>1, Zenon DEF KeyLeq
<1>4. QED
  BY <1>1, <1>2, <1>3

LEMMA TripleLeq ==
    ASSUME NEW k \in Nat \X Nat \X Nat, NEW o \in Nat \X Nat \X Nat
    PROVE  KeyLeq(k, o) <=> \/ k[1] < o[1]
                            \/ k[1] = o[1] /\ k[2] < o[2]
                            \/ k[1] = o[1] /\ k[2] = o[2] /\ k[3] <= o[3]
<1>1. /\ DOMAIN k = {1, 2, 3} /\ 1..(1 - 1) = {} /\ 1..(2 - 1) = {1} /\ 1..(3 - 1) = {1, 2}
      /\ k = <<k[1], k[2], k[3]>> /\ o = <<o[1], o[2], o[3]>>
      /\ k[1] \in Nat /\ k[2] \in Nat /\ k[3] \in Nat
      /\ o[1] \in Nat /\ o[2] \in Nat /\ o[3] \in Nat
  OBVIOUS
<1>2. k = o <=> k[1] = o[1] /\ k[2] = o[2] /\ k[3] = o[3]
  BY <1>1, Zenon
<1>3. KeyLeq(k, o) <=> \/ k = o \/ k[1] < o[1] \/ (k[2] < o[2] /\ k[1] = o[1])
                       \/ (k[3] < o[3] /\ k[1] = o[1] /\ k[2] = o[2])
  <2>1. (\E i \in DOMAIN k : k[i] < o[i] /\ \A j \in 1..(i - 1) : k[j] = o[j])
          <=> \/ k[1] < o[1] /\ \A j \in 1..(1 - 1) : k[j] = o[j]
              \/ k[2] < o[2] /\ \A j \in 1..(2 - 1) : k[j] = o[j]
              \/ k[3] < o[3] /\ \A j \in 1..(3 - 1) : k[j] = o[j]
    BY <1>1, Zenon
  <2>2. QED
    BY <1>1, <2>1, Zenon DEF KeyLeq
<1>4. QED
  BY <1>1, <1>2, <1>3

\* Of keys that are not above a key, one is the last.
LEMMA LastPair ==
    ASSUME NEW K, K \subseteq Nat \X Nat, K # {}, NEW bound \in Nat, NEW bound2 \in Nat,
           \A k \in K : k[1] <= bound /\ k[2] <= bound2
    PROVE  \E k \in K : \A o \in K : KeyLeq(o, k)
<1> DEFINE F == {k[1] : k \in K}
           f == Max(F)
           G == {k[2] : k \in {x \in K : x[1] = f}}
           g == Max(G)
<1>1. \A k \in K : k[1] \in Nat /\ k[2] \in Nat
  BY Zenon
<1>2. F \subseteq Nat /\ F # {} /\ \A x \in F : x <= bound
  BY <1>1, Zenon
<1>3. f \in F /\ \A x \in F : x <= f
  BY <1>2, GreatestNumber, Zenon
<1> HIDE DEF f
<1>4. G \subseteq Nat /\ G # {} /\ \A x \in G : x <= bound2
  BY <1>1, <1>3, Zenon
<1>5. g \in G /\ \A x \in G : x <= g
  BY <1>4, GreatestNumber, Zenon
<1> HIDE DEF g
<1>6. PICK k \in K : k[1] = f /\ k[2] = g
  BY <1>5, Zenon
<1>7. ASSUME NEW o \in K
      PROVE  KeyLeq(o, k)
  <2>1. o[1] \in Nat /\ f \in Nat /\ o[1] <= f /\ (o[1] = f => o[2] <= g)
    BY <1>1, <1>2, <1>3, <1>5, Zenon
  <2>2. o[1] < f \/ o[1] = f
    BY <2>1
  <2>3. k \in Nat \X Nat /\ o \in Nat \X Nat
    BY Zenon
  <2>4. QED
    BY <1>6, <2>1, <2>2, <2>3, PairLeq, Zenon
<1>8. QED
  BY <1>7, Zenon

LEMMA LastTriple ==
    ASSUME NEW K, K \subseteq Nat \X Nat \X Nat, K # {},
           NEW bound \in Nat, NEW bound2 \in Nat, NEW bound3 \in Nat,
           \A k \in K : k[1] <= bound /\ k[2] <= bound2 /\ k[3] <= bound3
    PROVE  \E k \in K : \A o \in K : KeyLeq(o, k)
<1> DEFINE F == {k[1] : k \in K}
           f == Max(F)
           G == {k[2] : k \in {x \in K : x[1] = f}}
           g == Max(G)
           H == {k[3] : k \in {x \in K : x[1] = f /\ x[2] = g}}
           h == Max(H)
<1>1. \A k \in K : k[1] \in Nat /\ k[2] \in Nat /\ k[3] \in Nat
  BY Zenon
<1>2. F \subseteq Nat /\ F # {} /\ \A x \in F : x <= bound
  BY <1>1, Zenon
<1>3. f \in F /\ \A x \in F : x <= f
  BY <1>2, GreatestNumber, Zenon
<1> HIDE DEF f
<1>4. G \subseteq Nat /\ G # {} /\ \A x \in G : x <= bound2
  BY <1>1, <1>3, Zenon
<1>5. g \in G /\ \A x \in G : x <= g
  BY <1>4, GreatestNumber, Zenon
<1> HIDE DEF g
<1>6. H \subseteq Nat /\ H # {} /\ \A x \in H : x <= bound3
  BY <1>1, <1>5, Zenon
<1>7. h \in H /\ \A x \in H : x <= h
  BY <1>6, GreatestNumber, Zenon
<1> HIDE DEF h
<1>8. PICK k \in K : k[1] = f /\ k[2] = g /\ k[3] = h
  BY <1>7, Zenon
<1>9. ASSUME NEW o \in K
      PROVE  KeyLeq(o, k)
  <2>1. /\ o[1] \in Nat /\ f \in Nat /\ o[1] <= f /\ (o[1] = f => o[2] <= g)
        /\ o[2] \in Nat /\ g \in Nat /\ (o[1] = f /\ o[2] = g => o[3] <= h)
    BY <1>1, <1>2, <1>3, <1>4, <1>5, <1>7, Zenon
  <2>2. (o[1] < f \/ o[1] = f) /\ (o[1] = f => o[2] < g \/ o[2] = g)
    BY <2>1
  <2>3. k \in Nat \X Nat \X Nat /\ o \in Nat \X Nat \X Nat
    BY Zenon
  <2>4. QED
    BY <1>8, <2>1, <2>2, <2>3, TripleLeq, Zenon
<1>10. QED
  BY <1>9, Zenon

\* The parts of a key.
LEMMA PairParts ==
    ASSUME NEW A, NEW B, NEW k \in A \X B
    PROVE  k = <<k[1], k[2]>> /\ k[1] \in A /\ k[2] \in B
OBVIOUS

LEMMA TripleParts ==
    ASSUME NEW k \in Addresses \X Slots \X (0..MaxBlock)
    PROVE  k[1] \in Addresses /\ k[2] \in Slots /\ k[3] \in 0..MaxBlock /\ k = <<k[1], k[2], k[3]>>
OBVIOUS

\* An iterator over the histories stops at the last entry of the account that is not above the
\* block, or at another account when there is none (read_account).
LEMMA SeekAccount ==
    ASSUME NEW cfs, NEW a \in Addresses, NEW n \in 0..MaxBlock,
           DOMAIN cfs.accounts_history \subseteq Addresses \X (0..MaxBlock)
    PROVE  LET found == Seek(cfs.accounts_history, <<a, n>>)
           IN  (IF a = Nobody \/ found = None \/ (found # None /\ found[1] # a) THEN None
                ELSE cfs.accounts_history[found]) = Past(AccountRow(cfs, a), n)
<1> DEFINE cf == cfs.accounts_history
           key == <<a, n>>
           below == {k \in DOMAIN cf : KeyLeq(k, key)}
           found == Seek(cf, key)
           row == AccountRow(cfs, a)
<1>1. a \in Nat /\ a # Nobody /\ n \in Nat /\ MaxBlock \in Nat /\ key \in Nat \X Nat
  BY AddressAssumption, BoundAssumption
<1>2. ASSUME NEW k \in DOMAIN cf
      PROVE  /\ k \in Nat \X Nat /\ k = <<k[1], k[2]>> /\ k # None
             /\ k[1] \in Nat /\ k[2] \in 0..MaxBlock /\ k[2] \in Nat
  <2>1. k \in Addresses \X (0..MaxBlock)
    BY Zenon
  <2>2. k # None
    BY <2>1, NoneAssumption, Zenon
  <2>3. k[1] \in Addresses /\ k[2] \in 0..MaxBlock /\ k = <<k[1], k[2]>>
    BY <2>1, PairParts, Zenon
  <2>4. k[1] \in Nat
    BY <2>3, AddressAssumption, Zenon
  <2>5. k[2] \in Nat
    BY <1>1, <2>3
  <2>6. QED
    BY <2>2, <2>3, <2>4, <2>5, Zenon
<1>3. ASSUME NEW k \in DOMAIN cf
      PROVE  KeyLeq(k, key) <=> k[1] < a \/ (k[1] = a /\ k[2] <= n)
  <2>1. key[1] = a /\ key[2] = n
    BY Zenon
  <2> HIDE DEF key
  <2>2. KeyLeq(k, key) <=> k[1] < key[1] \/ (k[1] = key[1] /\ k[2] <= key[2])
    BY <1>1, <1>2, PairLeq, Zenon
  <2>3. QED
    BY <2>1, <2>2, Zenon
<1>4. found = IF below = {} THEN None ELSE CHOOSE k \in below : \A o \in below : KeyLeq(o, k)
  BY Zenon DEF Seek
<1>5. /\ DOMAIN row \subseteq Nat
      /\ \A m \in DOMAIN row : row[m] = cf[<<a, m>>]
      /\ \A m : m \in DOMAIN row <=> m \in 0..MaxBlock /\ <<a, m>> \in DOMAIN cf
  BY <1>1 DEF AccountRow
<1> HIDE DEF cf, key, found, row
<1>6. \A m : m \in Upto(row, n) <=> m \in 0..MaxBlock /\ <<a, m>> \in below
  <2>1. ASSUME NEW m, <<a, m>> \in DOMAIN cf
        PROVE  m <= n <=> KeyLeq(<<a, m>>, key)
    <3>1. <<a, m>>[1] = a /\ <<a, m>>[2] = m /\ ~(a < a)
      BY <1>1
    <3>2. QED
      BY <1>3, <2>1, <3>1, Zenon
  <2>2. QED
    BY <1>5, <2>1, Zenon DEF Upto
<1>7. Upto(row, n) \subseteq Nat /\ \A x \in Upto(row, n) : x <= n
  BY <1>5, Zenon DEF Upto
<1>8. ASSUME NEW k \in below, k[1] = a
      PROVE  k[2] \in Upto(row, n)
  BY <1>2, <1>6, <1>8, Zenon
<1>9. CASE Upto(row, n) # {}
  <2> DEFINE M == Max(Upto(row, n))
             top == <<a, M>>
  <2>1. M \in Upto(row, n) /\ \A x \in Upto(row, n) : x <= M
    BY <1>1, <1>7, <1>9, GreatestNumber, Zenon
  <2> HIDE DEF M
  <2>2. top \in below /\ top[1] = a /\ top[2] = M /\ M \in Nat /\ top \in Nat \X Nat
    BY <1>2, <1>6, <1>7, <2>1, Zenon
  <2> HIDE DEF top
  <2>3. ASSUME NEW o \in below
        PROVE  KeyLeq(o, top)
    <3>1. o[1] < a \/ (o[1] = a /\ o[2] <= M)
      BY <1>3, <1>8, <2>1, Zenon
    <3>2. QED
      BY <1>2, <2>2, <3>1, PairLeq, Zenon
  <2>4. found \in below /\ \A o \in below : KeyLeq(o, found)
    BY <1>4, <2>2, <2>3, Zenon
  <2>5. KeyLeq(top, found) /\ KeyLeq(found, top)
    BY <2>2, <2>3, <2>4, Zenon
  <2>6. found[1] = a /\ found[2] = M
    <3>1. found \in Nat \X Nat /\ found[1] \in Nat /\ found[2] \in Nat
      BY <1>2, <2>4, Zenon
    <3>2. a < found[1] \/ (a = found[1] /\ M <= found[2])
      BY <2>2, <2>5, <3>1, PairLeq, Zenon
    <3>3. found[1] < a \/ (found[1] = a /\ found[2] <= M)
      BY <2>2, <2>5, <3>1, PairLeq, Zenon
    <3>4. QED
      BY <1>1, <2>2, <3>1, <3>2, <3>3
  <2>7. found = <<a, M>> /\ found # None
    BY <1>2, <2>4, <2>6, Zenon
  <2>8. Past(row, n) = row[M] /\ row[M] = cf[<<a, M>>]
    <3>1. M \in DOMAIN row
      BY <2>1, Zenon DEF Upto
    <3>2. QED
      BY <1>5, <1>9, <3>1, Zenon DEF Past, M
  <2>9. QED
    BY <1>1, <2>6, <2>7, <2>8, Zenon DEF cf, key, found, row
<1>10. CASE Upto(row, n) = {}
  <2>1. found = None \/ found[1] # a
    <3>1. CASE below = {}
      BY <1>4, <3>1, Zenon
    <3>2. CASE below # {}
      <4>1. \A k \in below : k[1] <= a /\ k[2] <= MaxBlock
        BY <1>1, <1>2, <1>3
      <4>2. below \subseteq Nat \X Nat
        BY <1>2, Zenon
      <4>3. \E k \in below : \A o \in below : KeyLeq(o, k)
        BY <1>1, <3>2, <4>1, <4>2, LastPair, Zenon
      <4>4. found \in below
        BY <1>4, <3>2, <4>3, Zenon
      <4>5. QED
        BY <1>8, <1>10, <4>4, Zenon
    <3>3. QED
      BY <3>1, <3>2, Zenon
  <2>2. Past(row, n) = None
    BY <1>10, Zenon DEF Past
  <2>3. QED
    BY <2>1, <2>2, Zenon DEF cf, key, found, row
<1>11. QED
  BY <1>9, <1>10, Zenon

\* The same for the slot s of an account (read_slot).
LEMMA SeekSlot ==
    ASSUME NEW cfs, NEW s \in Addresses \X Slots, NEW n \in 0..MaxBlock,
           DOMAIN cfs.account_slots_history \subseteq Addresses \X Slots \X (0..MaxBlock)
    PROVE  LET found == Seek(cfs.account_slots_history, <<s[1], s[2], n>>)
           IN  (IF s[1] = Nobody \/ found = None \/ (found # None /\ <<found[1], found[2]>> # <<s[1], s[2]>>)
                THEN None ELSE cfs.account_slots_history[found]) = Past(SlotRow(cfs, s), n)
<1> DEFINE cf == cfs.account_slots_history
           a == s[1]
           b == s[2]
           key == <<a, b, n>>
           below == {k \in DOMAIN cf : KeyLeq(k, key)}
           found == Seek(cf, key)
           row == SlotRow(cfs, s)
<1>1. /\ a \in Nat /\ a # Nobody /\ b \in Nat /\ n \in Nat /\ MaxBlock \in Nat
      /\ key \in Nat \X Nat \X Nat
  <2>1. a \in Addresses /\ b \in Slots
    BY PairParts, Zenon
  <2>2. n \in Nat /\ MaxBlock \in Nat
    BY BoundAssumption
  <2>3. QED
    BY <2>1, <2>2, AddressAssumption, Zenon
<1>2. ASSUME NEW k \in DOMAIN cf
      PROVE  /\ k \in Nat \X Nat \X Nat /\ k = <<k[1], k[2], k[3]>> /\ k # None
             /\ k[1] \in Nat /\ k[2] \in Nat /\ k[2] \in Slots
             /\ k[3] \in 0..MaxBlock /\ k[3] \in Nat
  <2>1. k \in Addresses \X Slots \X (0..MaxBlock)
    BY Zenon
  <2>2. k # None
    BY <2>1, NoneAssumption, Zenon
  <2>3. k[1] \in Addresses /\ k[2] \in Slots /\ k[3] \in 0..MaxBlock /\ k = <<k[1], k[2], k[3]>>
    BY <2>1, TripleParts, Zenon
  <2>4. k[1] \in Nat /\ k[2] \in Nat
    BY <2>3, AddressAssumption, Zenon
  <2>5. k[3] \in Nat
    BY <1>1, <2>3
  <2>6. QED
    BY <2>2, <2>3, <2>4, <2>5, Zenon
<1>3. ASSUME NEW k \in DOMAIN cf
      PROVE  KeyLeq(k, key) <=> \/ k[1] < a \/ (k[1] = a /\ k[2] < b)
                                \/ k[1] = a /\ k[2] = b /\ k[3] <= n
  <2>1. key[1] = a /\ key[2] = b /\ key[3] = n
    BY Zenon
  <2> HIDE DEF key
  <2>2. KeyLeq(k, key) <=> \/ k[1] < key[1] \/ (k[1] = key[1] /\ k[2] < key[2])
                           \/ k[1] = key[1] /\ k[2] = key[2] /\ k[3] <= key[3]
    BY <1>1, <1>2, TripleLeq, Zenon
  <2>3. QED
    BY <2>1, <2>2, Zenon
<1>4. found = IF below = {} THEN None ELSE CHOOSE k \in below : \A o \in below : KeyLeq(o, k)
  BY Zenon DEF Seek
<1>5. /\ DOMAIN row \subseteq Nat
      /\ \A m \in DOMAIN row : row[m] = cf[<<a, b, m>>]
      /\ \A m : m \in DOMAIN row <=> m \in 0..MaxBlock /\ <<a, b, m>> \in DOMAIN cf
  BY <1>1 DEF SlotRow
<1> HIDE DEF cf, a, b, key, found, row
<1>6. \A m : m \in Upto(row, n) <=> m \in 0..MaxBlock /\ <<a, b, m>> \in below
  <2>1. ASSUME NEW m, <<a, b, m>> \in DOMAIN cf
        PROVE  m <= n <=> KeyLeq(<<a, b, m>>, key)
    <3>1. <<a, b, m>>[1] = a /\ <<a, b, m>>[2] = b /\ <<a, b, m>>[3] = m /\ ~(a < a) /\ ~(b < b)
      BY <1>1
    <3>2. QED
      BY <1>3, <2>1, <3>1, Zenon
  <2>2. QED
    BY <1>5, <2>1, Zenon DEF Upto
<1>7. Upto(row, n) \subseteq Nat /\ \A x \in Upto(row, n) : x <= n
  BY <1>5, Zenon DEF Upto
<1>8. ASSUME NEW k \in below, k[1] = a, k[2] = b
      PROVE  k[3] \in Upto(row, n)
  BY <1>2, <1>6, <1>8, Zenon
<1>9. CASE Upto(row, n) # {}
  <2> DEFINE M == Max(Upto(row, n))
             top == <<a, b, M>>
  <2>1. M \in Upto(row, n) /\ \A x \in Upto(row, n) : x <= M
    BY <1>1, <1>7, <1>9, GreatestNumber, Zenon
  <2> HIDE DEF M
  <2>2. /\ top \in below /\ top[1] = a /\ top[2] = b /\ top[3] = M /\ M \in Nat
        /\ top \in Nat \X Nat \X Nat
    BY <1>2, <1>6, <1>7, <2>1, Zenon
  <2> HIDE DEF top
  <2>3. ASSUME NEW o \in below
        PROVE  KeyLeq(o, top)
    <3>1. o[1] < a \/ (o[1] = a /\ o[2] < b) \/ (o[1] = a /\ o[2] = b /\ o[3] <= M)
      BY <1>3, <1>8, <2>1, Zenon
    <3>2. QED
      BY <1>2, <2>2, <3>1, TripleLeq, Zenon
  <2>4. found \in below /\ \A o \in below : KeyLeq(o, found)
    BY <1>4, <2>2, <2>3, Zenon
  <2>5. KeyLeq(top, found) /\ KeyLeq(found, top)
    BY <2>2, <2>3, <2>4, Zenon
  <2>6. found[1] = a /\ found[2] = b /\ found[3] = M
    <3>1. found \in Nat \X Nat \X Nat /\ found[1] \in Nat /\ found[2] \in Nat /\ found[3] \in Nat
      BY <1>2, <2>4, Zenon
    <3>2. a < found[1] \/ (a = found[1] /\ b < found[2]) \/ (a = found[1] /\ b = found[2] /\ M <= found[3])
      BY <2>2, <2>5, <3>1, TripleLeq, Zenon
    <3>3. found[1] < a \/ (found[1] = a /\ found[2] < b) \/ (found[1] = a /\ found[2] = b /\ found[3] <= M)
      BY <2>2, <2>5, <3>1, TripleLeq, Zenon
    <3>4. QED
      BY <1>1, <2>2, <3>1, <3>2, <3>3
  <2>7. found = <<a, b, M>> /\ found # None
    BY <1>2, <2>4, <2>6, Zenon
  <2>8. Past(row, n) = row[M] /\ row[M] = cf[<<a, b, M>>]
    <3>1. M \in DOMAIN row
      BY <2>1, Zenon DEF Upto
    <3>2. QED
      BY <1>5, <1>9, <3>1, Zenon DEF Past, M
  <2>9. QED
    BY <1>1, <2>6, <2>7, <2>8, Zenon DEF cf, a, b, key, found, row
<1>10. CASE Upto(row, n) = {}
  <2>1. found = None \/ found[1] # a \/ found[2] # b
    <3>1. CASE below = {}
      BY <1>4, <3>1, Zenon
    <3>2. CASE below # {}
      <4>1. PICK top \in Slots : \A j \in Slots : j <= top
        BY AddressAssumption, Zenon
      <4>2. top \in Nat
        BY AddressAssumption, Zenon
      <4>3. below \subseteq Nat \X Nat \X Nat
        BY <1>2, Zenon
      <4>4. \A k \in below : k[1] <= a /\ k[2] <= top /\ k[3] <= MaxBlock
        <5>1. ASSUME NEW k \in below
              PROVE  k[1] <= a /\ k[3] <= MaxBlock
          BY <1>1, <1>2, <1>3
        <5>2. ASSUME NEW k \in below
              PROVE  k[2] <= top
          BY <1>2, <4>1, Zenon
        <5>3. QED
          BY <5>1, <5>2, Zenon
      <4>5. \E k \in below : \A o \in below : KeyLeq(o, k)
        BY <1>1, <3>2, <4>2, <4>3, <4>4, LastTriple, Zenon
      <4>6. found \in below
        BY <1>4, <3>2, <4>5, Zenon
      <4>7. QED
        BY <1>8, <1>10, <4>6, Zenon
    <3>3. QED
      BY <3>1, <3>2, Zenon
  <2>2. Past(row, n) = None
    BY <1>10, Zenon DEF Past
  <2>3. QED
    BY <2>1, <2>2, Zenon DEF cf, a, b, key, found, row
<1>11. QED
  BY <1>9, <1>10, Zenon

(***************************************************************************)
(* Histories: what a batch makes of them.                                  *)
(***************************************************************************)
\* Histories stay as they are when only edited accounts and slots are written.
LEMMA HistoryFrame ==
    ASSUME NEW cfs, NEW g, NEW cfs2, NEW g2, History(cfs, g),
           g2.blocks = g.blocks, g2.accounts = g.accounts, g.edited \subseteq g2.edited,
           cfs2.accounts_history = cfs.accounts_history,
           cfs2.account_slots_history = cfs.account_slots_history,
           \A a \in Addresses : <<a>> \notin g2.edited => Get(cfs2.accounts, a) = Get(cfs.accounts, a),
           \A s \in Addresses \X Slots :
               s \notin g2.edited => Get(cfs2.account_slots, s) = Get(cfs.account_slots, s)
    PROVE  History(cfs2, g2)
<1>1. Numbers(g2) = Numbers(g) /\ \A n : ChangesAt(g2, n) = ChangesAt(g, n)
  BY Zenon DEF Numbers, ChangesAt
<1>2. HistoryKeys(cfs2, g2)
  BY <1>1, Zenon DEF History, HistoryKeys
<1>3. ASSUME NEW a \in Addresses, <<a>> \notin g2.edited
      PROVE  AccountReplays(cfs2, g2, a)
  <2>1. AccountReplays(cfs, g, a)
    BY <1>3, Zenon DEF History
  <2>2. AccountRow(cfs2, a) = AccountRow(cfs, a) /\ Get(cfs2.accounts, a) = Get(cfs.accounts, a)
    BY <1>3, Zenon DEF AccountRow
  <2>3. QED
    BY <1>1, <2>1, <2>2, Zenon DEF AccountReplays
<1>4. ASSUME NEW s \in Addresses \X Slots, s \notin g2.edited
      PROVE  SlotReplays(cfs2, g2, s)
  <2>1. SlotReplays(cfs, g, s)
    BY <1>4, Zenon DEF History
  <2>2. SlotRow(cfs2, s) = SlotRow(cfs, s) /\ Get(cfs2.account_slots, s) = Get(cfs.account_slots, s)
    BY <1>4, Zenon DEF SlotRow
  <2>3. QED
    BY <1>1, <2>1, <2>2, Zenon DEF SlotReplays
<1>5. QED
  BY <1>2, <1>3, <1>4, Zenon DEF History

\* Without blocks and without entries there is nothing to replay.
LEMMA EmptyHistory ==
    ASSUME NEW cfs, NEW g, g.blocks = <<>>, g.accounts = Empty,
           \A cf \in StateFamilies : DOMAIN cfs[cf] = {}
    PROVE  History(cfs, g)
<1>1. Len(g.blocks) = 0
  OBVIOUS
<1>2. Numbers(g) = {}
  BY <1>1 DEF Numbers
<1>3. /\ DOMAIN cfs.accounts = {} /\ DOMAIN cfs.accounts_history = {}
      /\ DOMAIN cfs.account_slots = {} /\ DOMAIN cfs.account_slots_history = {}
  BY Zenon DEF StateFamilies
<1>4. \A a : Get(g.accounts, a) = None
  BY Zenon DEF Get, Empty
<1>5. \A a : AccountReplays(cfs, g, a)
  BY <1>1, <1>2, <1>3, <1>4, Zenon DEF AccountReplays, Before, Get
<1>6. \A s : SlotReplays(cfs, g, s)
  BY <1>1, <1>2, <1>3, Zenon DEF SlotReplays, Before, Get
<1>7. HistoryKeys(cfs, g)
  BY <1>3, Zenon DEF HistoryKeys
<1>8. QED
  BY <1>5, <1>6, <1>7, Zenon DEF History

\* What a batch writes of accounts and slots (prepare_batch_with_execution_changes).
Updated(cfs, changes) ==
    [a \in DOMAIN changes.accounts |-> UpdateAccount(Get(cfs.accounts, a), changes.accounts[a])]
AccountEntries(cfs, k, changes) ==
    [x \in {<<a, k>> : a \in DOMAIN Updated(cfs, changes)} |-> Updated(cfs, changes)[x[1]]]
SlotEntries(k, changes) ==
    [x \in {<<s[1], s[2], k>> : s \in DOMAIN changes.slots} |-> changes.slots[<<x[1], x[2]>>]]

StateWritten(cfs, cfs2, k, changes) ==
    /\ cfs2.accounts = Insert(cfs.accounts, Updated(cfs, changes))
    /\ cfs2.accounts_history = Insert(cfs.accounts_history, AccountEntries(cfs, k, changes))
    /\ cfs2.account_slots = Insert(cfs.account_slots, changes.slots)
    /\ cfs2.account_slots_history = Insert(cfs.account_slots_history, SlotEntries(k, changes))

LEMMA ChangesState ==
    ASSUME NEW cfs, DOMAIN cfs = FamilyNames, NEW k, NEW changes
    PROVE  StateWritten(cfs, ExecutionChanges(cfs, k, changes), k, changes)
<1> DEFINE A == Insert(cfs.accounts, Updated(cfs, changes))
           B == Insert(cfs.accounts_history, AccountEntries(cfs, k, changes))
           C == Insert(cfs.account_slots, changes.slots)
           D == Insert(cfs.account_slots_history, SlotEntries(k, changes))
           E == Insert(cfs.block_changes, One(k, changes))
           cfs2 == [cfs EXCEPT !.accounts = A, !.accounts_history = B, !.account_slots = C,
                               !.account_slots_history = D, !.block_changes = E]
<1>1. ExecutionChanges(cfs, k, changes) = cfs2
  BY Zenon DEF ExecutionChanges, Updated, AccountEntries, SlotEntries
<1> HIDE DEF A, B, C, D, E
<1>2. cfs2.accounts = A /\ cfs2.accounts_history = B /\ cfs2.account_slots = C /\ cfs2.account_slots_history = D
  BY Families, Zenon
<1>3. QED
  BY <1>1, <1>2, Zenon DEF A, B, C, D, StateWritten

LEMMA BatchState ==
    ASSUME NEW cfs, DOMAIN cfs = FamilyNames, NEW block, NEW k, NEW changes
    PROVE  StateWritten(cfs, ExecutionChanges(BlockInsertion(cfs, block), k, changes), k, changes)
<1> DEFINE mid == BlockInsertion(cfs, block)
<1>1. /\ DOMAIN mid = FamilyNames /\ mid.accounts = cfs.accounts
      /\ mid.accounts_history = cfs.accounts_history /\ mid.account_slots = cfs.account_slots
      /\ mid.account_slots_history = cfs.account_slots_history
  BY Families, Zenon DEF BlockInsertion
<1> DEFINE cfs2 == ExecutionChanges(mid, k, changes)
<1> HIDE DEF mid
<1>2. StateWritten(mid, cfs2, k, changes)
  BY <1>1, ChangesState, Zenon
<1> HIDE DEF cfs2
<1>3. Updated(mid, changes) = Updated(cfs, changes)
  BY <1>1, Zenon DEF Updated
<1>4. AccountEntries(mid, k, changes) = AccountEntries(cfs, k, changes)
  BY <1>3, Zenon DEF AccountEntries
<1>5. StateWritten(cfs, cfs2, k, changes)
  BY <1>1, <1>2, <1>3, <1>4, Zenon DEF StateWritten
<1>6. QED
  BY <1>5, Zenon DEF cfs2, mid

LEMMA BatchAccount ==
    ASSUME NEW cfs, NEW cfs2, NEW k, NEW changes, StateWritten(cfs, cfs2, k, changes), NEW a
    PROVE  /\ Get(cfs2.accounts, a) = ApplyChange(Get(cfs.accounts, a), a, changes)
           /\ \A x : <<a, x>> \in DOMAIN cfs2.accounts_history
                       <=> \/ <<a, x>> \in DOMAIN cfs.accounts_history
                           \/ x = k /\ a \in DOMAIN changes.accounts
           /\ \A x : <<a, x>> \in DOMAIN cfs.accounts_history /\ x # k =>
                cfs2.accounts_history[<<a, x>>] = cfs.accounts_history[<<a, x>>]
           /\ a \in DOMAIN changes.accounts =>
                cfs2.accounts_history[<<a, k>>] = ApplyChange(Get(cfs.accounts, a), a, changes)
<1> DEFINE updated == Updated(cfs, changes)
           entries == AccountEntries(cfs, k, changes)
           keys == {<<b, k>> : b \in DOMAIN updated}
<1>1. cfs2.accounts = Insert(cfs.accounts, updated) /\ cfs2.accounts_history = Insert(cfs.accounts_history, entries)
  BY Zenon DEF StateWritten
<1>2. /\ DOMAIN updated = DOMAIN changes.accounts
      /\ a \in DOMAIN changes.accounts => updated[a] = ApplyChange(Get(cfs.accounts, a), a, changes)
      /\ a \notin DOMAIN changes.accounts => ApplyChange(Get(cfs.accounts, a), a, changes) = Get(cfs.accounts, a)
  BY Zenon DEF ApplyChange, Updated
<1> HIDE DEF updated
<1>3. \A x : <<a, x>> \in keys <=> x = k /\ a \in DOMAIN changes.accounts
  BY <1>2, Zenon
<1>4. DOMAIN entries = keys /\ (a \in DOMAIN changes.accounts => entries[<<a, k>>] = updated[a])
  <2>1. DOMAIN entries = keys /\ \A x \in keys : entries[x] = updated[x[1]]
    BY Zenon DEF AccountEntries, updated
  <2> HIDE DEF keys, entries
  <2>2. QED
    BY <1>3, <2>1, Zenon
<1> HIDE DEF keys, entries
<1>5. /\ DOMAIN cfs2.accounts = DOMAIN updated \cup DOMAIN cfs.accounts
      /\ \A x \in DOMAIN updated : cfs2.accounts[x] = updated[x]
      /\ \A x \in DOMAIN cfs.accounts \ DOMAIN updated : cfs2.accounts[x] = cfs.accounts[x]
  BY <1>1, Zenon DEF Insert
<1>6. /\ DOMAIN cfs2.accounts_history = keys \cup DOMAIN cfs.accounts_history
      /\ \A x \in keys : cfs2.accounts_history[x] = entries[x]
      /\ \A x \in DOMAIN cfs.accounts_history \ keys : cfs2.accounts_history[x] = cfs.accounts_history[x]
  BY <1>1, <1>4, Zenon DEF Insert
<1>7. Get(cfs2.accounts, a) = ApplyChange(Get(cfs.accounts, a), a, changes)
  <2>1. CASE a \in DOMAIN changes.accounts
    <3>1. Get(cfs2.accounts, a) = updated[a]
      BY <1>2, <1>5, <2>1, Zenon DEF Get
    <3>2. QED
      BY <1>2, <2>1, <3>1, Zenon
  <2>2. CASE a \notin DOMAIN changes.accounts
    <3>1. Get(cfs2.accounts, a) = Get(cfs.accounts, a)
      BY <1>2, <1>5, <2>2, Zenon DEF Get
    <3>2. QED
      BY <1>2, <2>2, <3>1, Zenon
  <2>3. QED
    BY <2>1, <2>2, Zenon
<1>8. QED
  BY <1>2, <1>3, <1>4, <1>6, <1>7, Zenon

LEMMA BatchSlot ==
    ASSUME NEW cfs, NEW cfs2, NEW k, NEW changes, StateWritten(cfs, cfs2, k, changes),
           DOMAIN changes.slots \subseteq Addresses \X Slots, NEW s \in Addresses \X Slots
    PROVE  /\ Get(cfs2.account_slots, s) = ApplySlotChange(Get(cfs.account_slots, s), s, changes)
           /\ \A x : <<s[1], s[2], x>> \in DOMAIN cfs2.account_slots_history
                       <=> \/ <<s[1], s[2], x>> \in DOMAIN cfs.account_slots_history
                           \/ x = k /\ s \in DOMAIN changes.slots
           /\ \A x : <<s[1], s[2], x>> \in DOMAIN cfs.account_slots_history /\ x # k =>
                cfs2.account_slots_history[<<s[1], s[2], x>>] = cfs.account_slots_history[<<s[1], s[2], x>>]
           /\ s \in DOMAIN changes.slots =>
                cfs2.account_slots_history[<<s[1], s[2], k>>] = ApplySlotChange(Get(cfs.account_slots, s), s, changes)
<1> DEFINE keys == {<<o[1], o[2], k>> : o \in DOMAIN changes.slots}
           entries == SlotEntries(k, changes)
<1>1. /\ cfs2.account_slots = Insert(cfs.account_slots, changes.slots)
      /\ cfs2.account_slots_history = Insert(cfs.account_slots_history, entries)
  BY Zenon DEF StateWritten
<1>2. /\ s \in DOMAIN changes.slots =>
           changes.slots[s] = ApplySlotChange(Get(cfs.account_slots, s), s, changes)
      /\ s \notin DOMAIN changes.slots =>
           ApplySlotChange(Get(cfs.account_slots, s), s, changes) = Get(cfs.account_slots, s)
  BY Zenon DEF ApplySlotChange
<1>3. s = <<s[1], s[2]>> /\ \A o \in DOMAIN changes.slots : o = <<o[1], o[2]>>
  BY PairParts, Zenon
<1>4. \A x : <<s[1], s[2], x>> \in keys <=> x = k /\ s \in DOMAIN changes.slots
  <2>1. ASSUME NEW x, <<s[1], s[2], x>> \in keys
        PROVE  x = k /\ s \in DOMAIN changes.slots
    <3>1. PICK o \in DOMAIN changes.slots : <<s[1], s[2], x>> = <<o[1], o[2], k>>
      BY <2>1, Zenon
    <3>2. s[1] = o[1] /\ s[2] = o[2] /\ x = k
      BY <3>1, Zenon
    <3>3. QED
      BY <1>3, <3>2, Zenon
  <2>2. QED
    BY <2>1, Zenon
<1>5. DOMAIN entries = keys /\ (s \in DOMAIN changes.slots => entries[<<s[1], s[2], k>>] = changes.slots[s])
  <2>1. DOMAIN entries = keys /\ \A x \in keys : entries[x] = changes.slots[<<x[1], x[2]>>]
    BY Zenon DEF SlotEntries
  <2>2. <<s[1], s[2], k>>[1] = s[1] /\ <<s[1], s[2], k>>[2] = s[2]
    BY Zenon
  <2> HIDE DEF entries, keys
  <2>3. QED
    BY <1>3, <1>4, <2>1, <2>2, Zenon
<1> HIDE DEF keys, entries
<1>6. /\ DOMAIN cfs2.account_slots = DOMAIN changes.slots \cup DOMAIN cfs.account_slots
      /\ \A x \in DOMAIN changes.slots : cfs2.account_slots[x] = changes.slots[x]
      /\ \A x \in DOMAIN cfs.account_slots \ DOMAIN changes.slots : cfs2.account_slots[x] = cfs.account_slots[x]
  BY <1>1, Zenon DEF Insert
<1>7. /\ DOMAIN cfs2.account_slots_history = keys \cup DOMAIN cfs.account_slots_history
      /\ \A x \in keys : cfs2.account_slots_history[x] = entries[x]
      /\ \A x \in DOMAIN cfs.account_slots_history \ keys :
           cfs2.account_slots_history[x] = cfs.account_slots_history[x]
  BY <1>1, <1>5, Zenon DEF Insert
<1>8. Get(cfs2.account_slots, s) = ApplySlotChange(Get(cfs.account_slots, s), s, changes)
  <2>1. CASE s \in DOMAIN changes.slots
    <3>1. Get(cfs2.account_slots, s) = changes.slots[s]
      BY <1>6, <2>1, Zenon DEF Get
    <3>2. QED
      BY <1>2, <2>1, <3>1, Zenon
  <2>2. CASE s \notin DOMAIN changes.slots
    <3>1. Get(cfs2.account_slots, s) = Get(cfs.account_slots, s)
      BY <1>6, <2>2, Zenon DEF Get
    <3>2. QED
      BY <1>2, <2>2, <3>1, Zenon
  <2>3. QED
    BY <2>1, <2>2, Zenon
<1>9. QED
  BY <1>2, <1>4, <1>5, <1>7, <1>8, Zenon

\* A ghost that accepts one more block.
GhostGrows(g, g2, k, changes) ==
    /\ Len(g.blocks) = k /\ Len(g2.blocks) = k + 1
    /\ \A n \in 0..(k - 1) : ChangesAt(g2, n) = ChangesAt(g, n)
    /\ ChangesAt(g2, k) = changes
    /\ g2.accounts = g.accounts /\ g2.edited = g.edited

LEMMA GrownNumbers ==
    ASSUME NEW k \in Nat, k <= MaxBlock
    PROVE  /\ 0..k = 0..(k - 1) \cup {k} /\ 0..k \subseteq 0..MaxBlock
           /\ k \notin 0..(k - 1) /\ (k + 1) - 1 = k
BY BoundAssumption

\* An account, after the batch of one more block.
LEMMA AccountExtends ==
    ASSUME NEW cfs, NEW cfs2, NEW g, NEW g2, NEW k \in Nat, k <= MaxBlock, NEW changes,
           GhostGrows(g, g2, k, changes), StateWritten(cfs, cfs2, k, changes),
           HistoryKeys(cfs, g), k = 0 => g.accounts = Empty,
           NEW a \in Addresses, AccountReplays(cfs, g, a)
    PROVE  AccountReplays(cfs2, g2, a)
<1> DEFINE row == AccountRow(cfs, a)
           row2 == AccountRow(cfs2, a)
           base == Get(g.accounts, a)
           left == ApplyChange(Get(cfs.accounts, a), a, changes)
<1>1. /\ 0..k = 0..(k - 1) \cup {k} /\ 0..k \subseteq 0..MaxBlock
      /\ k \notin 0..(k - 1) /\ (k + 1) - 1 = k
  BY GrownNumbers, Zenon
<1>2. Numbers(g) = 0..(k - 1) /\ Numbers(g2) = 0..k
  BY <1>1, Zenon DEF Numbers, GhostGrows
<1>3. /\ DOMAIN row = {x \in 0..MaxBlock : <<a, x>> \in DOMAIN cfs.accounts_history}
      /\ \A m \in DOMAIN row : row[m] = cfs.accounts_history[<<a, m>>]
      /\ DOMAIN row2 = {x \in 0..MaxBlock : <<a, x>> \in DOMAIN cfs2.accounts_history}
      /\ \A m \in DOMAIN row2 : row2[m] = cfs2.accounts_history[<<a, m>>]
  BY Zenon DEF AccountRow
<1>4. \A x : <<a, x>> \in DOMAIN cfs.accounts_history => x \in 0..(k - 1)
  BY <1>2, Zenon DEF HistoryKeys
<1>5. /\ Get(cfs2.accounts, a) = left
      /\ \A x : <<a, x>> \in DOMAIN cfs2.accounts_history
                  <=> <<a, x>> \in DOMAIN cfs.accounts_history \/ (x = k /\ a \in DOMAIN changes.accounts)
      /\ \A x : <<a, x>> \in DOMAIN cfs.accounts_history /\ x # k =>
           cfs2.accounts_history[<<a, x>>] = cfs.accounts_history[<<a, x>>]
      /\ a \in DOMAIN changes.accounts => cfs2.accounts_history[<<a, k>>] = left
  BY BatchAccount
<1>6. /\ \A n \in 0..(k - 1) : Past(row, n) = ApplyChange(Before(row, base, n), a, ChangesAt(g, n))
      /\ Get(cfs.accounts, a) = Before(row, base, k)
  BY <1>2, Zenon DEF AccountReplays, GhostGrows
<1>7. a \notin DOMAIN changes.accounts => left = Get(cfs.accounts, a)
  BY Zenon DEF ApplyChange
<1>8. left = ApplyChange(Before(row, base, k), a, changes)
  BY <1>6, Zenon
<1>9. k = 0 => base = None
  BY Zenon DEF Get, Empty
<1> HIDE DEF row, row2, base, left
<1>10. RowGrows(row, row2, k, base, left)
  <2>1. DOMAIN row \subseteq 0..(k - 1) /\ DOMAIN row2 \subseteq 0..k
    BY <1>1, <1>3, <1>4, <1>5, Zenon
  <2>2. \A m \in 0..(k - 1) : m \in DOMAIN row2 <=> m \in DOMAIN row
    BY <1>1, <1>3, <1>5, Zenon
  <2>3. \A m \in DOMAIN row : row2[m] = row[m]
    BY <1>1, <1>3, <1>5, <2>1, <2>2, Zenon
  <2>4. k \in DOMAIN row2 <=> a \in DOMAIN changes.accounts
    BY <1>1, <1>3, <1>4, <1>5, Zenon
  <2>5. left = IF k \in DOMAIN row2 THEN row2[k] ELSE Before(row, base, k)
    BY <1>3, <1>5, <1>6, <1>7, <2>4, Zenon
  <2>6. QED
    BY <1>9, <2>1, <2>2, <2>3, <2>5, Zenon DEF RowGrows
<1>11. /\ \A n \in 0..(k - 1) :
            Past(row2, n) = Past(row, n) /\ Before(row2, base, n) = Before(row, base, n)
       /\ Before(row2, base, k) = Before(row, base, k)
       /\ Past(row2, k) = left /\ Before(row2, base, k + 1) = left
  BY <1>10, RowAppend
<1>12. ASSUME NEW n \in Numbers(g2)
       PROVE  Past(row2, n) = ApplyChange(Before(row2, base, n), a, ChangesAt(g2, n))
  <2>1. CASE n = k
    BY <1>8, <1>11, <2>1, Zenon DEF GhostGrows
  <2>2. CASE n \in 0..(k - 1)
    BY <1>6, <1>11, <2>2, Zenon DEF GhostGrows
  <2>3. QED
    BY <1>1, <1>2, <2>1, <2>2
<1>13. Get(cfs2.accounts, a) = Before(row2, base, Len(g2.blocks)) /\ base = Get(g2.accounts, a)
  BY <1>5, <1>11, Zenon DEF GhostGrows, base
<1>14. QED
  BY <1>12, <1>13, Zenon DEF AccountReplays, row2

\* A slot, after the batch of one more block.
LEMMA SlotExtends ==
    ASSUME NEW cfs, NEW cfs2, NEW g, NEW g2, NEW k \in Nat, k <= MaxBlock, NEW changes,
           GhostGrows(g, g2, k, changes), StateWritten(cfs, cfs2, k, changes),
           HistoryKeys(cfs, g), DOMAIN changes.slots \subseteq Addresses \X Slots,
           NEW s \in Addresses \X Slots, SlotReplays(cfs, g, s)
    PROVE  SlotReplays(cfs2, g2, s)
<1> DEFINE row == SlotRow(cfs, s)
           row2 == SlotRow(cfs2, s)
           left == ApplySlotChange(Get(cfs.account_slots, s), s, changes)
<1>1. /\ 0..k = 0..(k - 1) \cup {k} /\ 0..k \subseteq 0..MaxBlock
      /\ k \notin 0..(k - 1) /\ (k + 1) - 1 = k
  BY GrownNumbers, Zenon
<1>2. Numbers(g) = 0..(k - 1) /\ Numbers(g2) = 0..k
  BY <1>1, Zenon DEF Numbers, GhostGrows
<1>3. /\ DOMAIN row = {x \in 0..MaxBlock : <<s[1], s[2], x>> \in DOMAIN cfs.account_slots_history}
      /\ \A m \in DOMAIN row : row[m] = cfs.account_slots_history[<<s[1], s[2], m>>]
      /\ DOMAIN row2 = {x \in 0..MaxBlock : <<s[1], s[2], x>> \in DOMAIN cfs2.account_slots_history}
      /\ \A m \in DOMAIN row2 : row2[m] = cfs2.account_slots_history[<<s[1], s[2], m>>]
  BY Zenon DEF SlotRow
<1>4. \A x : <<s[1], s[2], x>> \in DOMAIN cfs.account_slots_history => x \in 0..(k - 1)
  BY <1>2, Zenon DEF HistoryKeys
<1>5. /\ Get(cfs2.account_slots, s) = left
      /\ \A x : <<s[1], s[2], x>> \in DOMAIN cfs2.account_slots_history
                  <=> <<s[1], s[2], x>> \in DOMAIN cfs.account_slots_history \/ (x = k /\ s \in DOMAIN changes.slots)
      /\ \A x : <<s[1], s[2], x>> \in DOMAIN cfs.account_slots_history /\ x # k =>
           cfs2.account_slots_history[<<s[1], s[2], x>>] = cfs.account_slots_history[<<s[1], s[2], x>>]
      /\ s \in DOMAIN changes.slots => cfs2.account_slots_history[<<s[1], s[2], k>>] = left
  BY BatchSlot
<1>6. /\ \A n \in 0..(k - 1) : Past(row, n) = ApplySlotChange(Before(row, None, n), s, ChangesAt(g, n))
      /\ Get(cfs.account_slots, s) = Before(row, None, k)
  BY <1>2, Zenon DEF SlotReplays, GhostGrows
<1>7. s \notin DOMAIN changes.slots => left = Get(cfs.account_slots, s)
  BY Zenon DEF ApplySlotChange
<1>8. left = ApplySlotChange(Before(row, None, k), s, changes)
  BY <1>6, Zenon
<1> HIDE DEF row, row2, left
<1>10. RowGrows(row, row2, k, None, left)
  <2>1. DOMAIN row \subseteq 0..(k - 1) /\ DOMAIN row2 \subseteq 0..k
    BY <1>1, <1>3, <1>4, <1>5, Zenon
  <2>2. \A m \in 0..(k - 1) : m \in DOMAIN row2 <=> m \in DOMAIN row
    BY <1>1, <1>3, <1>5, Zenon
  <2>3. \A m \in DOMAIN row : row2[m] = row[m]
    BY <1>1, <1>3, <1>5, <2>1, <2>2, Zenon
  <2>4. k \in DOMAIN row2 <=> s \in DOMAIN changes.slots
    BY <1>1, <1>3, <1>4, <1>5, Zenon
  <2>5. left = IF k \in DOMAIN row2 THEN row2[k] ELSE Before(row, None, k)
    BY <1>3, <1>5, <1>6, <1>7, <2>4, Zenon
  <2>6. QED
    BY <2>1, <2>2, <2>3, <2>5, Zenon DEF RowGrows
<1>11. /\ \A n \in 0..(k - 1) :
            Past(row2, n) = Past(row, n) /\ Before(row2, None, n) = Before(row, None, n)
       /\ Before(row2, None, k) = Before(row, None, k)
       /\ Past(row2, k) = left /\ Before(row2, None, k + 1) = left
  BY <1>10, RowAppend
<1>12. ASSUME NEW n \in Numbers(g2)
       PROVE  Past(row2, n) = ApplySlotChange(Before(row2, None, n), s, ChangesAt(g2, n))
  <2>1. CASE n = k
    BY <1>8, <1>11, <2>1, Zenon DEF GhostGrows
  <2>2. CASE n \in 0..(k - 1)
    BY <1>6, <1>11, <2>2, Zenon DEF GhostGrows
  <2>3. QED
    BY <1>1, <1>2, <2>1, <2>2
<1>13. Get(cfs2.account_slots, s) = Before(row2, None, Len(g2.blocks))
  BY <1>5, <1>11, Zenon DEF GhostGrows
<1>14. QED
  BY <1>12, <1>13, Zenon DEF SlotReplays, row2

\* The batch of one more block keeps the histories in step with the blocks (save_block).
LEMMA HistoryExtends ==
    ASSUME NEW cfs, NEW cfs2, NEW g, NEW g2, NEW k \in Nat, k <= MaxBlock, NEW changes,
           GhostGrows(g, g2, k, changes), StateWritten(cfs, cfs2, k, changes), History(cfs, g),
           k = 0 => g.blocks = <<>>, g2.blocks # <<>>,
           DOMAIN changes.accounts \subseteq Addresses, DOMAIN changes.slots \subseteq Addresses \X Slots
    PROVE  History(cfs2, g2)
<1>1. Numbers(g) = 0..(k - 1) /\ Numbers(g2) = 0..k /\ 0..k = 0..(k - 1) \cup {k}
  BY GrownNumbers, Zenon DEF Numbers, GhostGrows
<1>2. HistoryKeys(cfs, g) /\ (k = 0 => g.accounts = Empty)
  BY Zenon DEF History
<1>3. DOMAIN cfs2.accounts_history \subseteq Addresses \X Numbers(g2)
  <2>1. ASSUME NEW x \in DOMAIN cfs2.accounts_history
        PROVE  \/ x \in DOMAIN cfs.accounts_history
               \/ \E a \in DOMAIN changes.accounts : x = <<a, k>>
    <3>1. DOMAIN cfs2.accounts_history = DOMAIN AccountEntries(cfs, k, changes) \cup DOMAIN cfs.accounts_history
      BY Zenon DEF StateWritten, Insert
    <3>2. DOMAIN Updated(cfs, changes) = DOMAIN changes.accounts
      BY Zenon DEF Updated
    <3>3. DOMAIN AccountEntries(cfs, k, changes) = {<<a, k>> : a \in DOMAIN changes.accounts}
      BY <3>2, Zenon DEF AccountEntries
    <3>4. QED
      BY <3>1, <3>3, Zenon
  <2>2. DOMAIN cfs.accounts_history \subseteq Addresses \X Numbers(g2)
    BY <1>1, <1>2, Zenon DEF HistoryKeys
  <2>3. \A a \in DOMAIN changes.accounts : <<a, k>> \in Addresses \X Numbers(g2)
    BY <1>1, Zenon
  <2>4. QED
    BY <2>1, <2>2, <2>3, Zenon
<1>4. DOMAIN cfs2.account_slots_history \subseteq Addresses \X Slots \X Numbers(g2)
  <2>1. ASSUME NEW x \in DOMAIN cfs2.account_slots_history
        PROVE  \/ x \in DOMAIN cfs.account_slots_history
               \/ \E s \in DOMAIN changes.slots : x = <<s[1], s[2], k>>
    <3>1. DOMAIN cfs2.account_slots_history = DOMAIN SlotEntries(k, changes) \cup DOMAIN cfs.account_slots_history
      BY Zenon DEF StateWritten, Insert
    <3>2. DOMAIN SlotEntries(k, changes) = {<<s[1], s[2], k>> : s \in DOMAIN changes.slots}
      BY Zenon DEF SlotEntries
    <3>3. QED
      BY <3>1, <3>2, Zenon
  <2>2. DOMAIN cfs.account_slots_history \subseteq Addresses \X Slots \X Numbers(g2)
    BY <1>1, <1>2 DEF HistoryKeys
  <2>3. \A s \in DOMAIN changes.slots : <<s[1], s[2], k>> \in Addresses \X Slots \X Numbers(g2)
    <3>1. ASSUME NEW s \in DOMAIN changes.slots
          PROVE  s[1] \in Addresses /\ s[2] \in Slots
      BY PairParts, Zenon
    <3>2. QED
      BY <1>1, <3>1, Zenon
  <2>4. QED
    BY <2>1, <2>2, <2>3, Zenon
<1>5. g2.edited = g.edited
  BY Zenon DEF GhostGrows
<1>6. ASSUME NEW a \in Addresses, <<a>> \notin g2.edited
      PROVE  AccountReplays(cfs2, g2, a)
  <2>1. AccountReplays(cfs, g, a)
    BY <1>5, <1>6, Zenon DEF History
  <2>2. QED
    BY <1>2, <2>1, AccountExtends
<1>7. ASSUME NEW s \in Addresses \X Slots, s \notin g2.edited
      PROVE  SlotReplays(cfs2, g2, s)
  <2>1. SlotReplays(cfs, g, s)
    BY <1>5, <1>7, Zenon DEF History
  <2>2. QED
    BY <1>2, <2>1, SlotExtends
<1>8. QED
  BY <1>3, <1>4, <1>6, <1>7, Zenon DEF History, HistoryKeys

\* The genesis accounts, written to families that are empty (save_accounts).
LEMMA GenesisAccountReplays ==
    ASSUME NEW cfs, NEW cfs2, NEW g2, NEW accounts, NEW a \in Addresses,
           DOMAIN cfs.accounts = {}, DOMAIN cfs.accounts_history = {},
           cfs2.accounts = Insert(cfs.accounts, accounts),
           cfs2.accounts_history =
               Insert(cfs.accounts_history, [x \in {<<b, 0>> : b \in DOMAIN accounts} |-> accounts[x[1]]]),
           Len(g2.blocks) = 1, ChangesAt(g2, 0) = NoChanges, g2.accounts = accounts
    PROVE  AccountReplays(cfs2, g2, a)
<1> DEFINE row == AccountRow(cfs2, a)
           base == Get(accounts, a)
           entries == [x \in {<<b, 0>> : b \in DOMAIN accounts} |-> accounts[x[1]]]
<1>1. Numbers(g2) = {0} /\ 0 \in 0..MaxBlock /\ 0..MaxBlock \subseteq Nat /\ 1 # 0 /\ 1 - 1 = 0
  BY BoundAssumption DEF Numbers
<1>2. Get(cfs2.accounts, a) = base
  BY Zenon DEF Insert, Get
<1>3. /\ DOMAIN entries = {<<b, 0>> : b \in DOMAIN accounts}
      /\ \A x \in DOMAIN entries : entries[x] = accounts[x[1]]
  BY Zenon
<1>4. cfs2.accounts_history = Insert(cfs.accounts_history, entries)
  BY Zenon
<1> HIDE DEF entries
<1>5. /\ DOMAIN cfs2.accounts_history = DOMAIN entries
      /\ \A x \in DOMAIN entries : cfs2.accounts_history[x] = entries[x]
  BY <1>4, Zenon DEF Insert
<1>6. \A x : <<a, x>> \in DOMAIN entries <=> x = 0 /\ a \in DOMAIN accounts
  BY <1>3, Zenon
<1>7. /\ DOMAIN row = {x \in 0..MaxBlock : <<a, x>> \in DOMAIN cfs2.accounts_history}
      /\ \A m \in DOMAIN row : row[m] = cfs2.accounts_history[<<a, m>>]
  BY Zenon DEF AccountRow
<1> HIDE DEF row
<1>8. DOMAIN row \subseteq Nat /\ 0 \in Nat
  BY <1>1, <1>7, Zenon
<1>9. Past(row, 0) = base
  <2>1. CASE a \in DOMAIN accounts
    <3>1. <<a, 0>> \in DOMAIN entries /\ <<a, 0>>[1] = a
      BY <1>6, <2>1, Zenon
    <3>2. cfs2.accounts_history[<<a, 0>>] = accounts[a]
      BY <1>3, <1>5, <3>1, Zenon
    <3>3. 0 \in DOMAIN row /\ row[0] = accounts[a]
      BY <1>1, <1>5, <1>7, <3>1, <3>2, Zenon
    <3>4. QED
      BY <1>8, <2>1, <3>3, RowPast, Zenon DEF Get
  <2>2. CASE a \notin DOMAIN accounts
    <3>1. 0 \notin DOMAIN row
      BY <1>5, <1>6, <1>7, <2>2, Zenon
    <3>2. QED
      BY <1>8, <2>2, <3>1, RowPast, Zenon DEF Get, Before
  <2>3. QED
    BY <2>1, <2>2, Zenon
<1>10. Before(row, base, 0) = base /\ Before(row, base, 1) = Past(row, 0)
  BY <1>1, Zenon DEF Before
<1>11. ApplyChange(base, a, NoChanges) = base
  BY Zenon DEF ApplyChange, NoChanges, Empty
<1> HIDE DEF base
<1>12. Past(row, 0) = ApplyChange(Before(row, base, 0), a, ChangesAt(g2, 0))
  BY <1>9, <1>10, <1>11, Zenon
<1>13. Get(cfs2.accounts, a) = Before(row, base, Len(g2.blocks))
  BY <1>2, <1>9, <1>10, Zenon
<1>14. base = Get(g2.accounts, a)
  BY Zenon DEF base
<1>15. QED
  BY <1>1, <1>12, <1>13, <1>14, Zenon DEF AccountReplays, row

(***************************************************************************)
(* Histories: one lemma per step.                                          *)
(***************************************************************************)
\* The parts of the ghost.
LEMMA GhostParts ==
    ASSUME NEW g, IsGhost(g)
    PROVE  DOMAIN g = {"blocks", "accounts", "edited", "torn"}
BY Zenon DEF IsGhost

\* A step that writes nothing.
LEMMA HistoryQuiet ==
    ASSUME HistoryInv, UNCHANGED <<build, db, disk, ghost>>, Genuine' => Genuine, GenesisHistory'
    PROVE  HistoryInv'
BY Zenon DEF HistoryInv

\* A step with one write.
LEMMA HistoryWrite ==
    ASSUME HistoryInv, NEW cfs, NEW acc, NEW synced, Write(cfs, acc, synced),
           ~acc.torn \/ job'.op \in {"accounts", "slots"} => History(cfs, acc), GenesisHistory'
    PROVE  HistoryInv'
<1>1. db' = cfs /\ ghost' = acc
  BY Zenon DEF Write
<1>2. disk' = [db |-> cfs, ghost |-> acc] \/ disk' = disk
  BY Zenon DEF Write
<1>3. Genuine' => History(cfs, acc)
  BY <1>1, Zenon DEF Genuine
<1>4. ~disk'.ghost.torn => History(disk'.db, disk'.ghost)
  <2>1. CASE disk' = [db |-> cfs, ghost |-> acc]
    <3>1. disk'.db = cfs /\ disk'.ghost = acc
      BY <2>1, Zenon
    <3>2. QED
      BY <3>1, Zenon
  <2>2. CASE disk' = disk
    BY <2>2, Zenon DEF HistoryInv
  <2>3. QED
    BY <1>2, <2>1, <2>2, Zenon
<1>5. QED
  BY <1>1, <1>3, <1>4, Zenon DEF HistoryInv

LEMMA InitHistory ==
    ASSUME Init
    PROVE  HistoryInv
<1>1. /\ DOMAIN db = FamilyNames /\ \A cf \in FamilyNames : db[cf] = Empty
      /\ disk.db = db /\ disk.ghost = ghost
  BY Zenon DEF Init
<1>2. ghost.blocks = <<>> /\ ghost.accounts = Empty
  BY Zenon DEF Init, NoGhost
<1>3. \A cf \in StateFamilies : DOMAIN db[cf] = {}
  BY <1>1, Families, Zenon DEF StateFamilies, Empty
<1>4. History(db, ghost)
  BY <1>2, <1>3, EmptyHistory, Zenon
<1>5. GenesisHistory
  BY Zenon DEF Init, Down, GenesisHistory
<1>6. QED
  BY <1>1, <1>4, <1>5, Zenon DEF HistoryInv

LEMMA HistorySaveBlock ==
    ASSUME StorageInv, HistoryInv, NEW t \in Times, NEW body \in Bodies, SaveBlock(t, body)
    PROVE  HistoryInv'
<1> DEFINE n == NextBlockNumber
           block == MinedBlock(n, t, body)
           entry == [block |-> block, changes |-> body.changes]
           cfs == ExecutionChanges(BlockInsertion(db, block), n, body.changes)
           blocks == Append(ghost.blocks, entry)
           acc == [ghost EXCEPT !.blocks = blocks]
<1>1. /\ job = Idle /\ n <= MaxBlock /\ Write(cfs, acc, build.sync)
      /\ job' = [op |-> "publish", number |-> n]
  BY Zenon DEF SaveBlock
<1>2. DOMAIN db = FamilyNames /\ DOMAIN ghost = {"blocks", "accounts", "edited", "torn"}
  BY GhostParts, Zenon DEF StorageInv, Shapes
<1>3. entry.changes = body.changes
  BY Zenon
<1>4. StateWritten(db, cfs, n, body.changes)
  BY <1>2, BatchState, Zenon
<1>5. job.op = "idle" /\ job'.op = "publish"
  BY <1>1, Zenon DEF Idle
<1>6. GenesisHistory'
  BY <1>5, Zenon DEF GenesisHistory
<1> HIDE DEF n, entry, cfs, blocks
<1>7. acc.blocks = blocks /\ acc.torn = ghost.torn /\ acc.accounts = ghost.accounts /\ acc.edited = ghost.edited
  BY <1>2, Zenon
<1> HIDE DEF acc
<1>8. ASSUME ~ghost.torn
      PROVE  History(cfs, acc)
  <2>1. Chain(db, ghost) /\ History(db, ghost)
    BY <1>8, Zenon DEF StorageInv, HistoryInv, Genuine
  <2>2. n = Len(ghost.blocks)
    BY <1>1, <1>8, NextNumber, Zenon DEF n
  <2>3. ghost.blocks \in Seq(Range(ghost.blocks)) /\ n \in Nat
    BY <2>1, <2>2 DEF Chain, IsSequence
  <2>4. GhostGrows(ghost, acc, n, body.changes) /\ acc.blocks # <<>>
    <3> DEFINE S == Range(ghost.blocks) \cup {entry}
    <3>1. ghost.blocks \in Seq(S) /\ entry \in S
      BY <2>3, SeqWithin, Zenon
    <3> HIDE DEF S
    <3>2. /\ Len(blocks) = n + 1 /\ blocks # <<>>
          /\ blocks[n + 1] = entry /\ \A i \in 1..n : blocks[i] = ghost.blocks[i]
      BY <2>2, <3>1, SeqAppend DEF blocks
    <3>3. \A m \in 0..(n - 1) : m + 1 \in 1..n
      BY <2>3
    <3>4. QED
      BY <1>3, <1>7, <2>2, <3>2, <3>3, Zenon DEF GhostGrows, ChangesAt
  <2>5. n = 0 => ghost.blocks = <<>>
    BY <2>2, <2>3, SeqEmpty, Zenon
  <2>6. DOMAIN body.changes.accounts \subseteq Addresses /\ DOMAIN body.changes.slots \subseteq Addresses \X Slots
    BY BodyAssumption, Zenon
  <2>7. QED
    BY <1>1, <1>4, <2>1, <2>3, <2>4, <2>5, <2>6, HistoryExtends, Zenon
<1>9. ~acc.torn \/ job'.op \in {"accounts", "slots"} => History(cfs, acc)
  BY <1>5, <1>7, <1>8, Zenon
<1>10. QED
  BY <1>1, <1>6, <1>9, HistoryWrite, Zenon

\* A write to accounts and slots that are edited, while blocks stay.
LEMMA HistoryEdit ==
    ASSUME StorageInv, HistoryInv, NEW cfs, NEW value, Write(cfs, [ghost EXCEPT !.edited = value], FALSE),
           ghost.edited \subseteq value, job'.op = job.op, GenesisHistory',
           cfs.accounts_history = db.accounts_history,
           cfs.account_slots_history = db.account_slots_history,
           \A a \in Addresses : <<a>> \notin value => Get(cfs.accounts, a) = Get(db.accounts, a),
           \A s \in Addresses \X Slots : s \notin value => Get(cfs.account_slots, s) = Get(db.account_slots, s)
    PROVE  HistoryInv'
<1> DEFINE acc == [ghost EXCEPT !.edited = value]
<1>1. DOMAIN ghost = {"blocks", "accounts", "edited", "torn"}
  BY GhostParts, Zenon DEF StorageInv, Shapes
<1>2. acc.blocks = ghost.blocks /\ acc.torn = ghost.torn /\ acc.accounts = ghost.accounts /\ acc.edited = value
  BY <1>1, Zenon
<1>3. Write(cfs, acc, FALSE)
  BY Zenon
<1> HIDE DEF acc
<1>4. ASSUME Genuine
      PROVE  History(cfs, acc)
  <2>1. History(db, ghost)
    BY <1>4, Zenon DEF HistoryInv
  <2>2. QED
    BY <1>2, <2>1, HistoryFrame
<1>5. ~acc.torn \/ job'.op \in {"accounts", "slots"} => History(cfs, acc)
  BY <1>2, <1>4, Zenon DEF Genuine
<1>6. QED
  BY <1>3, <1>5, HistoryWrite, Zenon

\* What an insertion of one entry leaves of the others.
LEMMA GetOther ==
    ASSUME NEW cf, NEW key, NEW value, NEW o, o # key
    PROVE  Get(Insert(cf, One(key, value)), o) = Get(cf, o)
<1> DEFINE new == Insert(cf, One(key, value))
<1>1. DOMAIN new = {key} \cup DOMAIN cf /\ \A k \in DOMAIN cf \ {key} : new[k] = cf[k]
  BY Zenon DEF Insert, One
<1> HIDE DEF new
<1>2. Get(new, o) = Get(cf, o)
  BY <1>1, Zenon DEF Get
<1>3. QED
  BY <1>2, Zenon DEF new

LEMMA HistorySetAccount ==
    ASSUME StorageInv, HistoryInv, NEW a, NEW change, SetAccount(a, change)
    PROVE  HistoryInv'
<1> DEFINE cfs == SaveAccountField(db, a, change)
           value == ghost.edited \cup {<<a>>}
<1>1. /\ job = Idle /\ Write(cfs, [ghost EXCEPT !.edited = value], FALSE) /\ job' = job
  BY Zenon DEF SetAccount
<1>2. job'.op = job.op /\ GenesisHistory'
  BY <1>1, Zenon DEF Idle, GenesisHistory
<1>3. DOMAIN db = FamilyNames
  BY Zenon DEF StorageInv, Shapes
<1>4. /\ cfs.accounts = Insert(db.accounts, One(a, UpdateAccount(Get(db.accounts, a), change)))
      /\ cfs.accounts_history = db.accounts_history
      /\ cfs.account_slots = db.account_slots
      /\ cfs.account_slots_history = db.account_slots_history
  BY <1>3, Families, Zenon DEF SaveAccountField
<1> HIDE DEF cfs
<1>5. ASSUME NEW b \in Addresses, <<b>> \notin value
      PROVE  Get(cfs.accounts, b) = Get(db.accounts, b)
  <2>1. b # a
    BY <1>5, Zenon
  <2>2. Get(Insert(db.accounts, One(a, UpdateAccount(Get(db.accounts, a), change))), b) = Get(db.accounts, b)
    BY <2>1, GetOther
  <2>3. QED
    BY <1>4, <2>2, Zenon
<1>6. ghost.edited \subseteq value
  BY Zenon
<1> HIDE DEF value
<1>7. QED
  BY <1>1, <1>2, <1>4, <1>5, <1>6, HistoryEdit, Zenon

\* A slot that is written is edited.
LEMMA HistorySaveSlot ==
    ASSUME StorageInv, HistoryInv, NEW s, s = <<s[1], s[2]>>, NEW v,
           Write(SaveSlot(db, s[1], s[2], v), [ghost EXCEPT !.edited = @ \cup {s}], FALSE),
           job'.op = job.op, GenesisHistory'
    PROVE  HistoryInv'
<1> DEFINE cfs == SaveSlot(db, s[1], s[2], v)
           value == ghost.edited \cup {s}
<1>1. Write(cfs, [ghost EXCEPT !.edited = value], FALSE)
  BY Zenon
<1>2. DOMAIN db = FamilyNames
  BY Zenon DEF StorageInv, Shapes
<1>3. /\ cfs.accounts = db.accounts
      /\ cfs.accounts_history = db.accounts_history
      /\ cfs.account_slots = Insert(db.account_slots, One(<<s[1], s[2]>>, v))
      /\ cfs.account_slots_history = db.account_slots_history
  BY <1>2, Families, Zenon DEF SaveSlot
<1> HIDE DEF cfs
<1>4. ASSUME NEW o, o \notin value
      PROVE  Get(cfs.account_slots, o) = Get(db.account_slots, o)
  <2>1. o # <<s[1], s[2]>>
    BY <1>4, Zenon
  <2>2. Get(Insert(db.account_slots, One(<<s[1], s[2]>>, v)), o) = Get(db.account_slots, o)
    BY <2>1, GetOther
  <2>3. QED
    BY <1>3, <2>2, Zenon
<1>5. ghost.edited \subseteq value
  BY Zenon
<1> HIDE DEF value
<1>6. QED
  BY <1>1, <1>3, <1>4, <1>5, HistoryEdit, Zenon

LEMMA HistorySetStorage ==
    ASSUME StorageInv, HistoryInv, NEW a, NEW i, NEW v, SetStorageAt(a, i, v)
    PROVE  HistoryInv'
<1> DEFINE s == <<a, i>>
<1>1. /\ job = Idle /\ job' = job
      /\ Write(SaveSlot(db, a, i, v), [ghost EXCEPT !.edited = @ \cup {s}], FALSE)
  BY Zenon DEF SetStorageAt
<1>2. job'.op = job.op /\ GenesisHistory'
  BY <1>1, Zenon DEF Idle, GenesisHistory
<1>3. s[1] = a /\ s[2] = i /\ s = <<s[1], s[2]>>
  BY Zenon
<1> HIDE DEF s
<1>4. QED
  BY <1>1, <1>2, <1>3, HistorySaveSlot, Zenon

LEMMA HistoryGenesisSlot ==
    ASSUME StorageInv, HistoryInv, SaveGenesisSlot
    PROVE  HistoryInv'
<1>1. PICK s \in DOMAIN job.left :
        /\ Write(SaveSlot(db, s[1], s[2], job.left[s]), [ghost EXCEPT !.edited = @ \cup {s}], FALSE)
        /\ job' = [job EXCEPT !.left = [o \in DOMAIN @ \ {s} |-> @[o]]]
  BY Zenon DEF SaveGenesisSlot
<1> DEFINE left == [o \in DOMAIN job.left \ {s} |-> job.left[o]]
<1>2. job.op = "slots"
  BY Zenon DEF SaveGenesisSlot
<1>3. job = [op |-> "slots", left |-> job.left]
  BY <1>2, Zenon DEF StorageInv, Shapes, IsJob
<1>4. job' = [job EXCEPT !.left = left]
  BY <1>1, Zenon
<1>5. DOMAIN left \subseteq DOMAIN job.left
  BY Zenon
<1> HIDE DEF left
<1>6. job' = [op |-> "slots", left |-> left]
  BY <1>3, <1>4
<1>7. job'.op = "slots" /\ job'.left = left
  BY <1>6, Zenon
<1>8. DOMAIN job.left \subseteq Addresses \X Slots
  BY <1>2, Zenon DEF HistoryInv, GenesisHistory
<1>9. GenesisHistory'
  BY <1>5, <1>7, <1>8, Zenon DEF GenesisHistory
<1>10. s = <<s[1], s[2]>>
  BY <1>8, PairParts, Zenon
<1>11. QED
  BY <1>1, <1>2, <1>7, <1>9, <1>10, HistorySaveSlot, Zenon

LEMMA HistoryClear ==
    ASSUME StorageInv, HistoryInv, ClearFamily
    PROVE  HistoryInv'
<1> DEFINE torn == [NoGhost EXCEPT !.torn = TRUE]
<1>1. torn.torn = TRUE /\ torn.accounts = Empty
  BY Zenon DEF NoGhost
<1>2. job.op = "reset" /\ job = [op |-> "reset", left |-> job.left, half |-> job.half]
  BY Zenon DEF ClearFamily, StorageInv, Shapes, IsJob
<1>3. job'.op = "reset"
  <2>1. DOMAIN job = {"op", "left", "half"}
    BY <1>2, Zenon
  <2>2. \/ job' = [job EXCEPT !.left = Tail(@), !.half = FALSE]
        \/ job' = [job EXCEPT !.half = TRUE]
    BY Zenon DEF ClearFamily
  <2>3. QED
    BY <1>2, <2>1, <2>2, Zenon
<1>4. \E cfs : Write(cfs, torn, FALSE)
  BY Zenon DEF ClearFamily
<1>5. PICK cfs : Write(cfs, torn, FALSE)
  BY <1>4, Zenon
<1> HIDE DEF torn
<1>6. GenesisHistory'
  <2>1. ghost' = torn
    BY <1>5, Zenon DEF Write
  <2>2. QED
    BY <1>1, <1>3, <2>1, Zenon DEF GenesisHistory
<1>7. ~torn.torn \/ job'.op \in {"accounts", "slots"} => History(cfs, torn)
  BY <1>1, <1>3, Zenon
<1>8. QED
  BY <1>5, <1>6, <1>7, HistoryWrite, Zenon

\* The state families are among those that a reset clears.
LEMMA StateCleared == StateFamilies \subseteq Range(ResetOrder)
<1>1. {1, 2, 3, 4} \subseteq DOMAIN ResetOrder
  BY DEF ResetOrder
<1>2. /\ ResetOrder[1] = "accounts" /\ ResetOrder[2] = "accounts_history"
      /\ ResetOrder[3] = "account_slots" /\ ResetOrder[4] = "account_slots_history"
  BY Zenon DEF ResetOrder
<1>3. QED
  BY <1>1, <1>2, Zenon DEF Range, StateFamilies

LEMMA HistoryGenesisBlock ==
    ASSUME StorageInv, HistoryInv, SaveGenesisBlock
    PROVE  HistoryInv'
<1> DEFINE genesis == GenesisBlockOf(build.file)
           entry == [block |-> genesis, changes |-> NoChanges]
           cfs == ExecutionChanges(BlockInsertion(db, genesis), 0, NoChanges)
           acc == [ghost EXCEPT !.blocks = <<entry>>]
           none == [ghost EXCEPT !.blocks = <<>>]
<1>1. /\ job.op = "reset" /\ job.left = <<>> /\ Write(cfs, acc, build.sync) /\ job' = [op |-> "accounts"]
  BY Zenon DEF SaveGenesisBlock, NoChanges
<1>2. DOMAIN db = FamilyNames /\ DOMAIN ghost = {"blocks", "accounts", "edited", "torn"}
  BY GhostParts, Zenon DEF StorageInv, Shapes
<1>3. ghost.accounts = Empty /\ \A cf \in StateFamilies : DOMAIN db[cf] = {}
  <2>1. Range(job.left) = {}
    BY <1>1 DEF Range
  <2>2. job.left # ResetOrder
    BY <1>1 DEF ResetOrder
  <2>3. \A cf \in Range(ResetOrder) : DOMAIN db[cf] = {}
    BY <1>1, <2>1, Zenon DEF StorageInv, ResetInv
  <2>4. QED
    BY <1>1, <2>2, <2>3, StateCleared, Zenon DEF HistoryInv, GenesisHistory
<1>4. StateWritten(db, cfs, 0, NoChanges)
  BY <1>2, BatchState, Zenon
<1>5. entry.changes = NoChanges /\ DOMAIN NoChanges.accounts = {} /\ DOMAIN NoChanges.slots = {}
  BY Zenon DEF NoChanges, Empty
<1> HIDE DEF entry, cfs
<1>6. /\ none.blocks = <<>> /\ none.accounts = ghost.accounts /\ none.edited = ghost.edited
      /\ acc.blocks = <<entry>> /\ acc.accounts = ghost.accounts /\ acc.edited = ghost.edited
  BY <1>2, Zenon
<1> HIDE DEF acc, none
<1>7. History(db, none)
  BY <1>3, <1>6, EmptyHistory, Zenon
<1>8. ChangesAt(acc, 0) = NoChanges /\ acc.blocks # <<>> /\ Len(acc.blocks) = 1 /\ Len(none.blocks) = 0
  <2>1. 0 + 1 = 1 /\ <<entry>>[1] = entry /\ <<entry>> # <<>> /\ Len(<<entry>>) = 1 /\ Len(<<>>) = 0
    OBVIOUS
  <2>2. QED
    BY <1>5, <1>6, <2>1, Zenon DEF ChangesAt
<1>9. GhostGrows(none, acc, 0, NoChanges) /\ 0 \in Nat /\ 0 <= MaxBlock
  <2>1. 0 + 1 = 1 /\ 0..(0 - 1) = {} /\ 0 \in Nat /\ 0 <= MaxBlock
    BY BoundAssumption
  <2>2. QED
    BY <1>6, <1>8, <2>1, Zenon DEF GhostGrows
<1>10. History(cfs, acc)
  <2>1. DOMAIN NoChanges.accounts \subseteq Addresses /\ DOMAIN NoChanges.slots \subseteq Addresses \X Slots
    BY <1>5, Zenon
  <2>2. QED
    BY <1>4, <1>6, <1>7, <1>8, <1>9, <2>1, HistoryExtends
<1>11. GenesisHistory'
  <2>1. job'.op = "accounts" /\ db' = cfs /\ ghost' = acc
    BY <1>1, Zenon DEF Write
  <2>2. DOMAIN Updated(db, NoChanges) = {}
    BY <1>5, Zenon DEF Updated
  <2>3. DOMAIN AccountEntries(db, 0, NoChanges) = {} /\ DOMAIN SlotEntries(0, NoChanges) = {}
    BY <1>5, <2>2, Zenon DEF AccountEntries, SlotEntries
  <2>4. /\ DOMAIN db.accounts = {} /\ DOMAIN db.accounts_history = {}
        /\ DOMAIN db.account_slots = {} /\ DOMAIN db.account_slots_history = {}
    BY <1>3, Zenon DEF StateFamilies
  <2>5. /\ DOMAIN cfs.accounts = {} /\ DOMAIN cfs.accounts_history = {}
        /\ DOMAIN cfs.account_slots = {} /\ DOMAIN cfs.account_slots_history = {}
    BY <1>4, <1>5, <2>2, <2>3, <2>4, Zenon DEF StateWritten, Insert
  <2>6. \A cf \in StateFamilies : DOMAIN cfs[cf] = {}
    BY <2>5, Zenon DEF StateFamilies
  <2>7. QED
    BY <1>8, <2>1, <2>6, Zenon DEF GenesisHistory
<1>12. QED
  BY <1>1, <1>10, <1>11, HistoryWrite, Zenon

LEMMA HistoryGenesisAccounts ==
    ASSUME StorageInv, HistoryInv, SaveGenesisAccounts
    PROVE  HistoryInv'
<1> DEFINE accounts == GenesisStateOf(build.file).accounts
           slots == GenesisStateOf(build.file).slots
           cfs == AccountsInsertion(db, accounts)
           acc == [ghost EXCEPT !.accounts = accounts]
           entries == [x \in {<<b, 0>> : b \in DOMAIN accounts} |-> accounts[x[1]]]
<1>1. /\ job.op = "accounts" /\ Write(cfs, acc, build.sync) /\ job' = [op |-> "slots", left |-> slots]
  BY Zenon DEF SaveGenesisAccounts
<1>2. DOMAIN db = FamilyNames /\ DOMAIN ghost = {"blocks", "accounts", "edited", "torn"}
  BY GhostParts, Zenon DEF StorageInv, Shapes
<1>3. DOMAIN accounts \subseteq Addresses /\ DOMAIN slots \subseteq Addresses \X Slots
  BY GenesisAssumption, Zenon DEF StorageInv, Shapes
<1>4. /\ cfs.accounts = Insert(db.accounts, accounts)
      /\ cfs.accounts_history = Insert(db.accounts_history, entries)
      /\ cfs.account_slots = db.account_slots
      /\ cfs.account_slots_history = db.account_slots_history
  BY <1>2, Families, Zenon DEF AccountsInsertion
<1>5. DOMAIN entries = {<<b, 0>> : b \in DOMAIN accounts}
  BY Zenon
<1> HIDE DEF accounts, slots, cfs
<1>6. acc.blocks = ghost.blocks /\ acc.accounts = accounts /\ acc.edited = ghost.edited
  BY <1>2, Zenon
<1>7. /\ History(db, ghost) /\ Len(ghost.blocks) = 1 /\ ChangesAt(ghost, 0) = NoChanges
      /\ DOMAIN db.accounts = {} /\ DOMAIN db.accounts_history = {}
      /\ DOMAIN db.account_slots_history = {}
  BY <1>1, Zenon DEF StorageInv, HistoryInv, GenesisHistory, Genuine, NumberInv, StateFamilies
<1> HIDE DEF acc
<1>8. GenesisHistory'
  <2>1. job'.op = "slots" /\ job'.left = slots
    BY <1>1, Zenon
  <2>2. QED
    BY <1>3, <2>1, Zenon DEF GenesisHistory
<1>9. Len(acc.blocks) = 1 /\ ChangesAt(acc, 0) = NoChanges /\ Numbers(acc) = Numbers(ghost)
  BY <1>6, <1>7, Zenon DEF ChangesAt, Numbers
<1>10. acc.blocks # <<>> /\ 0 \in Numbers(acc)
  BY <1>9 DEF Numbers
<1>11. HistoryKeys(cfs, acc)
  <2> HIDE DEF entries
  <2>1. DOMAIN entries \subseteq Addresses \X Numbers(acc)
    <3>1. \A b \in DOMAIN accounts : <<b, 0>> \in Addresses \X Numbers(acc)
      BY <1>3, <1>10, Zenon
    <3>2. QED
      BY <1>5, <3>1, Zenon
  <2>2. DOMAIN cfs.accounts_history = DOMAIN entries
    BY <1>4, <1>7, Zenon DEF Insert
  <2>3. QED
    BY <1>4, <1>7, <2>1, <2>2, Zenon DEF HistoryKeys
<1>12. ASSUME NEW a \in Addresses
       PROVE  AccountReplays(cfs, acc, a)
  BY <1>4, <1>6, <1>7, <1>9, GenesisAccountReplays
<1>13. ASSUME NEW s \in Addresses \X Slots, s \notin acc.edited
       PROVE  SlotReplays(cfs, acc, s)
  <2>1. SlotReplays(db, ghost, s)
    BY <1>6, <1>7, <1>13, Zenon DEF History
  <2>2. SlotRow(cfs, s) = SlotRow(db, s) /\ Get(cfs.account_slots, s) = Get(db.account_slots, s)
    BY <1>4, Zenon DEF SlotRow
  <2>3. \A n : ChangesAt(acc, n) = ChangesAt(ghost, n)
    BY <1>6, Zenon DEF ChangesAt
  <2>4. QED
    BY <1>6, <1>9, <2>1, <2>2, <2>3, Zenon DEF SlotReplays
<1>14. History(cfs, acc)
  BY <1>10, <1>11, <1>12, <1>13, Zenon DEF History
<1>15. QED
  BY <1>1, <1>8, <1>14, HistoryWrite, Zenon

LEMMA HistoryGenesisSaved ==
    ASSUME StorageInv, HistoryInv, GenesisSaved
    PROVE  HistoryInv'
<1> DEFINE acc == [ghost EXCEPT !.torn = FALSE]
<1>1. job.op = "slots" /\ ghost' = acc /\ job' = Idle /\ db' = db /\ disk' = disk
  BY Zenon DEF GenesisSaved
<1>2. DOMAIN ghost = {"blocks", "accounts", "edited", "torn"}
  BY GhostParts, Zenon DEF StorageInv, Shapes
<1>3. acc.blocks = ghost.blocks /\ acc.accounts = ghost.accounts /\ acc.edited = ghost.edited
  BY <1>2, Zenon
<1> HIDE DEF acc
<1>4. History(db, ghost)
  BY <1>1, Zenon DEF HistoryInv, Genuine
<1>5. History(db, acc)
  BY <1>3, <1>4, HistoryFrame
<1>6. GenesisHistory'
  BY <1>1, Zenon DEF Idle, GenesisHistory
<1>7. QED
  BY <1>1, <1>5, <1>6, Zenon DEF HistoryInv

LEMMA HistoryPowerFailure ==
    ASSUME HistoryInv, PowerFailure
    PROVE  HistoryInv'
<1>1. /\ db' = disk.db /\ ghost' = disk.ghost /\ disk' = disk /\ job'.op = "down"
  BY Zenon DEF PowerFailure, Down
<1>2. Genuine' <=> ~disk.ghost.torn
  BY <1>1, Zenon DEF Genuine
<1>3. GenesisHistory'
  BY <1>1, Zenon DEF GenesisHistory
<1>4. QED
  BY <1>1, <1>2, <1>3, Zenon DEF HistoryInv

\* The steps that write nothing.
LEMMA HistoryNoWrite ==
    ASSUME HistoryInv, Open \/ SetMinedBlockNumber \/ Reset \/ Crash
    PROVE  HistoryInv'
<1>1. UNCHANGED <<build, db, disk, ghost>> /\ job' \in {StartReset, Idle, Down}
  BY Zenon DEF Open, SetMinedBlockNumber, Reset, Crash
<1>2. \/ job'.op = "reset" /\ job'.left = ResetOrder
      \/ job'.op \in {"idle", "down"}
  <2>1. StartReset.op = "reset" /\ StartReset.left = ResetOrder
    BY Zenon DEF StartReset
  <2>2. Idle.op = "idle" /\ Down.op = "down"
    BY Zenon DEF Idle, Down
  <2>3. QED
    BY <1>1, <2>1, <2>2, Zenon
<1>3. GenesisHistory'
  BY <1>2, Zenon DEF GenesisHistory
<1>4. Genuine' => Genuine
  BY <1>1, <1>2, Zenon DEF Genuine
<1>5. QED
  BY <1>1, <1>3, <1>4, HistoryQuiet, Zenon

LEMMA HistoryStep ==
    ASSUME StorageInv, HistoryInv, [Next]_vars
    PROVE  HistoryInv'
<1>1. CASE Open \/ SetMinedBlockNumber \/ Reset \/ Crash
  BY <1>1, HistoryNoWrite, Zenon
<1>2. CASE \E t \in Times, body \in Bodies : SaveBlock(t, body)
  BY <1>2, HistorySaveBlock, Zenon
<1>3. CASE \E a \in Addresses, c \in Edits : SetAccount(a, c)
  BY <1>3, HistorySetAccount, Zenon
<1>4. CASE \E a \in Addresses, i \in Slots, v \in SlotEdits : SetStorageAt(a, i, v)
  BY <1>4, HistorySetStorage, Zenon
<1>5. CASE ClearFamily
  BY <1>5, HistoryClear, Zenon
<1>6. CASE SaveGenesisBlock
  BY <1>6, HistoryGenesisBlock, Zenon
<1>7. CASE SaveGenesisAccounts
  BY <1>7, HistoryGenesisAccounts, Zenon
<1>8. CASE SaveGenesisSlot
  BY <1>8, HistoryGenesisSlot, Zenon
<1>9. CASE GenesisSaved
  BY <1>9, HistoryGenesisSaved, Zenon
<1>10. CASE PowerFailure
  BY <1>10, HistoryPowerFailure, Zenon
<1>11. CASE UNCHANGED vars
  <2>1. build' = build /\ db' = db /\ disk' = disk /\ job' = job /\ ghost' = ghost
    BY <1>11, Zenon DEF vars
  <2>2. UNCHANGED <<build, db, disk, ghost>> /\ (Genuine' => Genuine)
    BY <2>1, Zenon DEF Genuine
  <2>3. GenesisHistory'
    BY <2>1, Zenon DEF HistoryInv, GenesisHistory
  <2>4. QED
    BY <2>2, <2>3, HistoryQuiet, Zenon
<1>12. QED
  BY <1>1, <1>2, <1>3, <1>4, <1>5, <1>6, <1>7, <1>8, <1>9, <1>10, <1>11, Zenon DEF Next

\* What a read of the past returns.
LEMMA PastRead ==
    ASSUME Chain(db, ghost), HistoryKeys(db, ghost), NEW n \in Blocks
    PROVE  /\ \A a \in Addresses : ReadAccountPast(a, n) = Past(AccountRow(db, a), n)
           /\ \A s \in Addresses \X Slots : ReadSlotPast(s[1], s[2], n) = Past(SlotRow(db, s), n)
<1>1. Numbers(ghost) \subseteq 0..MaxBlock /\ n \in 0..MaxBlock
  BY MinedBlocks DEF Blocks
<1>2. /\ DOMAIN db.accounts_history \subseteq Addresses \X (0..MaxBlock)
      /\ DOMAIN db.account_slots_history \subseteq Addresses \X Slots \X (0..MaxBlock)
  BY <1>1 DEF HistoryKeys
<1>3. ASSUME NEW a \in Addresses
      PROVE  ReadAccountPast(a, n) = Past(AccountRow(db, a), n)
  BY <1>1, <1>2, SeekAccount, Zenon DEF ReadAccountPast
<1>4. ASSUME NEW s \in Addresses \X Slots
      PROVE  ReadSlotPast(s[1], s[2], n) = Past(SlotRow(db, s), n)
  BY <1>1, <1>2, SeekSlot, Zenon DEF ReadSlotPast
<1>5. QED
  BY <1>3, <1>4, Zenon

LEMMA InvPastReads ==
    ASSUME StorageInv, HistoryInv
    PROVE  PastReadsReplay
<1> SUFFICES ASSUME ~ghost.torn, ghost.blocks # <<>> PROVE PastReadsReplay
  BY Zenon DEF PastReadsReplay
<1> DEFINE k == LastMined
<1>1. Chain(db, ghost) /\ History(db, ghost)
  BY Zenon DEF StorageInv, HistoryInv, Genuine
<1>2. /\ k \in Blocks /\ k + 1 = Len(ghost.blocks) /\ k + 1 # 0 /\ (k + 1) - 1 = k
      /\ \A n \in Blocks : n \in Nat
      /\ Blocks = Numbers(ghost)
      /\ \A n \in Blocks : n # 0 => n - 1 \in Blocks
  <2>1. k \in Blocks /\ Blocks = Numbers(ghost) /\ \A n \in Blocks : n \in Nat
    BY <1>1, EndsFound, MinedBlocks, Zenon
  <2>2. k + 1 = Len(ghost.blocks) /\ k + 1 # 0 /\ (k + 1) - 1 = k
    BY <1>1, <2>1, MinedBlocks DEF LastMined
  <2>3. \A n \in Blocks : n # 0 => n - 1 \in Blocks
    BY <1>1, <2>1, MinedBlocks DEF Numbers
  <2>4. QED
    BY <2>1, <2>2, <2>3, Zenon
<1> HIDE DEF k
<1>3. ASSUME NEW n \in Blocks
      PROVE  /\ \A a \in Addresses : ReadAccountPast(a, n) = Past(AccountRow(db, a), n)
             /\ \A s \in Addresses \X Slots : ReadSlotPast(s[1], s[2], n) = Past(SlotRow(db, s), n)
  BY <1>1, PastRead, Zenon DEF History
<1>4. ASSUME NEW a \in Addresses, <<a>> \notin ghost.edited
      PROVE  /\ \A n \in Blocks :
                  ReadAccountPast(a, n) = ApplyChange(AccountBefore(a, n), a, ghost.blocks[n + 1].changes)
             /\ ReadAccountLatest(a) = ReadAccountPast(a, k)
             /\ Get(ReadAccounts(Addresses), a) = ReadAccountPast(a, k)
  <2> DEFINE row == AccountRow(db, a)
             base == Get(ghost.accounts, a)
  <2>1. /\ \A n \in Blocks : Past(row, n) = ApplyChange(Before(row, base, n), a, ghost.blocks[n + 1].changes)
        /\ Get(db.accounts, a) = Before(row, base, k + 1)
    BY <1>1, <1>2, <1>4, Zenon DEF History, AccountReplays, ChangesAt
  <2>2. \A n \in Blocks : AccountBefore(a, n) = Before(row, base, n)
    BY <1>2, <1>3, Zenon DEF AccountBefore, Before
  <2>3. Before(row, base, k + 1) = ReadAccountPast(a, k)
    BY <1>2, <1>3, Zenon DEF Before
  <2>4. a # Nobody
    BY AddressAssumption, Zenon
  <2>5. ReadAccountLatest(a) = Get(db.accounts, a) /\ Get(ReadAccounts(Addresses), a) = Get(db.accounts, a)
    BY <2>4, Zenon DEF ReadAccountLatest, ReadAccounts, MultiGet, Get
  <2> HIDE DEF row, base
  <2>6. ASSUME NEW n \in Blocks
        PROVE  ReadAccountPast(a, n) = ApplyChange(AccountBefore(a, n), a, ghost.blocks[n + 1].changes)
    BY <1>3, <2>1, <2>2, Zenon DEF row
  <2>7. QED
    BY <2>1, <2>3, <2>5, <2>6, Zenon
<1>5. ASSUME NEW s \in Addresses \X Slots, s \notin ghost.edited
      PROVE  /\ \A n \in Blocks :
                  ReadSlotPast(s[1], s[2], n) = ApplySlotChange(SlotBefore(s, n), s, ghost.blocks[n + 1].changes)
             /\ ReadSlotLatest(s[1], s[2]) = ReadSlotPast(s[1], s[2], k)
             /\ Get(ReadSlots(Addresses \X Slots), s) = ReadSlotPast(s[1], s[2], k)
  <2> DEFINE row == SlotRow(db, s)
  <2>1. /\ \A n \in Blocks : Past(row, n) = ApplySlotChange(Before(row, None, n), s, ghost.blocks[n + 1].changes)
        /\ Get(db.account_slots, s) = Before(row, None, k + 1)
    BY <1>1, <1>2, <1>5, Zenon DEF History, SlotReplays, ChangesAt
  <2>2. \A n \in Blocks : SlotBefore(s, n) = Before(row, None, n)
    BY <1>2, <1>3, Zenon DEF SlotBefore, Before
  <2>3. Before(row, None, k + 1) = ReadSlotPast(s[1], s[2], k)
    BY <1>2, <1>3, Zenon DEF Before
  <2>4. s[1] # Nobody /\ s = <<s[1], s[2]>>
    BY AddressAssumption, PairParts, Zenon
  <2>5. /\ ReadSlotLatest(s[1], s[2]) = Get(db.account_slots, s)
        /\ Get(ReadSlots(Addresses \X Slots), s) = Get(db.account_slots, s)
    BY <2>4, Zenon DEF ReadSlotLatest, ReadSlots, MultiGet, Get
  <2> HIDE DEF row
  <2>6. ASSUME NEW n \in Blocks
        PROVE  ReadSlotPast(s[1], s[2], n) = ApplySlotChange(SlotBefore(s, n), s, ghost.blocks[n + 1].changes)
    BY <1>3, <2>1, <2>2, Zenon DEF row
  <2>7. QED
    BY <2>1, <2>3, <2>5, <2>6, Zenon
<1>6. QED
  BY <1>4, <1>5, Zenon DEF PastReadsReplay, k

(***************************************************************************)
(* What is proved of the storage.                                          *)
(***************************************************************************)
\* Whatever is saved, edited, reset, killed or cut off, the column families and the number of the
\* last block agree with the blocks that the storage accepted (rocks_state.rs save_block,
\* save_genesis_block, reset; rocks_permanent.rs).
THEOREM StorageInductive == Spec => []StorageInv
<1>1. Init => StorageInv
  BY InitStorage, Zenon
<1>2. StorageInv /\ [Next]_vars => StorageInv'
  BY StorageStep, Zenon
<1>3. QED
  BY <1>1, <1>2, PTL DEF Spec

\* Every way to look up a block or a transaction, by number, by hash, by time, the first and the
\* last one, finds the one that was saved (rocks_state.rs read_block, read_transaction,
\* read_block_by_timestamp...).
THEOREM LookupsHold == Spec => []LookupsAgree
<1>1. StorageInv => LookupsAgree
  BY InvLookups, Zenon
<1>2. QED
  BY <1>1, StorageInductive, PTL

\* The histories of accounts and slots, and their latest values, follow the blocks that the storage
\* accepted: a batch writes them together with the block, and what a failure or a reset leaves is
\* the state of some prefix of the writes (rocks_state.rs save_block, save_accounts, clear).
THEOREM HistoryInductive == Spec => [](StorageInv /\ HistoryInv)
<1>1. Init => StorageInv /\ HistoryInv
  BY InitStorage, InitHistory, Zenon
<1>2. StorageInv /\ HistoryInv /\ [Next]_vars => StorageInv' /\ HistoryInv'
  BY StorageStep, HistoryStep, Zenon
<1>3. QED
  BY <1>1, <1>2, PTL DEF Spec

\* Reads of the past replay the chain, whatever was written, lost or restarted since: what an
\* account or a slot is at a block is what it was at the block before with that block's changes,
\* and its latest value is the one at the last block (rocks_state.rs read_account, read_slot).
THEOREM PastReadsHold == Spec => []PastReadsReplay
<1>1. StorageInv /\ HistoryInv => PastReadsReplay
  BY InvPastReads, Zenon
<1>2. QED
  BY <1>1, HistoryInductive, PTL

\* What a step may do to the blocks that were accepted before it.
LEMMA BlocksKept ==
    ASSUME StorageInv, Next, ~ghost.torn, build.sync, job.op \notin {"reset", "down"}
    PROVE  \/ ghost'.blocks = ghost.blocks
           \/ \E entry : ghost'.blocks = Append(ghost.blocks, entry)
<1>1. IsGhost(ghost) /\ disk.ghost.blocks = ghost.blocks /\ job.op \notin {"accounts", "slots"}
  BY Zenon DEF StorageInv, Shapes, Genuine, ResetInv
<1>2. CASE \E t \in Times, body \in Bodies : SaveBlock(t, body)
  <2>1. PICK t \in Times, body \in Bodies : SaveBlock(t, body)
    BY <1>2, Zenon
  <2> DEFINE entry == [block |-> MinedBlock(NextBlockNumber, t, body), changes |-> body.changes]
             blocks == Append(ghost.blocks, entry)
  <2>2. ghost' = [ghost EXCEPT !.blocks = blocks]
    BY <2>1, Zenon DEF SaveBlock, Write
  <2>3. ghost'.blocks = blocks
    <3> HIDE DEF blocks
    <3>1. QED
      BY <1>1, <2>2, GhostUpdate
  <2>4. QED
    BY <2>3, Zenon
<1>3. CASE \E a \in Addresses, c \in Edits : SetAccount(a, c)
  <2>1. PICK value : ghost' = [ghost EXCEPT !.edited = value]
    BY <1>3, Zenon DEF SetAccount, Write
  <2>2. QED
    BY <1>1, <2>1, GhostUpdate, Zenon
<1>4. CASE \E a \in Addresses, i \in Slots, v \in SlotEdits : SetStorageAt(a, i, v)
  <2>1. PICK value : ghost' = [ghost EXCEPT !.edited = value]
    BY <1>4, Zenon DEF SetStorageAt, Write
  <2>2. QED
    BY <1>1, <2>1, GhostUpdate, Zenon
<1>5. CASE PowerFailure
  BY <1>1, <1>5, Zenon DEF PowerFailure
<1>6. CASE SetMinedBlockNumber \/ Reset \/ Crash
  BY <1>6, Zenon DEF SetMinedBlockNumber, Reset, Crash
<1>7. Open \/ ClearFamily \/ SaveGenesisBlock => job.op \in {"reset", "down"}
  <2>1. Open => job.op = "down"
    BY DEF Open, Down
  <2>2. ClearFamily => job.op = "reset"
    BY Zenon DEF ClearFamily
  <2>3. SaveGenesisBlock => job.op = "reset"
    BY Zenon DEF SaveGenesisBlock
  <2>4. QED
    BY <2>1, <2>2, <2>3, Zenon
<1>8. SaveGenesisAccounts \/ SaveGenesisSlot \/ GenesisSaved => job.op \in {"accounts", "slots"}
  BY Zenon DEF SaveGenesisAccounts, SaveGenesisSlot, GenesisSaved
<1>9. QED
  BY <1>1, <1>2, <1>3, <1>4, <1>5, <1>6, <1>7, <1>8, Zenon DEF Next

\* With synced writes no step, a power failure included, takes back a block whose number was
\* published (rocks_state.rs write_in_batch_for_multiple_cfs).
THEOREM DurableHolds == Spec => DurablePublished
<1> DEFINE Kept == build.sync /\ ~ghost.torn /\ job.op \notin {"reset", "down"} /\ ghost.blocks # <<>> =>
                     /\ Len(ghost'.blocks) > number
                     /\ SubSeq(ghost'.blocks, 1, number + 1) = SubSeq(ghost.blocks, 1, number + 1)
<1>1. ASSUME StorageInv, [Next]_vars
      PROVE  [Kept]_vars
  <2>1. SUFFICES ASSUME Next, build.sync, ~ghost.torn, job.op \notin {"reset", "down"}, ghost.blocks # <<>>
                 PROVE  /\ Len(ghost'.blocks) > number
                        /\ SubSeq(ghost'.blocks, 1, number + 1) = SubSeq(ghost.blocks, 1, number + 1)
    BY <1>1, Zenon
  <2>2. IsSequence(ghost.blocks)
    BY <1>1, <2>1, Zenon DEF StorageInv, Genuine, Chain
  <2>3. number \in Nat /\ number + 1 <= Len(ghost.blocks) /\ Len(ghost.blocks) \in Nat
    <3>1. Len(ghost.blocks) \in Nat /\ Len(ghost.blocks) > 0
      BY <2>1, <2>2 DEF IsSequence
    <3>2. job.op \in {"idle", "publish"}
      BY <1>1, <2>1, Zenon DEF StorageInv, Shapes, IsJob, ResetInv
    <3>3. CASE job.op = "idle"
      BY <1>1, <2>1, <3>1, <3>3 DEF StorageInv, NumberInv, Published
    <3>4. CASE job.op = "publish"
      BY <1>1, <2>1, <3>1, <3>4 DEF StorageInv, NumberInv
    <3>5. QED
      BY <3>2, <3>3, <3>4, Zenon
  <2>4. CASE ghost'.blocks = ghost.blocks
    BY <2>3, <2>4
  <2>5. CASE \E entry : ghost'.blocks = Append(ghost.blocks, entry)
    <3>1. PICK entry : ghost'.blocks = Append(ghost.blocks, entry)
      BY <2>5, Zenon
    <3> DEFINE S == Range(ghost.blocks) \cup {entry}
    <3>2. ghost.blocks \in Seq(S) /\ entry \in S
      BY <2>2, SeqWithin, Zenon DEF IsSequence
    <3> HIDE DEF S
    <3>3. /\ Len(ghost'.blocks) = Len(ghost.blocks) + 1
          /\ \A k \in 1..Len(ghost.blocks) : ghost'.blocks[k] = ghost.blocks[k]
      BY <3>1, <3>2
    <3>4. \A k \in 1..(number + 1) : ghost'.blocks[k] = ghost.blocks[k]
      BY <2>3, <3>3
    <3>5. QED
      BY <2>3, <3>3, <3>4
  <2>6. QED
    BY <1>1, <2>1, <2>4, <2>5, BlocksKept, Zenon
<1>2. QED
  BY <1>1, StorageInductive, PTL DEF Spec, DurablePublished
=============================================================================
