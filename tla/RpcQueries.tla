----------------------------- MODULE RpcQueries -----------------------------
(***************************************************************************)
(* The read endpoints of the RPC server over the permanent storage: which  *)
(* parameters a handler takes, what it reads and the form of its answer.   *)
(* `waiting` is the pending block's executions, which the storage looks at *)
(* before its permanent part when it is asked for a transaction.           *)
(***************************************************************************)
EXTENDS RocksLogs

Null == [json |-> "null"]
Json(value) == [json |-> "value", value |-> value]
ParameterInvalid == [error |-> "ParameterInvalid"]

(***************************************************************************)
(* Forms of blocks, transactions and receipts.                             *)
(***************************************************************************)
AlloyHeader(header) ==
    [number |-> header.number, hash |-> header.hash, parent_hash |-> header.parent,
     timestamp |-> header.timestamp, size |-> header.size, transactions_root |-> header.root]

\* A transaction's place is filled in once it is mined.
MinedTransactionJson(tx) ==
    [hash |-> tx.execution.hash, block_hash |-> tx.mined.block_hash,
     block_number |-> tx.execution.number, block_timestamp |-> tx.execution.time,
     transaction_index |-> tx.mined.index]

PendingTransactionJson(execution) ==
    [hash |-> execution.hash, block_hash |-> None, block_number |-> None,
     block_timestamp |-> None, transaction_index |-> None]

\* Mutant of MinedReceiptJson: positions are counted from one.
MinedReceiptJsonShifted(tx) ==
    [transaction_hash |-> tx.execution.hash, transaction_index |-> tx.mined.index + 1,
     block_hash |-> tx.mined.block_hash, block_number |-> tx.execution.number,
     status |-> tx.execution.result = "success", logs |-> CreateAlloyLogs(tx)]

MinedReceiptJson(tx) ==
    [transaction_hash |-> tx.execution.hash, transaction_index |-> tx.mined.index,
     block_hash |-> tx.mined.block_hash, block_number |-> tx.execution.number,
     status |-> tx.execution.result = "success", logs |-> CreateAlloyLogs(tx)]

BlockWithFullTransactions(block) ==
    [header |-> AlloyHeader(block.header),
     transactions |-> [i \in DOMAIN block.transactions |-> MinedTransactionJson(block.transactions[i])]]

BlockWithHashes(block) ==
    [header |-> AlloyHeader(block.header),
     transactions |-> [i \in DOMAIN block.transactions |-> block.transactions[i].execution.hash]]

(***************************************************************************)
(* Blocks.                                                                 *)
(***************************************************************************)
EthBlockNumber == number

StratusGetBlockAndReceipts(filter) ==
    LET block == ReadBlock(filter)
    IN  IF block = None THEN Null
        ELSE Json([block |-> BlockWithFullTransactions(block),
                   receipts |-> [i \in DOMAIN block.transactions |-> MinedReceiptJson(block.transactions[i])]])

StratusGetBlockWithChanges(filter) ==
    LET read == ReadBlockWithChanges(filter) IN IF read = None THEN Null ELSE Json(read)

EthGetBlockBySelector(filter, full) ==
    LET block == ReadBlock(filter)
    IN  CASE block = None -> Null
          [] full         -> Json(BlockWithFullTransactions(block))
          [] OTHER        -> Json(BlockWithHashes(block))

EthGetBlockByHash(filter, full) ==
    IF filter.by = "hash" THEN EthGetBlockBySelector(filter, full) ELSE ParameterInvalid

EthGetBlockByNumber(filter, full) ==
    IF filter.by \in {"earliest", "latest", "number", "pending"}
    THEN EthGetBlockBySelector(filter, full) ELSE ParameterInvalid

StratusGetBlockByTimestamp(filter, full) ==
    IF filter.by = "timestamp" THEN EthGetBlockBySelector(filter, full) ELSE ParameterInvalid

(***************************************************************************)
(* Transactions.                                                           *)
(***************************************************************************)
ReadStage(waiting, hash) ==
    LET at == {i \in DOMAIN waiting : waiting[i].hash = hash}
        read == ReadTransaction(hash)
    IN  CASE at # {}     -> [stage |-> "pending", tx |-> waiting[Min(at)]]
          [] read = None -> [stage |-> "none"]
          [] OTHER       -> [stage |-> "mined", tx |-> read]

\* TransactionStage: the forms of what was found.
ToJsonRpcTransaction(found) ==
    IF found.stage = "mined" THEN MinedTransactionJson(found.tx) ELSE PendingTransactionJson(found.tx)

ToJsonRpcReceipt(found) == IF found.stage = "mined" THEN Json(MinedReceiptJson(found.tx)) ELSE Null

ToResult(found) == IF found.stage = "mined" THEN found.tx.execution.result ELSE found.tx.result

EthGetTransactionByHash(waiting, hash) ==
    LET found == ReadStage(waiting, hash)
    IN  IF found.stage = "none" THEN Null ELSE Json(ToJsonRpcTransaction(found))

EthGetTransactionReceipt(waiting, hash) ==
    LET found == ReadStage(waiting, hash)
    IN  IF found.stage = "none" THEN Null ELSE ToJsonRpcReceipt(found)

StratusGetTransactionResult(waiting, hash) ==
    LET found == ReadStage(waiting, hash)
    IN  IF found.stage = "none" THEN Null ELSE Json(ToResult(found))

(***************************************************************************)
(* Accounts and slots.  Nothing is pending here, so that the pending state *)
(* is the latest one.                                                      *)
(***************************************************************************)
AccountIn(target, a) ==
    LET read == IF target.at = "past" THEN ReadAccountPast(a, target.number) ELSE ReadAccountLatest(a)
    IN  IF read = None THEN DefaultAccount ELSE read

AccountQuery(a, filter, field) ==
    LET target == TargetOf(filter)
    IN  IF target.at = "not_found" THEN NotFound ELSE Json(AccountIn(target, a)[field])

EthGetTransactionCount(a, filter) == AccountQuery(a, filter, "nonce")
EthGetBalance(a, filter) == AccountQuery(a, filter, "balance")
EthGetCode(a, filter) == AccountQuery(a, filter, "code")

EthGetStorageAt(a, i, filter) ==
    LET target == TargetOf(filter)
        read   == IF target.at = "past" THEN ReadSlotPast(a, i, target.number) ELSE ReadSlotLatest(a, i)
    IN  IF target.at = "not_found" THEN NotFound ELSE Json(IF read = None THEN 0 ELSE read)

(***************************************************************************)
(* Properties.                                                             *)
(***************************************************************************)
ByNumber(n) == [by |-> "number", number |-> n]
ByHash(h) == [by |-> "hash", hash |-> h]

\* The answers a client combines fit together: where eth_getTransactionByHash and the receipt place
\* a transaction, eth_getBlockByHash and eth_getBlockByNumber have it; the receipts that
\* stratus_getBlockAndReceipts hands to a follower are those of eth_getTransactionReceipt, and their
\* logs together are what eth_getLogs finds for the hash of the block; parents are found by the
\* hash a block names; and a balance, nonce or slot is the same whether its block is named by
\* number or by hash.  The executions of a block still pending have no receipt.
AnswersAgree ==
    ~ghost.torn /\ ghost.blocks # <<>> /\ job.op = "idle" =>
        /\ \A n \in Blocks :
             LET served == StratusGetBlockAndReceipts(ByNumber(n)).value
                 hash   == served.block.header.hash
                 full   == EthGetBlockByHash(ByHash(hash), TRUE)
                 short  == EthGetBlockByNumber(ByNumber(n), FALSE)
             IN  /\ full = Json(served.block)
                 /\ StratusGetBlockWithChanges(ByHash(hash)).value.block = ReadBlock(ByNumber(n))
                 /\ n > 0 => EthGetBlockByHash(ByHash(served.block.header.parent_hash), TRUE)
                               = EthGetBlockByNumber(ByNumber(n - 1), TRUE)
                 /\ FlattenSeq([i \in DOMAIN served.receipts |-> served.receipts[i].logs])
                      = GetLogs([from_block |-> None, to_block |-> None, block_hash |-> hash,
                                 address |-> {}, topics |-> <<>>]).logs
                 /\ \A i \in DOMAIN served.receipts :
                      LET tx == short.value.transactions[i]
                          answer  == EthGetTransactionByHash(<<>>, tx).value
                          receipt == EthGetTransactionReceipt(<<>>, tx).value
                      IN  /\ full.value.transactions[answer.transaction_index + 1] = answer
                          /\ served.receipts[receipt.transaction_index + 1] = receipt
                          /\ <<receipt.block_hash, receipt.block_number>> = <<hash, n>>
                          /\ StratusGetTransactionResult(<<>>, tx).value = "success" <=> receipt.status
                 /\ \A a \in Addresses :
                      /\ EthGetBalance(a, ByHash(hash)) = EthGetBalance(a, ByNumber(n))
                      /\ EthGetTransactionCount(a, ByHash(hash)) = EthGetTransactionCount(a, ByNumber(n))
                      /\ EthGetCode(a, ByHash(hash)) = EthGetCode(a, ByNumber(n))
                      /\ \A s \in Slots : EthGetStorageAt(a, s, ByHash(hash)) = EthGetStorageAt(a, s, ByNumber(n))
        /\ EthGetBlockByNumber([by |-> "latest"], TRUE) = EthGetBlockByNumber(ByNumber(EthBlockNumber), TRUE)
        /\ \A t \in 0..MaxTime :
             LET after == StratusGetBlockByTimestamp([by |-> "timestamp", timestamp |-> t, direction |-> "forward"], FALSE)
             IN  after # Null => after.value.header.timestamp >= t
        /\ \A body \in Bodies : \A i \in DOMAIN body.txs :
             LET hash == body.txs[i].hash
             IN  /\ EthGetTransactionReceipt(body.txs, hash) = Null
                 /\ EthGetTransactionByHash(body.txs, hash).value.block_number = None
==============================================================================
