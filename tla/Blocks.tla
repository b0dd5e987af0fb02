------------------------------- MODULE Blocks -------------------------------
(***************************************************************************)
(* The forms a block takes on its way through the node: the pending block  *)
(* the executions were collected in, the block that is mined from it, the  *)
(* record the permanent storage keeps of it, the block read back from that *)
(* record, and the log entries the RPC layer answers with.  The fields are *)
(* the ones another part of the node depends on; gas, blooms and the roots *)
(* the code sets to constants are left out.                                *)
(***************************************************************************)
EXTENDS Integers, Sequences, Functions

CONSTANT
    \* the absent value of Rust's Option
    None

(***************************************************************************)
(* Logs.  A log keeps its topics in four optional positions; the EVM       *)
(* produces them as a list of at most four.                                *)
(***************************************************************************)
MaxTopics == 4

LogFromTopics(address, topics) ==
    [address |-> address,
     topics  |-> [i \in 1..MaxTopics |->
                    IF Len(topics) <= MaxTopics /\ i <= Len(topics)
                    THEN topics[i] ELSE None]]

(***************************************************************************)
(* Block numbers and headers.  A block the node mines itself is named by   *)
(* the hash of its number, and so is its parent.                           *)
(***************************************************************************)
BlockHash(number) == <<"keccak", number>>

PrevNumber(number) == IF number = 0 THEN None ELSE number - 1

ParentHash(number) ==
    IF PrevNumber(number) = None THEN <<"zero">> ELSE BlockHash(PrevNumber(number))

NewHeader(number, timestamp) ==
    [number    |-> number,
     hash      |-> BlockHash(number),
     parent    |-> ParentHash(number),
     timestamp |-> timestamp,
     size      |-> 0,
     root      |-> <<>>]

NewBlock(number, timestamp) ==
    [header |-> NewHeader(number, timestamp), transactions |-> <<>>]

(***************************************************************************)
(* Mining.  The pending executions become the transactions of the block in *)
(* execution order; a transaction remembers its position and the index, in *)
(* the block, of its first log.                                            *)
(***************************************************************************)
LogsBefore(executions, i) ==
    FoldFunction(+, 0, [j \in 1..(i - 1) |-> Len(executions[j].logs)])

TransactionFromExecution(execution, blockHash, index, firstLogIndex) ==
    [execution |-> execution,
     mined     |-> [index |-> index, first_log_index |-> firstLogIndex, block_hash |-> blockHash]]

TransactionRoot(block) ==
    [i \in 1..Len(block.transactions) |-> block.transactions[i].execution.hash]

BlockFromPending(number, timestamp, executions) ==
    LET mined == [NewBlock(number, timestamp) EXCEPT
                    !.header.size  = Len(executions),
                    !.transactions = [i \in 1..Len(executions) |->
                        TransactionFromExecution(executions[i], BlockHash(number),
                                                 i - 1, LogsBefore(executions, i))]]
    IN  [mined EXCEPT !.header.root = TransactionRoot(mined)]

(***************************************************************************)
(* The permanent record.  Logs carry their absolute index, an outcome is   *)
(* stored without the reason of a revert (it is computed again from the    *)
(* output), and what identifies the block is stored once, in the header.   *)
(***************************************************************************)
\* Mutant of TransactionToRocks: the logs are numbered within the transaction.
TransactionToRocksRelative(tx) ==
    [hash   |-> tx.execution.hash,
     result |-> tx.execution.result,
     output |-> tx.execution.output,
     time   |-> tx.execution.time,
     logs   |-> [i \in DOMAIN tx.execution.logs |-> [log |-> tx.execution.logs[i], index |-> i - 1]],
     index  |-> tx.mined.index]

TransactionToRocks(tx) ==
    [hash   |-> tx.execution.hash,
     result |-> tx.execution.result,
     output |-> tx.execution.output,
     time   |-> tx.execution.time,
     logs   |-> [i \in DOMAIN tx.execution.logs |->
                   [log |-> tx.execution.logs[i], index |-> tx.mined.first_log_index + (i - 1)]],
     index  |-> tx.mined.index]

BlockToRocks(block) ==
    [header       |-> block.header,
     transactions |-> [i \in DOMAIN block.transactions |-> TransactionToRocks(block.transactions[i])]]

TransactionFromRocks(tx, number, hash) ==
    [execution |-> [hash   |-> tx.hash,
                    number |-> number,
                    time   |-> tx.time,
                    result |-> tx.result,
                    output |-> tx.output,
                    logs   |-> [i \in DOMAIN tx.logs |-> tx.logs[i].log]],
     mined     |-> [index           |-> tx.index,
                    first_log_index |-> IF tx.logs = <<>> THEN 0 ELSE tx.logs[1].index,
                    block_hash      |-> hash]]

BlockFromRocks(stored) ==
    [header       |-> stored.header,
     transactions |-> [i \in DOMAIN stored.transactions |->
        TransactionFromRocks(stored.transactions[i], stored.header.number, stored.header.hash)]]

==============================================================================
