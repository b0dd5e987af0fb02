------------------------------- MODULE Filters -------------------------------
(***************************************************************************)
(* Block filters and log filters: which state and which logs a request is  *)
(* about, and the messages that report them.                               *)
(***************************************************************************)
EXTENDS Blocks, FiniteSets, SequencesExt

(***************************************************************************)
(* Block filters, translated to the state a read is made in.  `found` is   *)
(* the number of the block that the permanent storage has for the filter,  *)
(* or None.                                                                *)
(***************************************************************************)
TargetState(filter, found) ==
    CASE filter.by = "pending"  -> [at |-> "pending"]
      [] filter.by = "latest"   -> [at |-> "latest"]
      [] filter.by = "earliest" -> [at |-> "past", number |-> 0]
      [] filter.by = "number"   -> [at |-> "past", number |-> filter.number]
      [] OTHER -> IF found = None THEN [at |-> "not_found"] ELSE [at |-> "past", number |-> found]

(***************************************************************************)
(* Log filters.  `input` is the request, `from` and `to` are the states    *)
(* its two block filters stand for; the filter that comes out of it has a  *)
(* first block and, when the request names one, a last block.              *)
(***************************************************************************)
InvalidRange == [error |-> "BlockRangeInvalid"]
NotFound     == [error |-> "BlockNotFound"]

Given(filter) == IF filter = None THEN [by |-> "latest"] ELSE filter

FirstFilter(input) ==
    IF input.block_hash # None THEN [by |-> "hash", hash |-> input.block_hash] ELSE Given(input.from_block)

LastFilter(input) ==
    IF input.block_hash # None THEN [by |-> "hash", hash |-> input.block_hash] ELSE Given(input.to_block)

ParseLogFilter(input, from, to, mined, pending) ==
    LET first == CASE from.at = "pending" -> pending
                   [] from.at = "latest"  -> mined
                   [] OTHER               -> from.number
        last  == IF to.at \in {"pending", "latest"} THEN None ELSE to.number
    IN  IF "not_found" \in {from.at, to.at} THEN NotFound
        ELSE IF last # None /\ last < first THEN InvalidRange
        ELSE [from_block |-> first, to_block |-> last,
              addresses |-> input.address, topics |-> input.topics]

\* One position of the topic filter: a set of alternatives, where the empty
\* set and a set with None in it accept anything.
TopicAccepts(alternatives, topic) ==
    \/ alternatives = {}
    \/ None \in alternatives
    \/ topic \in alternatives

Matches(filter, log, number) ==
    /\ number >= filter.from_block
    /\ filter.to_block # None => number <= filter.to_block
    /\ filter.addresses # {} => log.address \in filter.addresses
    /\ \A i \in 1..MaxTopics :
         i <= Len(filter.topics) => TopicAccepts(filter.topics[i], log.topics[i])

(***************************************************************************)
(* eth_getLogs: an open filter ends at the last mined block, and the range *)
(* a query may span is bounded.                                            *)
(***************************************************************************)
CountTo(from, to) == (IF to > from THEN to - from ELSE 0) + 1

GetLogsFilter(filter, mined, maxRange) ==
    LET closed == [filter EXCEPT !.to_block = IF @ = None THEN mined ELSE @]
        range  == CountTo(closed.from_block, closed.to_block)
    IN  IF range > maxRange \/ range = 0 THEN InvalidRange ELSE closed

(***************************************************************************)
(* Log messages: what eth_getLogs, the log subscriptions and the receipts  *)
(* report about a log.                                                     *)
(***************************************************************************)
LogMessage(log, number, blockHash, txHash, txIndex, index) ==
    [log |-> log, block_number |-> number, block_hash |-> blockHash,
     transaction_hash |-> txHash, transaction_index |-> txIndex, index |-> index]

\* The notifier's messages, made from the block that was just mined.
CreateLogMessages(block) ==
    FlattenSeq([t \in DOMAIN block.transactions |->
        LET tx == block.transactions[t]
        IN  [l \in DOMAIN tx.execution.logs |->
               LogMessage(tx.execution.logs[l], block.header.number, block.header.hash,
                          tx.execution.hash, t - 1, tx.mined.first_log_index + (l - 1))]])

\* The messages of one stored block, as a query over the permanent storage makes them.
LogMessagesFromRocks(stored) ==
    FlattenSeq([t \in DOMAIN stored.transactions |->
        LET tx == stored.transactions[t]
        IN  [l \in DOMAIN tx.logs |->
               LogMessage(tx.logs[l].log, stored.header.number, stored.header.hash,
                          tx.hash, t - 1, tx.logs[l].index)]])

\* The logs of a receipt, made from a transaction read back from its record.
CreateAlloyLogs(tx) ==
    [l \in DOMAIN tx.execution.logs |->
       LogMessage(tx.execution.logs[l], tx.execution.number, tx.mined.block_hash,
                  tx.execution.hash, tx.mined.index, tx.mined.first_log_index + (l - 1))]

==============================================================================
