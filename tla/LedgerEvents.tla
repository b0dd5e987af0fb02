---------------------------- MODULE LedgerEvents ----------------------------
(***************************************************************************)
(* Account transfer events (ledger/events.rs): what is published about the *)
(* ERC-20 transfers of a mined transaction, one event for each account the *)
(* transfers touch.  The identifier and the time of a publication are left *)
(* out: they are new each time an event is published.                      *)
(***************************************************************************)
EXTENDS Evm, SequencesExt

TransferEvent == "Transfer"

\* How many bytes there are of the data of a transaction, up to a function identifier.
FunctionIdSize == 4
DataSize(data) == IF data \in {"transfer", "receive"} THEN 0 ELSE FunctionIdSize

(***************************************************************************)
(* A transfer is a log of that event with one word of data and, as topics, *)
(* the two parties; other logs of the event are skipped.                   *)
(***************************************************************************)
IsTransfer(log) ==
    /\ log.topics # <<>> /\ log.topics[1] = TransferEvent
    /\ Len(log.data) = 1
    /\ Len(log.topics) >= 3

TransferOf(log) ==
    [token |-> log.address, from |-> log.topics[2], to |-> log.topics[3], amount |-> log.data[1]]

TransfersOf(logs) ==
    LET kept == SelectSeq(logs, IsTransfer)
    IN  [i \in DOMAIN kept |-> TransferOf(kept[i])]

\* Mutant of Accounts: the receivers are forgotten.
AccountsDebited(transfers) == {t.from : t \in Range(transfers)}

Accounts(transfers) == UNION {{t.from, t.to} : t \in Range(transfers)}

\* A transfer to oneself is a debit.
Directed(account, t) ==
    [token |-> t.token, debit |-> t.from, credit |-> t.to, amount |-> t.amount,
     direction |-> IF account = t.from THEN "debit" ELSE "credit"]

AccountTransfers(account, execution, index) ==
    LET mine == SelectSeq(TransfersOf(execution.output.logs), LAMBDA t : account \in {t.from, t.to})
    IN  [account |-> account,
         hash |-> execution.info.hash,
         index |-> index,
         contract |-> IF execution.input.to = None THEN Zero ELSE execution.input.to,
         function |-> execution.input.data,
         block_number |-> execution.input.block_number,
         block_time |-> execution.input.block_timestamp,
         transfers |-> [i \in DOMAIN mine |-> Directed(account, mine[i])]]

IdempotencyKey(event) == <<event.hash, event.account>>

\* The partition an event is published to.
EventKey(event) == event.account

\* The events of a transaction, in no order.
TransactionToEvents(execution, index) ==
    {AccountTransfers(a, execution, index) : a \in Accounts(TransfersOf(execution.output.logs))}

\* The function identifier is a slice of the data, which must be long enough.
EventsPanic(execution) ==
    /\ TransfersOf(execution.output.logs) # <<>>
    /\ DataSize(execution.input.data) < FunctionIdSize

(***************************************************************************)
(* Publication.  Kafka orders the events of a partition; `topic` maps the  *)
(* accounts to what was published about them.  When a publication fails,   *)
(* each event of it may or may not have been delivered.                    *)
(***************************************************************************)
BlockEvents(block) ==
    FoldLeft(LAMBDA events, i : events \o SetToSeq(TransactionToEvents(block[i], i - 1)), <<>>,
             [i \in DOMAIN block |-> i])

PublishEvent(topic, event) ==
    [a \in DOMAIN topic \cup {EventKey(event)} |->
        (IF a \in DOMAIN topic THEN topic[a] ELSE <<>>) \o (IF a = EventKey(event) THEN <<event>> ELSE <<>>)]

SendBuffered(topic, events, delivered) ==
    FoldLeft(LAMBDA t, i : IF i \in delivered THEN PublishEvent(t, events[i]) ELSE t, topic,
             [i \in DOMAIN events |-> i])
==============================================================================
