---------------------------- MODULE Reexecution ----------------------------
(***************************************************************************)
(* A leader that executes the transactions wallets send it, and a follower *)
(* that downloads its blocks and executes them again (ExecutionImporter).  *)
(* The leader decodes, executes, mines and stores; it serves what it reads *)
(* back from the store; the follower parses that, recovers the sender from *)
(* what it parsed, executes and reconciles the result with the receipt,    *)
(* and publishes the events of the block before it stores it.              *)
(***************************************************************************)
EXTENDS LedgerEvents

CONSTANTS
    Wallets,        \* the signed transactions wallets may send
    Genesis,        \* the state both nodes start from
    ChainId,        \* executor.chain_id, of both
    LeaderLimit,    \* transaction_max_gas_limit of the leader
    FollowerLimit,  \* and of the follower
    CallLimit,      \* call_max_gas_limit
    RejectNotContract,  \* executor.reject_not_contract
    Dialects,       \* fields a leader's library may leave out of transactions and receipts
    MaxPending,     \* bound: transactions of a block
    MaxBlocks,      \* bound: blocks
    MaxRepeats      \* bound: publications that fail, and that are asked for again

ASSUME ReexecutionAssumption ==
    /\ {ChainId, LeaderLimit, FollowerLimit, CallLimit, MaxPending, MaxBlocks} \subseteq Nat \ {0}
    /\ MaxRepeats \in Nat
    /\ RejectNotContract \in BOOLEAN

VARIABLES
    states,     \* the leader's states: after genesis and after each block
    pending,    \* executions of the leader's pending block
    draft,      \* the leader's state with the pending executions
    blocks,     \* the leader's stored blocks
    copy,       \* the follower's state
    imported,   \* the follower's stored blocks
    stuck,      \* whether an import failed
    topic,      \* the events the follower published, by account
    repeats     \* publications that failed or were asked for again

leaderVars == <<states, pending, draft, blocks>>
vars == <<leaderVars, copy, imported, stuck, topic, repeats>>

Init ==
    /\ states = <<Genesis>>
    /\ pending = <<>>
    /\ draft = Genesis
    /\ blocks = <<>>
    /\ copy = Genesis
    /\ imported = <<>>
    /\ stuck = FALSE
    /\ topic = <<>>
    /\ repeats = 0

BlockAt(number) == [number |-> number, timestamp |-> number]

Run(kind, chain, limit, state, input) ==
    EvmTransact(CreateEvm(chain, kind), state, FillTxEnv(input, limit), FillBlockEnv(input))

Failed(r) == "error" \in DOMAIN r

(***************************************************************************)
(* Storage of a mined transaction: the sender is stored, and is not        *)
(* recovered again when the transaction is read back.                      *)
(***************************************************************************)
TransactionExecution(tx, input, output) ==
    [info |-> [type |-> tx.type, hash |-> tx.hash], signature |-> [v |-> tx.v, rs |-> tx.rs],
     input |-> input,
     output |-> [result |-> output.result, output |-> output.output, logs |-> output.logs,
                 gas_used |-> output.gas_used, deployed |-> output.deployed]]

\* TransactionExecution, as the input of a transaction again.
InputOfExecution(e) ==
    [type |-> e.info.type, hash |-> e.info.hash, signer |-> e.input.from,
     chain_id |-> e.input.chain_id, nonce |-> e.input.nonce, to |-> e.input.to,
     value |-> e.input.value, input |-> e.input.data, gas_limit |-> e.input.gas_limit,
     gas_price |-> e.input.gas_price, v |-> e.signature.v, rs |-> e.signature.rs]

ToRocks(e) == [input |-> InputOfExecution(e), execution |-> e.output, time |-> e.input.block_timestamp]

\* The reason of a revert is not stored; the outcome is built again from the output.
FromRocks(stored, number) ==
    TransactionExecution(stored.input,
        CreateInput(stored.input, [number |-> number, timestamp |-> stored.time]), stored.execution)

ReadBlock(chain, number) ==
    [i \in DOMAIN chain[number] |-> FromRocks(chain[number][i], number)]

\* eth_getTransactionByHash of a mined transaction.
TransactionAnswer(e, index) ==
    [ToAlloyTransaction(InputOfExecution(e)) EXCEPT
        !.block_number = e.input.block_number, !.block_timestamp = e.input.block_timestamp,
        !.transaction_index = index - 1]

(***************************************************************************)
(* The leader.                                                             *)
(***************************************************************************)
\* A transaction with data must be for a contract.
ValidToContract(state, to, data) ==
    (to # None /\ DataSize(data) > 0 /\ RejectNotContract) => SessionRead(state, to).code

\* What the executor makes of a transaction, or an error.
ExecuteLocalTransaction(tx) ==
    LET input  == CreateInput(tx, BlockAt(Len(blocks) + 1))
        r      == Run("transaction", ChainId, LeaderLimit, draft, input)
        output == ExecutionOutput(r)
    IN  IF Signer(tx) = Zero \/ Failed(r) THEN Rejected
        ELSE Accepted([execution |-> TransactionExecution(tx, input, output),
                       state     |-> Apply(draft, output.state)])

\* Decoded, and refused before it is executed when its recipient is no contract.
LocalExecution(raw) ==
    LET decoded == Decode(raw)
    IN  CASE ~decoded.ok -> Rejected
          [] ~ValidToContract(draft, decoded.tx.to, decoded.tx.input) -> Rejected
          [] OTHER -> ExecuteLocalTransaction(decoded.tx)

SendRawTransaction(w) ==
    LET done == LocalExecution(RawTransaction(w))
    IN  /\ Len(pending) < MaxPending
        /\ Len(blocks) < MaxBlocks
        /\ done.ok
        /\ pending' = Append(pending, done.tx.execution)
        /\ draft' = done.tx.state
        /\ UNCHANGED <<states, blocks, copy, imported, stuck, topic, repeats>>

MineBlock ==
    /\ pending # <<>>
    /\ blocks' = Append(blocks, [i \in DOMAIN pending |-> ToRocks(pending[i])])
    /\ states' = Append(states, draft)
    /\ pending' = <<>>
    /\ UNCHANGED <<draft, copy, imported, stuck, topic, repeats>>

(***************************************************************************)
(* The follower.                                                           *)
(***************************************************************************)
\* ExternalReceipt::deserialize: a receipt of the older library has no price and no type.
FillReceipt(receipt, dropped) ==
    [receipt EXCEPT
        !.effective_gas_price = IF "effectiveGasPrice" \in dropped THEN 0 ELSE @,
        !.type = IF "type" \in dropped THEN LegacyType ELSE @]

\* ExternalReceipts: the receipts of a block by the hash of their transaction.
ReceiptOf(block, dropped, hash) ==
    LET i == CHOOSE j \in DOMAIN block : block[j].info.hash = hash
    IN  FillReceipt(ToAlloyReceipt(block[i]), dropped)

\* A transaction that succeeded is executed again.
ReexecuteSuccess(acc, tx, input, receipt) ==
    LET r       == Run("transaction", ChainId, FollowerLimit, acc.state, input)
        applied == ApplyReceipt(ExecutionOutput(r), receipt)
    IN  CASE Failed(r) -> Rejected
          [] ~applied.ok -> Rejected
          [] ~CompareWithReceipt(applied.tx, receipt) -> Rejected
          [] OTHER -> applied

\* Mutant of ReexecuteFailure: the nonce a failed transaction was sent with is not checked, and stays.
ReexecuteFailureKept(acc, tx, receipt) ==
    FromFailedExternal(receipt.from, [SessionRead(acc.state, receipt.from) EXCEPT !.nonce = @ - 1], receipt)

\* A transaction that failed is made from its receipt.
ReexecuteFailure(acc, tx, receipt) ==
    LET sender == SessionRead(acc.state, receipt.from)
    IN  IF tx.nonce # sender.nonce THEN Rejected
        ELSE FromFailedExternal(receipt.from, sender, receipt)

ExternalTransaction(acc, json, receipt, number) ==
    LET tx     == TransactionFromExternal(FillMissing(json))
        input  == CreateInput(tx.tx, BlockAt(number))
        output == IF receipt.status THEN ReexecuteSuccess(acc, tx.tx, input, receipt)
                                    ELSE ReexecuteFailure(acc, tx.tx, receipt)
    IN  CASE ~acc.ok    -> acc
          [] ~tx.ok     -> [acc EXCEPT !.ok = FALSE]
          [] ~output.ok -> [acc EXCEPT !.ok = FALSE]
          [] OTHER -> [ok    |-> TRUE,
                       state |-> Apply(acc.state, output.tx.state),
                       txs   |-> Append(acc.txs, TransactionExecution(tx.tx, input, output.tx))]

\* execute_external_block: the transactions of a block in their order.
ExternalBlock(number, dialect) ==
    LET block == ReadBlock(blocks, number)
    IN  FoldLeft(LAMBDA acc, i :
                    ExternalTransaction(acc, JsonOf(TransactionAnswer(block[i], i), dialect.tx),
                                        ReceiptOf(block, dialect.receipt, block[i].info.hash), number),
                 [ok |-> TRUE, state |-> copy, txs |-> <<>>],
                 [i \in DOMAIN block |-> i])

\* Whether a block can be imported: its transactions execute, and their events can be built.
Importable(done) == done.ok /\ \A i \in DOMAIN done.txs : ~EventsPanic(done.txs[i])

ImportSucceeds(done) ==
    LET events == BlockEvents(done.txs)
    IN  /\ Importable(done)
        /\ topic' = SendBuffered(topic, events, DOMAIN events)
        /\ copy' = done.state
        /\ imported' = Append(imported, [i \in DOMAIN done.txs |-> ToRocks(done.txs[i])])
        /\ UNCHANGED <<stuck, repeats>>

\* The block is not stored; the follower fetches it again once its importer was started again.
PublicationFails(done) ==
    LET events == BlockEvents(done.txs)
    IN  /\ Importable(done)
        /\ events # <<>>
        /\ repeats < MaxRepeats
        /\ repeats' = repeats + 1
        /\ \E delivered \in SUBSET DOMAIN events : topic' = SendBuffered(topic, events, delivered)
        /\ UNCHANGED <<copy, imported, stuck>>

ImportFails(done) ==
    /\ ~Importable(done)
    /\ stuck' = TRUE
    /\ UNCHANGED <<copy, imported, topic, repeats>>

Import(dialect) ==
    /\ ~stuck
    /\ Len(imported) < Len(blocks)
    /\ LET done == ExternalBlock(Len(imported) + 1, dialect)
       IN  ImportSucceeds(done) \/ PublicationFails(done) \/ ImportFails(done)
    /\ UNCHANGED leaderVars

\* stratus_emitBlockEvents: the events of a stored block, published on demand.  Without any,
\* nothing changes.
EmitBlockEvents(number) ==
    LET events == BlockEvents(ReadBlock(imported, number))
    IN  /\ events # <<>>
        /\ repeats < MaxRepeats
        /\ repeats' = repeats + 1
        /\ topic' = SendBuffered(topic, events, DOMAIN events)
        /\ UNCHANGED <<leaderVars, copy, imported, stuck>>

Next ==
    \/ \E w \in Wallets : SendRawTransaction(w)
    \/ MineBlock
    \/ \E dialect \in Dialects : Import(dialect)
    \/ \E number \in DOMAIN imported : EmitBlockEvents(number)

Spec == Init /\ [][Next]_vars

(***************************************************************************)
(* Traces (debug_traceTransaction): the state before the block, the        *)
(* transactions before the traced one, and then the traced one.            *)
(***************************************************************************)
\* Mutant of TraceBase: the state the block left.
TraceBaseAfter(number) == states[number + 1]

TraceBase(number) == states[number]

TracerRun(state, input) ==
    Run("inspect", IF input.chain_id = None THEN 0 ELSE input.chain_id, LeaderLimit, state, input)

\* One error among the transactions before the traced one ends the trace.
Replay(acc, input) ==
    LET r == TracerRun(acc.state, input)
    IN  IF ~acc.ok \/ Failed(r) THEN [acc EXCEPT !.ok = FALSE]
        ELSE [acc EXCEPT !.state = Apply(acc.state, ParseRevmState(r).changes)]

Tracers == {"fourByte", "call", "preState", "mux", "flatCall", "js"}

\* An empty frame; the one of a call names its parties.
DefaultTrace(tracer, e) ==
    IF tracer = "call"
    THEN [is |-> "default", from |-> e.input.from,
          to |-> IF e.input.to # None THEN e.input.to ELSE e.output.deployed]
    ELSE [is |-> "default"]

Inspect(number, i, tracer, unsuccessfulOnly) ==
    LET block == ReadBlock(blocks, number)
        tx    == block[i]
        base  == FoldLeft(LAMBDA acc, e : Replay(acc, e.input),
                          [ok |-> TRUE, state |-> TraceBase(number)], SubSeq(block, 1, i - 1))
        r     == TracerRun(base.state, tx.input)
    IN  CASE tracer = None   -> [is |-> "error"]
          [] tracer = "noop" -> [is |-> "noop"]
          [] tx.output.deployed = None /\ unsuccessfulOnly /\ tx.output.result = "success" ->
               DefaultTrace(tracer, tx)
          [] ~base.ok \/ tracer \notin Tracers \/ Failed(r) -> [is |-> "error"]
          [] OTHER -> [is |-> "trace", result |-> ParseRevmResult(r)]

(***************************************************************************)
(* Properties.                                                             *)
(***************************************************************************)

\* Addresses that sent a transaction with a price in the first n blocks.
Priced(n) ==
    {b.input.signer : b \in {t \in UNION {Range(blocks[m]) : m \in 1..n} : t.input.gas_price > 0}}

\* After each block the follower's accounts are the leader's.  The balance of an address that
\* sent a transaction with a price is left out: the follower takes the price of the receipt
\* from it (apply_receipt), and the leader, whose executions are free, never did.
SameState ==
    LET ours == states[Len(imported) + 1]
    IN  /\ DOMAIN copy = DOMAIN ours
        /\ \A a \in DOMAIN copy :
              /\ copy[a].nonce = ours[a].nonce
              /\ copy[a].slot = ours[a].slot
              /\ a \notin Priced(Len(imported)) => copy[a].balance = ours[a].balance

\* Every block a leader mined can be imported by a follower, whatever fields its answers miss and
\* whatever gas limit it runs with, as long as no sender runs out of the balance it is charged.
ImportsSucceed == stuck => Priced(Len(imported) + 1) # {}

\* A trace shows the execution that was mined: replaying the transactions before it on the state
\* before its block, with an EVM that checks neither nonce nor chain, gives its result and logs.
\* Only a transaction that succeeded may get the empty frame of a node that traces failures only.
TracesReplay ==
    \A n \in DOMAIN blocks : \A i \in DOMAIN blocks[n] :
        \A tracer \in Tracers, unsuccessfulOnly \in BOOLEAN :
            LET trace == Inspect(n, i, tracer, unsuccessfulOnly)
                mined == blocks[n][i].execution
            IN  IF trace.is = "default"
                THEN unsuccessfulOnly /\ mined.result = "success" /\ blocks[n][i].input.to # None
                ELSE /\ trace.is = "trace"
                     /\ trace.result.result = mined.result
                     /\ trace.result.logs = mined.logs

\* Consumers can rebuild the transfers from what was published, however often it was: the events
\* of an account that have the same idempotency key are the same, the first ones of each key are
\* in the order of the chain, and every transfer of a stored block was published as a debit of
\* one party and a credit of the other.
EventsFaithful ==
    /\ \A a \in DOMAIN topic : \A i, j \in DOMAIN topic[a] :
          LET Older(k, l) == topic[a][k].block_number < topic[a][l].block_number
          IN  /\ IdempotencyKey(topic[a][i]) = IdempotencyKey(topic[a][j]) => topic[a][i] = topic[a][j]
              /\ i < j /\ Older(j, i) => \E k \in 1..(i - 1) : topic[a][k] = topic[a][j]
    /\ \A n \in DOMAIN imported : \A tx \in Range(ReadBlock(imported, n)) :
          \A t \in Range(TransfersOf(tx.output.logs)), side \in {"debit", "credit"} :
              LET party == IF side = "debit" THEN t.from ELSE t.to
              IN  t.from # t.to =>
                    /\ party \in DOMAIN topic
                    /\ \E e \in Range(topic[party]) :
                        /\ e.hash = tx.info.hash
                        /\ [token |-> t.token, debit |-> t.from, credit |-> t.to,
                            amount |-> t.amount, direction |-> side] \in Range(e.transfers)

\* Whatever the data of a transaction, the events of its block can be built: without a function
\* identifier the one of the event is zero.
EventsTotal ==
    \A n \in DOMAIN blocks : \A tx \in Range(ReadBlock(blocks, n)) : ~EventsPanic(tx)

\* The leader and the follower derive the same sender for a transaction.
SameSigner ==
    \A n \in DOMAIN imported : \A i \in DOMAIN imported[n] :
        imported[n][i].input.signer = blocks[n][i].input.signer
==============================================================================
