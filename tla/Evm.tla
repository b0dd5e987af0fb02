-------------------------------- MODULE Evm --------------------------------
(***************************************************************************)
(* Executions: what the node hands to the EVM, what it keeps of the EVM's  *)
(* result, the receipt it serves, and how a follower that re-executes a    *)
(* leader's block reconciles its own execution with the leader's receipt.  *)
(*                                                                         *)
(* The EVM itself is outside the node.  It is a function of the state and  *)
(* of the environment it is given; the data of a transaction names what    *)
(* the called code does.  Gas used is one unit an execution.               *)
(***************************************************************************)
EXTENDS Transactions

CONSTANT Coinbase

IsIgnored(address) == address \in {Coinbase, Zero}

(***************************************************************************)
(* Environment.  The price and the gas limit of the transaction are not    *)
(* passed on: every execution is free and runs with the node's own limit.  *)
(***************************************************************************)
CreateInput(tx, block) ==
    [from |-> Signer(tx), to |-> tx.to, value |-> tx.value, data |-> tx.input,
     gas_limit |-> tx.gas_limit, gas_price |-> tx.gas_price, nonce |-> tx.nonce,
     block_number |-> block.number, block_timestamp |-> block.timestamp, chain_id |-> tx.chain_id]

FillTxEnv(input, limit) ==
    [caller |-> input.from, kind |-> input.to, gas_limit |-> limit, gas_price |-> 0,
     chain_id |-> input.chain_id, nonce |-> input.nonce, data |-> input.data, value |-> input.value]

FillBlockEnv(input) == [timestamp |-> input.block_timestamp, number |-> input.block_number]

\* Which checks an EVM of a kind makes.
IsCall(kind) == kind \in {"call_past", "call_present", "inspect"}
CreateEvm(chain, kind) ==
    [chain_id |-> chain, chain_check |-> ~IsCall(kind), nonce_check |-> ~IsCall(kind)]

(***************************************************************************)
(* The session: what the EVM reads.  A state is a function from addresses  *)
(* to accounts; the coinbase and the zero address are never read.          *)
(***************************************************************************)
NoAccount == [nonce |-> 0, balance |-> 0, slot |-> 0, code |-> FALSE]

SessionRead(state, address) ==
    IF IsIgnored(address) \/ address \notin DOMAIN state THEN NoAccount ELSE state[address]

(***************************************************************************)
(* The EVM, outside the node.                                              *)
(***************************************************************************)
CreateAddress(sender, nonce) == <<"created", sender, nonce>>

Touch(state, address, account) ==
    [a \in DOMAIN state \cup {address} |-> IF a = address THEN account ELSE state[a]]

Failure(error) == [error |-> error]

\* Fees go to the beneficiary, which nothing reads.
Pay(account, amount) == [account EXCEPT !.balance = @ - amount]

EmittedLogs(env, block, target, counter) ==
    CASE env.data = "store" -> <<[address |-> target, topics |-> <<"Stored">>, data |-> <<counter, block.number>>]>>
      [] env.data = "trace" -> <<[address |-> target, topics |-> <<"ERC20Trace">>,
                                  data |-> <<env.gas_limit - 1, counter>>]>>
      [] env.data \in {"pay", "receive"} ->
           <<[address |-> target, topics |-> <<"Transfer", env.caller, Zero>>, data |-> <<counter>>],
             [address |-> target, topics |-> <<"Transfer", env.caller>>, data |-> <<counter>>],
             [address |-> target, topics |-> <<"Transfer", target, env.caller>>, data |-> <<1>>]>>
      [] OTHER              -> <<>>

EvmTransact(evm, state, env, block) ==
    LET sender == SessionRead(state, env.caller)
        used   == 1
        cost   == env.value + env.gas_price * used
        bumped == Pay([sender EXCEPT !.nonce = env.nonce + 1], env.gas_price * used)
        target == IF env.kind = None THEN CreateAddress(env.caller, env.nonce) ELSE env.kind
        paid   == Touch(<<>>, env.caller, Pay(bumped, env.value))
        old    == IF target = env.caller THEN Pay(bumped, env.value) ELSE SessionRead(state, target)
        called == [old EXCEPT !.balance = @ + env.value,
                              !.code = @ \/ env.kind = None,
                              !.slot = IF env.data \in {"store", "trace"} THEN @ + 1 ELSE @]
    IN  CASE evm.chain_check /\ env.chain_id # None /\ env.chain_id # evm.chain_id -> Failure("chain")
          [] evm.nonce_check /\ env.nonce # sender.nonce -> Failure("nonce")
          [] sender.balance < cost -> Failure("funds")
          [] env.data \in {"revert", "halt"} ->
               [result |-> env.data, output |-> env.data, logs |-> <<>>, gas |-> used,
                created |-> None, state |-> Touch(<<>>, env.caller, bumped)]
          [] OTHER ->
               [result |-> "success", output |-> env.data,
                logs |-> EmittedLogs(env, block, target, called.slot), gas |-> used,
                created |-> IF env.kind = None THEN target ELSE None,
                state |-> Touch(paid, target, called)]

(***************************************************************************)
(* What is kept of a result.                                               *)
(***************************************************************************)
ParseRevmResult(r) ==
    [result |-> CASE r.result = "success" -> "success"
                  [] r.result = "revert"  -> "reverted"
                  [] r.result = "halt"    -> "halted",
     output |-> IF r.result = "halt" THEN <<>> ELSE <<r.output>>,
     logs   |-> r.logs,
     gas    |-> r.gas]

ParseRevmState(r) ==
    [changes  |-> [a \in {x \in DOMAIN r.state : ~IsIgnored(x)} |-> r.state[a]],
     deployed |-> IF r.created # None /\ ~IsIgnored(r.created) THEN r.created ELSE None]

ExecutionOutput(r) ==
    LET parsed == ParseRevmResult(r)
    IN  [result   |-> parsed.result,
         output   |-> parsed.output,
         logs     |-> parsed.logs,
         gas_used |-> parsed.gas,
         deployed |-> ParseRevmState(r).deployed,
         state    |-> ParseRevmState(r).changes]

Apply(state, changes) ==
    [a \in DOMAIN state \cup DOMAIN changes |-> IF a \in DOMAIN changes THEN changes[a] ELSE state[a]]

(***************************************************************************)
(* The receipt the node serves for a mined transaction.                    *)
(***************************************************************************)
ReceiptType(type) == IF type \in TypedTypes THEN type ELSE LegacyType

ReceiptContractAddress(input) ==
    IF input.to = None THEN CreateAddress(input.from, input.nonce) ELSE None

ToAlloyReceipt(execution) ==
    [status |-> execution.output.result = "success",
     logs |-> execution.output.logs,
     bloom |-> {<<l.address, l.topics>> : l \in Range(execution.output.logs)},
     type |-> ReceiptType(execution.info.type),
     hash |-> execution.info.hash,
     block_number |-> execution.input.block_number,
     gas_used |-> execution.output.gas_used,
     effective_gas_price |-> execution.input.gas_price,
     from |-> execution.input.from,
     to |-> execution.input.to,
     contract_address |-> ReceiptContractAddress(execution.input)]

ExecutionCost(receipt) == receipt.effective_gas_price * receipt.gas_used

(***************************************************************************)
(* Reconciliation with the leader's receipt.                               *)
(***************************************************************************)
TracedEvents == {"ERC20Trace", "BalanceTrackerTrace"}

FirstTopicTraced(log) == log.topics # <<>> /\ log.topics[1] \in TracedEvents

FixLogsGasLeft(logs, receiptLogs) ==
    [i \in DOMAIN logs |->
        IF i \in DOMAIN receiptLogs /\ FirstTopicTraced(logs[i]) /\ FirstTopicTraced(receiptLogs[i])
        THEN [logs[i] EXCEPT !.data[1] = receiptLogs[i].data[1]]
        ELSE logs[i]]

\* Saturating: an account that cannot pay the cost ends with nothing.
ChargeCost(balance, cost) == IF balance > cost THEN balance - cost ELSE 0

\* Mutant of ApplyReceipt: the gas used stays the one of the re-execution, and so do the logs.
ApplyReceiptNoLogs(output, receipt) ==
    [ok |-> TRUE, tx |-> [output EXCEPT !.gas_used = receipt.gas_used]]

ApplyReceipt(output, receipt) ==
    LET fixed == [output EXCEPT !.gas_used = receipt.gas_used,
                                !.logs = FixLogsGasLeft(output.logs, receipt.logs)]
        cost  == ExecutionCost(receipt)
    IN  CASE cost = 0 -> Accepted(fixed)
          [] receipt.from \notin DOMAIN output.state -> Rejected
          [] OTHER -> Accepted([fixed EXCEPT !.state[receipt.from].balance = ChargeCost(@, cost)])

CompareWithReceipt(output, receipt) ==
    /\ (output.result = "success") = receipt.status
    /\ Len(output.logs) = Len(receipt.logs)
    /\ \A i \in DOMAIN output.logs :
          /\ output.logs[i].topics = receipt.logs[i].topics
          /\ output.logs[i].data = receipt.logs[i].data

\* A failed transaction is not executed again: its sender's nonce moves, and it pays.
FromFailedExternal(address, sender, receipt) ==
    IF receipt.status \/ receipt.logs # <<>>
    THEN Rejected
    ELSE ApplyReceipt([result |-> "reverted", output |-> <<>>, logs |-> <<>>,
                       gas_used |-> receipt.gas_used, deployed |-> None,
                       state |-> Touch(<<>>, address, [sender EXCEPT !.nonce = @ + 1])], receipt)
==============================================================================
