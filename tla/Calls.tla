------------------------------- MODULE Calls -------------------------------
(***************************************************************************)
(* Calls: eth_call, stratus_call, eth_estimateGas and stratus_accessList,  *)
(* which execute what a client describes without keeping its effects.  A   *)
(* call is answered from one state here; that its reads are of one state   *)
(* while blocks are committed is what module StorageReads is about.        *)
(***************************************************************************)
EXTENDS Reexecution

(***************************************************************************)
(* The state and the block of a call.                                      *)
(***************************************************************************)
Mined == Len(blocks)

\* The pending state is not called: such a call is pinned to the last block too.
PinnedTarget(filter) ==
    CASE filter.by \in {"pending", "latest"} -> [at |-> "pinned", number |-> Mined]
      [] filter.by = "earliest"              -> [at |-> "past", number |-> 0]
      [] filter.by = "number"                -> [at |-> "past", number |-> filter.number]

LatestTarget == [at |-> "latest", number |-> Mined]

\* History reads the last change up to the number, the last state for a number beyond it.
StateAt(target) == states[(IF target.number > Mined THEN Mined ELSE target.number) + 1]

\* The header of the pending block is that of the number after the last one.
BlockInfo(target) == IF target.number > Mined + 1 THEN None ELSE BlockAt(target.number)

Route(target) == IF target.at = "past" THEN "call_past" ELSE "call_present"

(***************************************************************************)
(* Execution.                                                              *)
(***************************************************************************)
CallExecutionInput(call, block) ==
    [from |-> IF call.from = None THEN Zero ELSE call.from, to |-> call.to, value |-> call.value,
     data |-> call.data, block_number |-> block.number, block_timestamp |-> block.timestamp]

\* Mutant of FillCallEnv: every call is made in no one's name.
FillCallEnvAnonymous(input, limit) ==
    [caller |-> Zero, kind |-> input.to, gas_limit |-> limit, gas_price |-> 0,
     chain_id |-> None, nonce |-> 0, data |-> input.data, value |-> input.value]

FillCallEnv(input, limit) ==
    [caller |-> input.from, kind |-> input.to, gas_limit |-> limit, gas_price |-> 0,
     chain_id |-> None, nonce |-> 0, data |-> input.data, value |-> input.value]

ExecuteLocalCall(call, target) ==
    LET input == CallExecutionInput(call, BlockInfo(target))
    IN  IF BlockInfo(target) = None THEN Failure("block_not_found")
        ELSE EvmTransact(CreateEvm(ChainId, Route(target)), StateAt(target),
                         FillCallEnv(input, CallLimit), FillBlockEnv(input))

CallExecutionOutput(r) ==
    [output |-> IF r.result = "halt" THEN <<>> ELSE <<r.output>>, gas_used |-> r.gas,
     success |-> r.result = "success"]

\* The accounts and slots an execution touched.
AccessListOutput(r) == DOMAIN r.state

(***************************************************************************)
(* Methods.                                                                *)
(***************************************************************************)
Answer(is, value) == [is |-> is, value |-> value]

RpcCall(call, filter) ==
    LET target == PinnedTarget(filter)
    IN  IF ValidToContract(StateAt(target), call.to, call.data) THEN ExecuteLocalCall(call, target)
        ELSE Failure("not_contract")

EthCall(call, filter) ==
    LET r == RpcCall(call, filter)
    IN  CASE Failed(r) -> Answer("error", r.error)
          [] CallExecutionOutput(r).success -> Answer("output", CallExecutionOutput(r).output)
          [] OTHER -> Answer("reverted", CallExecutionOutput(r).output)

\* The same, with the reason of a revert instead of its output.
StratusCall(call, filter) ==
    LET answer == EthCall(call, filter)
    IN  IF answer.is = "reverted" THEN Answer("reason", answer.value) ELSE answer

\* The contract is looked for in the latest state, the call is pinned.
EthEstimateGas(call) ==
    LET r == ExecuteLocalCall(call, [at |-> "pinned", number |-> Mined])
    IN  CASE ~ValidToContract(StateAt(LatestTarget), call.to, call.data) -> Answer("error", "not_contract")
          [] Failed(r) -> Answer("error", r.error)
          [] CallExecutionOutput(r).success -> Answer("gas", (CallExecutionOutput(r).gas_used * 11) \div 10)
          [] OTHER -> Answer("reverted", CallExecutionOutput(r).output)

StratusAccessList(call) ==
    LET r == ExecuteLocalCall(call, LatestTarget)
    IN  CASE ~ValidToContract(StateAt(LatestTarget), call.to, call.data) -> Answer("error", "not_contract")
          [] Failed(r) -> Answer("error", r.error)
          [] OTHER -> Answer("list", AccessListOutput(r))

(***************************************************************************)
(* Properties.                                                             *)
(***************************************************************************)
CallOf(tx) == [from |-> Signer(tx), to |-> tx.to, value |-> tx.value, data |-> tx.input]

\* What a client learns from calls about a transaction holds when it sends it next: as long as
\* no transaction is pending, one that the node takes ends the way eth_call and stratus_call,
\* whichever of the three names the last state is called by, say it ends; eth_estimateGas gives
\* at least the gas it uses; and stratus_accessList names every account it changes.  The EVMs
\* differ in the gas limit, the price, the chain and the nonce they are given.
CallsPredict ==
    pending = <<>> =>
    \A w \in Wallets :
        LET sent   == LocalExecution(RawTransaction(w))
            tx     == Decode(RawTransaction(w)).tx
            mined  == sent.tx.execution.output
            filter == {[by |-> "latest"], [by |-> "pending"], [by |-> "number", number |-> Mined]}
        IN  sent.ok =>
              /\ \A f \in filter :
                    IF mined.result = "success"
                    THEN EthCall(CallOf(tx), f) = Answer("output", mined.output)
                    ELSE /\ EthCall(CallOf(tx), f) = Answer("reverted", mined.output)
                         /\ StratusCall(CallOf(tx), f) = Answer("reason", mined.output)
              /\ mined.result = "success" =>
                    /\ EthEstimateGas(CallOf(tx)).is = "gas"
                    /\ EthEstimateGas(CallOf(tx)).value >= mined.gas_used
              /\ tx.to # None =>
                    {a \in DOMAIN draft \cup DOMAIN sent.tx.state :
                        a \notin DOMAIN draft \/ draft[a] # sent.tx.state[a]}
                      \subseteq StratusAccessList(CallOf(tx)).value
==============================================================================
