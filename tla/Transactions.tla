---------------------------- MODULE Transactions ----------------------------
(***************************************************************************)
(* The forms a transaction takes: the bytes a wallet signed, the input the *)
(* node decodes from them, what it signs over again to recover the sender, *)
(* the envelope it serves, and the input a follower makes of the served    *)
(* envelope.  The node keeps fewer fields than a wallet signs, and makes   *)
(* the others up when it needs the signature hash.                         *)
(*                                                                         *)
(* Bytes are abstracted: an RLP list is a function from the names of its   *)
(* fields, a hash is the value that was hashed, and a signature is the key *)
(* and the hash it was made with.                                          *)
(***************************************************************************)
EXTENDS Integers, Sequences, FiniteSets, Functions

CONSTANT None   \* the absent value of Rust's Option

Zero == <<"zero">>            \* Address::ZERO
Stranger == <<"stranger">>    \* the address a signature over something else recovers to

Rejected == [ok |-> FALSE]
Accepted(tx) == [ok |-> TRUE, tx |-> tx]

LegacyType == 0
TypedTypes == 1..4        \* EIP-2930, EIP-1559, EIP-4844, EIP-7702

(***************************************************************************)
(* The wallet, outside the node.  It signs every field its transaction     *)
(* type has, and puts them and the signature in the list it sends.         *)
(***************************************************************************)
Common == {"nonce", "gasLimit", "to", "value", "input"}
DynamicFee == Common \cup {"chainId", "maxPriorityFeePerGas", "maxFeePerGas", "accessList"}

EipFields(type, protected) ==
    CASE type = 0 -> Common \cup {"gasPrice"} \cup (IF protected THEN {"chainId"} ELSE {})
      [] type = 1 -> Common \cup {"chainId", "gasPrice", "accessList"}
      [] type = 2 -> DynamicFee
      [] type = 3 -> DynamicFee \cup {"maxFeePerBlobGas", "blobVersionedHashes"}
      [] type = 4 -> DynamicFee \cup {"authorizationList"}

\* What is hashed for the signature: the type byte of a typed transaction, and its fields.
Prehash(type, fields) == <<"keccak", IF type = LegacyType THEN None ELSE type, fields>>

WalletPrehash(w) ==
    Prehash(w.type, Restrict(w.fields, EipFields(w.type, w.fields.chainId # None)))

\* EIP-155: a legacy transaction carries its chain in v, and not as a field.
LegacyV(chain, parity) == IF chain = None THEN 27 + parity ELSE 35 + 2 * chain + parity

RawTransaction(w) ==
    LET signed == [v  |-> IF w.type = LegacyType
                          THEN LegacyV(w.fields.chainId, w.parity) ELSE w.parity,
                   rs |-> <<w.key, WalletPrehash(w), w.parity>>]
        sent   == EipFields(w.type, FALSE) \cup w.extra
    IN  [kind   |-> IF w.type = LegacyType THEN "list" ELSE "typed",
         type   |-> w.type,
         fields |-> [f \in (sent \ w.missing) \cup {"v", "rs"} |->
                       IF f \in {"v", "rs"} THEN signed[f] ELSE w.fields[f]]]

\* ecrecover: the key that signed exactly this hash, or some other address.
RecoverAddress(rs, odd, prehash) ==
    IF rs[2] = prehash /\ odd = (rs[3] = 1) THEN rs[1] ELSE Stranger

(***************************************************************************)
(* Signing over again.  The fields the node does not keep are taken to be  *)
(* empty, and both fees to be the price.                                   *)
(***************************************************************************)
TxTypeOf(tx) == IF tx.type \in TypedTypes THEN tx.type ELSE LegacyType

UnwrapChain(tx) == IF tx.chain_id = None THEN 0 ELSE tx.chain_id

StoredFields(tx) ==
    [nonce                |-> tx.nonce,
     gasPrice             |-> tx.gas_price,
     maxPriorityFeePerGas |-> tx.gas_price,
     maxFeePerGas         |-> tx.gas_price,
     gasLimit             |-> tx.gas_limit,
     to                   |-> tx.to,
     value                |-> tx.value,
     input                |-> tx.input,
     chainId              |-> UnwrapChain(tx),
     accessList           |-> <<>>,
     maxFeePerBlobGas     |-> 0,
     blobVersionedHashes  |-> <<>>,
     authorizationList    |-> <<>>]

SignatureHash(tx) ==
    LET base  == {"nonce", "gasLimit", "to", "value", "input"}
        fees  == {"maxPriorityFeePerGas", "maxFeePerGas"}
        names == CASE TxTypeOf(tx) = 1 -> base \cup {"chainId", "gasPrice", "accessList"}
                   [] TxTypeOf(tx) = 2 -> base \cup fees \cup {"chainId", "accessList"}
                   [] TxTypeOf(tx) = 3 -> base \cup fees \cup {"chainId", "accessList",
                                                    "maxFeePerBlobGas", "blobVersionedHashes"}
                   [] TxTypeOf(tx) = 4 -> base \cup fees \cup {"chainId", "accessList",
                                                    "authorizationList"}
                   [] OTHER -> base \cup {"gasPrice"}
                                 \cup (IF tx.chain_id # None THEN {"chainId"} ELSE {})
    IN  Prehash(TxTypeOf(tx), Restrict(StoredFields(tx), names))

RecoverSignerAddress(tx) == RecoverAddress(tx.rs, tx.v = 1, SignatureHash(tx))

Recovered(tx) == Accepted([tx EXCEPT !.signer = RecoverSignerAddress(tx)])

\* The address a transaction acts for: recovered on demand when it has not been before.
Signer(tx) == IF tx.signer # None THEN tx.signer ELSE RecoverSignerAddress(tx)

(***************************************************************************)
(* Decoding (eth_sendRawTransaction).                                      *)
(***************************************************************************)
\* The chain and the parity a legacy v stands for.
DecodeLegacyV(v) ==
    CASE v = 27  -> [chain_id |-> None, parity |-> 0]
      [] v = 28  -> [chain_id |-> None, parity |-> 1]
      [] v >= 35 -> [chain_id |-> (v - 35) \div 2, parity |-> (v - 27) % 2]

BuildLegacy(f, hash) ==
    IF f.v \notin {27, 28} /\ f.v < 35
    THEN Rejected
    ELSE Recovered([type |-> None, hash |-> hash, signer |-> None,
                    chain_id |-> DecodeLegacyV(f.v).chain_id, nonce |-> f.nonce, to |-> f.to,
                    value |-> f.value, input |-> f.input, gas_limit |-> f.gasLimit,
                    gas_price |-> f.gasPrice, v |-> DecodeLegacyV(f.v).parity, rs |-> f.rs])

DecodeLegacy(raw) ==
    IF DOMAIN raw.fields # {"nonce", "gasPrice", "gasLimit", "to", "value", "input", "v", "rs"}
    THEN Rejected
    ELSE BuildLegacy(raw.fields, <<"keccak", raw>>)

\* The fields of each typed transaction, in the groups the decoder reads them in.
AccessListFields == {"gasLimit", "to", "value", "input", "accessList"}
FeeFields(type) == IF type = 1 THEN {"gasPrice"} ELSE {"maxPriorityFeePerGas", "maxFeePerGas"}
OwnFields(type) ==
    CASE type = 3 -> {"maxFeePerBlobGas", "blobVersionedHashes"}
      [] type = 4 -> {"authorizationList"}
      [] OTHER    -> {}
SignatureFields == {"v", "rs"}

\* decode_dynamic_fee_gas_price: one price is kept, so the two fees must be the same.
FeeSupported(type, f) == type = 1 \/ f.maxPriorityFeePerGas = f.maxFeePerGas
FeePrice(type, f) == IF type = 1 THEN f.gasPrice ELSE f.maxFeePerGas

\* A field that is signed and not kept must have the value the signature hash assumes.
OwnSupported(type, f) ==
    CASE type = 3 -> f.maxFeePerBlobGas = 0 /\ f.blobVersionedHashes = <<>>
      [] type = 4 -> f.authorizationList = <<>>
      [] OTHER    -> TRUE

DecodeTyped(raw) ==
    LET f == raw.fields
        wanted == {"chainId", "nonce"} \cup FeeFields(raw.type) \cup AccessListFields
                    \cup OwnFields(raw.type) \cup SignatureFields
    IN  IF \/ raw.type \notin TypedTypes
           \/ DOMAIN f # wanted
        THEN Rejected
        ELSE IF \/ ~FeeSupported(raw.type, f)
                \/ f.accessList # <<>>
                \/ ~OwnSupported(raw.type, f)
        THEN Rejected
        ELSE Recovered([type |-> raw.type, hash |-> <<"keccak", raw>>, signer |-> None,
                        chain_id |-> f.chainId, nonce |-> f.nonce, to |-> f.to, value |-> f.value,
                        input |-> f.input, gas_limit |-> f.gasLimit,
                        gas_price |-> FeePrice(raw.type, f), v |-> f.v, rs |-> f.rs])

Decode(raw) ==
    CASE raw.kind = "list"  -> DecodeLegacy(raw)
      [] raw.kind = "typed" -> DecodeTyped(raw)
      [] OTHER              -> Rejected          \* no bytes, or a first byte of neither form

(***************************************************************************)
(* The envelope an RPC answer carries.                                     *)
(***************************************************************************)
\* A blob or a delegating transaction has no form without a recipient.
EnvelopeTo(tx) ==
    IF TxTypeOf(tx) \in {3, 4} /\ tx.to = None THEN Zero ELSE tx.to

ToTxEnvelope(tx) ==
    LET f == StoredFields(tx)
    IN  [type |-> TxTypeOf(tx), hash |-> tx.hash, odd |-> tx.v = 1, rs |-> tx.rs,
         fields |-> [n \in EipFields(TxTypeOf(tx), TRUE) |->
                       CASE n = "to" -> EnvelopeTo(tx)
                         [] n = "chainId" /\ TxTypeOf(tx) = LegacyType -> tx.chain_id
                         [] OTHER -> f[n]]]

ToAlloyTransaction(tx) ==
    [envelope |-> ToTxEnvelope(tx), from |-> Signer(tx), block_hash |-> None, block_number |-> None,
     block_timestamp |-> None, transaction_index |-> None, effective_gas_price |-> tx.gas_price]

(***************************************************************************)
(* A follower reads the answer.  Answers made with an older library miss   *)
(* fields, which are filled in before the envelope is parsed.              *)
(***************************************************************************)
\* The JSON object of an answer, and what an older library leaves out of it.
JsonOf(answer, dropped) ==
    LET e == answer.envelope
        parity == IF e.odd THEN 1 ELSE 0
        all == [n \in DOMAIN e.fields \cup {"type", "gasPrice", "v", "rs", "hash", "from"} |->
                  CASE n = "type"     -> e.type
                    [] n = "v"        -> IF e.type = LegacyType
                                         THEN LegacyV(e.fields.chainId, parity) ELSE parity
                    [] n = "rs"       -> e.rs
                    [] n = "hash"     -> e.hash
                    [] n = "from"     -> answer.from
                    [] n = "gasPrice" -> answer.effective_gas_price
                    [] OTHER          -> e.fields[n]]
    IN  Restrict(all, DOMAIN all \ dropped)

\* The parity of the signature the parser makes of a v.
ParsedOdd(json) ==
    (IF json.type = LegacyType THEN DecodeLegacyV(json.v).parity ELSE json.v) = 1

\* What an absent field is filled with: both fees with the price.
MissingValue(json, n) == IF n = "accessList" THEN <<>> ELSE json.gasPrice

\* ExternalTransaction::deserialize.  A legacy v is never 0 or 1, so a bare parity tells a
\* typed transaction; without a type and with a legacy v the parser takes a legacy one.
FillMissing(json) ==
    LET type  == CASE "type" \in DOMAIN json -> json.type
                   [] json.v \in {0, 1}      -> 2
                   [] OTHER                  -> LegacyType
        added == CASE type = 2 -> {"maxFeePerGas", "maxPriorityFeePerGas", "accessList"}
                   [] type = 1 -> {"accessList"}
                   [] OTHER    -> {}
    IN  [n \in DOMAIN json \cup {"type"} \cup added |->
            CASE n = "type"        -> type
              [] n \in DOMAIN json -> json[n]
              [] OTHER             -> MissingValue(json, n)]

Get(json, n, default) == IF n \in DOMAIN json THEN json[n] ELSE default

\* TryFrom<ExternalTransaction>: the signer in the answer is not used.
TransactionFromExternal(json) ==
    LET price == Get(json, "maxFeePerGas", json.gasPrice)
    IN  IF \/ Get(json, "accessList", <<>>) # <<>>
           \/ Get(json, "maxPriorityFeePerGas", price) # price
           \/ Get(json, "maxFeePerBlobGas", 0) # 0
           \/ Get(json, "blobVersionedHashes", <<>>) # <<>>
           \/ Get(json, "authorizationList", <<>>) # <<>>
        THEN Rejected
        ELSE Recovered([type |-> json.type, hash |-> json.hash, signer |-> None,
                        chain_id |-> json.chainId, nonce |-> json.nonce, to |-> json.to,
                        value |-> json.value, input |-> json.input, gas_limit |-> json.gasLimit,
                        gas_price |-> price, v |-> IF ParsedOdd(json) THEN 1 ELSE 0, rs |-> json.rs])
==============================================================================
