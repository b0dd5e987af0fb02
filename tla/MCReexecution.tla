--------------------------- MODULE MCReexecution ---------------------------
(***************************************************************************)
(* One sender, a contract and another account.  The wallets' transactions  *)
(* cover every type, both forms of legacy signature, the fields the node   *)
(* refuses, and calls that succeed, revert, halt, create and move funds.   *)
(***************************************************************************)
EXTENDS Calls, TLC

Alice == <<"alice">>
Bob == <<"bob">>
Token == <<"token">>

MCGenesis ==
    Alice :> [NoAccount EXCEPT !.balance = 2] @@ Token :> [NoAccount EXCEPT !.code = TRUE]

Fields(nonce, data, to, value, price) ==
    [nonce |-> nonce, gasPrice |-> price, maxPriorityFeePerGas |-> price, maxFeePerGas |-> price,
     gasLimit |-> 7, to |-> to, value |-> value, input |-> data, chainId |-> 5, accessList |-> <<>>,
     maxFeePerBlobGas |-> 0, blobVersionedHashes |-> <<>>, authorizationList |-> <<>>]

Wallet(type, parity, fields) ==
    [type |-> type, key |-> Alice, parity |-> parity, fields |-> fields, extra |-> {}, missing |-> {}]

Plain(type, nonce) == Wallet(type, (type + nonce) % 2, Fields(nonce, "store", Token, 0, 0))

Ordinary(nonce) ==
    {Plain(type, nonce) : type \in 0..4}
      \cup {Wallet(0, nonce, Fields(nonce, data, to, 0, 0)) :
              <<data, to>> \in {<<"trace", Token>>, <<"revert", Token>>, <<"halt", Token>>,
                                <<"pay", Token>>, <<"store", Bob>>,
                                <<"store", None>>}}
      \cup {Wallet(2, 1, Fields(nonce, "transfer", to, 1, 0)) : to \in {Bob, Zero}}
      \cup {Wallet(1, 0, Fields(nonce, "revert", Token, 0, 1)),
            Wallet(2, 0, Fields(nonce, "store", None, 0, 1)),
            [Plain(0, nonce) EXCEPT !.fields.chainId = None],
            [Plain(0, nonce) EXCEPT !.fields.chainId = 6]}

Refused ==
    {[Plain(2, 0) EXCEPT !.fields.maxPriorityFeePerGas = 1],
     [Plain(1, 0) EXCEPT !.fields.accessList = <<Token>>],
     [Plain(3, 0) EXCEPT !.fields.maxFeePerBlobGas = 1],
     [Plain(3, 0) EXCEPT !.fields.blobVersionedHashes = <<"blob">>],
     [Plain(4, 0) EXCEPT !.fields.authorizationList = <<Bob>>],
     [Plain(2, 0) EXCEPT !.extra = {"gasPrice"}],
     [Plain(2, 0) EXCEPT !.missing = {"value"}],
     [Plain(0, 0) EXCEPT !.missing = {"value"}]}

\* Every kind of transaction first and second, every type once more after those.
MCWallets == Ordinary(0) \cup Ordinary(1) \cup {Plain(type, 2) : type \in 0..4} \cup Refused

\* A contract that emits a transfer when it is sent funds, without data.
MCReceives == {Wallet(2, 0, Fields(nonce, "receive", Token, 1, 0)) : nonce \in {0, 1}}

\* Blob and delegating transactions without a recipient, which the decoder takes.
MCCreates == {Wallet(type, 0, Fields(nonce, "store", None, 0, 0)) : type \in 2..4, nonce \in {0, 1}}

MCDialects ==
    {[tx |-> {}, receipt |-> {}],
     [tx |-> {"accessList", "maxFeePerGas", "maxPriorityFeePerGas"}, receipt |-> {"effectiveGasPrice", "type"}]}
==============================================================================
