------------------------------ MODULE MCRocks ------------------------------
(***************************************************************************)
(* The permanent storage with two addresses, one slot and two bodies of    *)
(* blocks: one with logs in two transactions and one whose first           *)
(* transaction has no logs; the genesis block is empty.                    *)
(***************************************************************************)
EXTENDS RpcQueries

CONSTANTS t1, t2, t3, t4

Tx(hash, logs) ==
    [hash |-> hash, number |-> 0, time |-> 0, result |-> "success", output |-> hash, logs |-> logs]

Change(accounts, slots) == [accounts |-> accounts, slots |-> slots]

MCBodies ==
    {[txs |-> <<Tx(t1, <<LogFromTopics(1, <<"a">>), LogFromTopics(2, <<"b", "a">>)>>),
               Tx(t4, <<LogFromTopics(2, <<>>)>>)>>,
      changes |-> Change(1 :> [nonce |-> 1], <<2, 1>> :> 7)],
     [txs |-> <<Tx(t2, <<>>), Tx(t3, <<LogFromTopics(1, <<"a", "c">>)>>)>>,
      changes |-> Change((1 :> [balance |-> 5]) @@ (2 :> [nonce |-> 1]), (<<1, 1>> :> 3) @@ (<<2, 1>> :> 0))]}

MCTestAccounts == 2 :> [nonce |-> 3, balance |-> 9, code |-> None]

Entry(balance, nonce, storage) ==
    [balance |-> balance, nonce |-> nonce, code |-> <<>>, storage |-> storage]

File(alloc) == [is |-> "read", config |-> [timestamp |-> Hex(1), parent |-> <<"zero">>, alloc |-> alloc]]

MCEdits == {[balance |-> 2]}

Request(from, to, hash, address, topics) ==
    [from_block |-> from, to_block |-> to, block_hash |-> hash, address |-> address, topics |-> topics]

Earliest == [by |-> "earliest"]

MCLogRequests ==
    {Request(Earliest, None, None, {}, <<>>),
     Request(Earliest, [by |-> "latest"], None, {1}, <<>>),
     Request(Earliest, None, None, {}, <<{"a"}>>),
     Request(Earliest, None, None, {}, <<{None, "z"}, {"a", "c"}>>),
     Request(None, None, None, {}, <<>>),
     Request(None, None, BlockHash(1), {}, <<{}>>)}

Build(dev, sync, file) == [dev |-> dev, sync |-> sync, file |-> file]

MCBuilds ==
    {Build(TRUE, TRUE, File(1 :> Entry(Hex(9), Dec(1), 1 :> 4))),
     Build(TRUE, FALSE, [is |-> "none"]),
     Build(TRUE, TRUE, File((1 :> Entry(Hex(None), None, Empty)) @@ (2 :> Entry(Dec(2), None, 1 :> 4)))),
     Build(FALSE, FALSE, [is |-> "none"])}

==============================================================================
