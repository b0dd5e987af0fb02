------------------------------- MODULE Ledger -------------------------------
(***************************************************************************)
(* What block production promises its clients, without threads, locks or   *)
(* storages: accepted transactions wait in one queue, a block takes a      *)
(* prefix of the queue, the chain only grows at its end and no transaction *)
(* enters it twice.  A node that fails may forget transactions it had      *)
(* accepted and not yet put in the chain, the oldest ones first.           *)
(***************************************************************************)
EXTENDS Naturals, Sequences

CONSTANT Txs

VARIABLES
    chain,  \* the transactions of each block, in block order
    open    \* accepted transactions that are not in the chain

Entries(s) == {s[i] : i \in DOMAIN s}
InChain == UNION {Entries(chain[i]) : i \in DOMAIN chain}

\* An empty database, or the empty genesis block.
Init == chain \in {<<>>, <<<<>>>>} /\ open = <<>>

Accept(t) ==
    /\ t \notin InChain \cup Entries(open)
    /\ open' = Append(open, t)
    /\ UNCHANGED chain

Seal(k) ==
    /\ chain' = Append(chain, SubSeq(open, 1, k))
    /\ open' = SubSeq(open, k + 1, Len(open))

Forget(k) ==
    /\ open' = SubSeq(open, k + 1, Len(open))
    /\ UNCHANGED chain

Next ==
    \/ \E t \in Txs : Accept(t)
    \/ \E k \in 0..Len(open) : Seal(k) \/ Forget(k)

Spec == Init /\ [][Next]_<<chain, open>>
=============================================================================
