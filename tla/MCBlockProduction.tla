-------------------------- MODULE MCBlockProduction --------------------------
(* Instances of BlockProduction for TLC. *)
EXTENDS BlockProduction

CONSTANTS r1, r2, r3, t1, t2, t3

\* Two clients send the same transaction, a third sends another one.
MCTxOf == [r \in Requests |-> IF r = r3 THEN t2 ELSE t1]

\* Three clients send a transaction each.
MCTxOfEach == [r \in Requests |-> IF r = r1 THEN t1 ELSE IF r = r2 THEN t3 ELSE t2]
=============================================================================
