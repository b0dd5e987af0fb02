------------------------------- MODULE Replica -------------------------------
(***************************************************************************)
(* What a follower promises: its chain is always a prefix of the leader's  *)
(* and grows by one block at a time, whatever happens to the importer.     *)
(***************************************************************************)
EXTENDS Naturals, Sequences

CONSTANT Content  \* what a block may contain

VARIABLES
    leader,   \* the leader's chain
    replica   \* the follower's chain

Init == leader = <<>> /\ replica = <<>>

Mine(c) ==
    /\ leader' = Append(leader, c)
    /\ UNCHANGED replica

Import ==
    /\ Len(replica) < Len(leader)
    /\ replica' = Append(replica, leader[Len(replica) + 1])
    /\ UNCHANGED leader

Next == Import \/ \E c \in Content : Mine(c)

Spec == Init /\ [][Next]_<<leader, replica>>
=============================================================================
