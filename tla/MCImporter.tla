----------------------------- MODULE MCImporter -----------------------------
(***************************************************************************)
(* Importer for TLC.  The fields of the account are interchangeable.       *)
(***************************************************************************)
EXTENDS Importer, TLC

CONSTANTS nonce, balance

FieldSymmetry == Permutations({nonce, balance})

Configuration(mode, kafka, stopAt) == [mode |-> mode, kafka |-> kafka, stopAt |-> stopAt]

\* A follower of each kind.  Without a Kafka connector a re-executing worker cannot be
\* cancelled between finishing a block and committing it.
SafeBoots ==
    {Configuration("replication", TRUE, Unset), Configuration("reexecution", FALSE, Unset),
     Configuration("fake", FALSE, Unset)}

\* The two kinds of follower with a Kafka connector, and one that stops at a block.
LiveBoots ==
    {Configuration("replication", TRUE, Unset), Configuration("reexecution", TRUE, Unset),
     Configuration("replication", TRUE, 1)}

\* A re-executing follower with a Kafka connector.
RestartBoots == {Configuration("reexecution", TRUE, Unset)}
=============================================================================
