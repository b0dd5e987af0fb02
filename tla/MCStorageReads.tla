--------------------------- MODULE MCStorageReads ---------------------------
(***************************************************************************)
(* StorageReads with model values for its keys and threads.                *)
(***************************************************************************)
EXTENDS StorageReads, TLC

CONSTANTS k1, k2

KeySymmetry == Permutations({k1, k2})

\* A cache that keeps its entries beside a pinned call, beside an access-list loader, and
\* for a block less beside both; and one that loses them beside a reader of the latest
\* state, for a block more.
MCLoads == {
    [readers |-> Pinned, drops |-> {}, blocks |-> 2],
    [readers |-> Loaders, drops |-> {}, blocks |-> 2],
    [readers |-> Pinned \cup Loaders, drops |-> {}, blocks |-> 1],
    [readers |-> Unpinned, drops |-> {"evict", "clear"}, blocks |-> 3]}
=============================================================================
