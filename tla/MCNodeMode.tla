----------------------------- MODULE MCNodeMode -----------------------------
(***************************************************************************)
(* Model checking of NodeMode: two administrators whose calls overlap and  *)
(* one client, from a node booted as leader or as follower.                *)
(***************************************************************************)
EXTENDS NodeMode
=============================================================================
