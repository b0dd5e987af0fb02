-------------------------- MODULE MCLeaderClient ----------------------------
(***************************************************************************)
(* Instances of LeaderClient: a response that fits one limit and takes two *)
(* pages under another, and one that always takes several.                 *)
(***************************************************************************)
EXTENDS LeaderClient

MCSizes == <<7, 10>>
=============================================================================
