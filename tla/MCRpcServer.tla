---------------------------- MODULE MCRpcServer -----------------------------
(***************************************************************************)
(* Instances of RpcServer: two connections of one client that spell its    *)
(* name differently, an administrator with the same name, and a caller who *)
(* does not say who it is.                                                 *)
(***************************************************************************)
EXTENDS RpcServer, TLC

CONSTANTS c1, c2

Raw(name, decorated) == [name |-> name, decorated |-> decorated, ascii |-> TRUE]
Node1 == Raw(<<"stratus", "-", "node">>, FALSE)
Node2 == Raw(<<"stratus", "-", "-", "node">>, TRUE)

Anonymous == [query |-> <<None, None>>, headers |-> <<None, [Node1 EXCEPT !.ascii = FALSE]>>,
              path |-> None, password |-> "secret"]
Admin == [Anonymous EXCEPT !.headers = <<Raw(<<>>, FALSE), Node2>>]
Guest == [Anonymous EXCEPT !.query = <<None, Node1>>, !.password = None]

MCOpening == c1 :> Admin @@ c2 :> [Anonymous EXCEPT !.path = Node1]

MCNodes == {[mode |-> "follower", shutdown |-> FALSE, importer |-> i] : i \in {"serving", "lagging"}}

BlockItself ==
    <<[name |-> "blockClient", client |-> Node1], [name |-> "restartOnUnhealthy", on |-> FALSE]>>

MCBatches ==
    {[request |-> Admin, rest |-> BlockItself], [request |-> Guest, rest |-> <<BlockItself[1]>>],
     [request |-> Anonymous,
      rest |-> <<[name |-> "unblockClient", client |-> Node2], [name |-> "clearBlockedClients"],
                 [name |-> "unknownClients", on |-> FALSE]>>]}
=============================================================================
