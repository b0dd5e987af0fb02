---------------------------- MODULE LeaderClient ----------------------------
(***************************************************************************)
(* A follower talks to its leader (importers/blockchain_client.rs, the     *)
(* number fetcher and fetch_with_retry of importer/mod.rs, the forwarding  *)
(* of follower/consensus.rs), while the leader restarts with another limit *)
(* or another version, connections break and answers get lost.             *)
(*                                                                         *)
(* The leader's chain only grows.  Every start of the leader is an epoch;  *)
(* a WebSocket connection and a subscription belong to one.                *)
(***************************************************************************)
EXTENDS Pagination

CONSTANTS
    Sizes,      \* the size of each block's response: the leader mines that many blocks
    Limits,     \* rpc_max_response_size_bytes the leader may be configured with
    Txs,        \* transactions 1..n of one account, in the order of their nonces
    MaxEvents   \* bound: faults, restarts and transactions sent

ASSUME LeaderClientAssumption ==
    /\ Sizes \in Seq(Nat) /\ Limits \subseteq Nat /\ Txs \subseteq Nat \ {0} /\ MaxEvents \in Nat
    /\ \A limit \in Limits : RawBudget(limit) > 0  \* MIN_RESPONSE_SIZE_BYTES

VARIABLES
    leader,    \* [up, epoch, limit, pages, head, nonce]
    client,    \* the follower's client: new or ready; its WebSocket's epoch
    fetch,     \* the reassembler of the block being fetched, or None
    fetched,   \* the responses of blocks 1, 2, ... as they were deserialized
    number,    \* the number fetcher: [pc, attempt, shutdown]
    sub,       \* its newHeads subscription: [epoch, items]
    known,     \* EXTERNAL_RPC_CURRENT_BLOCK
    send,      \* each transaction sent to the follower: [pc, answer, accepted]
    events

vars == <<leader, client, fetch, fetched, number, sub, known, send, events>>
followerVars == <<client, fetch, fetched, number, sub, known, send>>

Head1 == Len(fetched) + 1
Event == events < MaxEvents /\ events' = events + 1

Response(n) == [i \in 1..Sizes[n] |-> <<n, i>>]

(***************************************************************************)
(* The leader.                                                             *)
(***************************************************************************)
Subscribed == sub # None /\ leader.up /\ sub.epoch = leader.epoch

\* A block is mined; whoever is subscribed is told, unless the notification is lost.
LeaderMines ==
    /\ leader.up /\ leader.head < Len(Sizes)
    /\ leader' = [leader EXCEPT !.head = @ + 1]
    /\ \/ /\ sub' = IF Subscribed THEN [sub EXCEPT !.items = Append(@, leader.head + 1)] ELSE sub
          /\ UNCHANGED events
       \/ Event /\ Subscribed /\ UNCHANGED sub
    /\ UNCHANGED <<client, fetch, fetched, number, known, send>>

LeaderStops ==
    /\ Event /\ leader.up
    /\ leader' = [leader EXCEPT !.up = FALSE]
    /\ UNCHANGED followerVars

\* With the limit and the version it has now; an upgrade is not taken back.
LeaderStarts ==
    /\ ~leader.up
    /\ \E limit \in Limits, pages \in BOOLEAN :
          /\ leader.pages => pages
          /\ leader' = [leader EXCEPT !.up = TRUE, !.epoch = @ + 1, !.limit = limit, !.pages = pages]
    /\ UNCHANGED <<followerVars, events>>

\* What the importer's endpoints answer; a version without pagination ignores the offset.
Answer(n, offset) ==
    IF n > leader.head THEN Null
    ELSE OnWire(Respond(Response(n), IF leader.pages THEN offset ELSE None, leader.limit), leader.limit)

(***************************************************************************)
(* The client.                                                             *)
(***************************************************************************)
\* new_http_ws: both connections, then net_listening; an error leaves no client behind and
\* the importer's start is asked for again.
Connect ==
    /\ client.pc = "new" /\ leader.up
    /\ client' = [pc |-> "ready", ws |-> leader.epoch]
    /\ UNCHANGED <<leader, fetch, fetched, number, sub, known, send, events>>

\* fetch_with_retry: a response that failed or is not there yet is asked for from its start.
Retry == fetch' = None /\ UNCHANGED fetched

Deserialized(bytes) == fetch' = None /\ fetched' = Append(fetched, bytes)

\* push, then the response is complete or the next page is asked for.
TakePage(r, page) ==
    IF PushFails(r, page) THEN Retry
    ELSE LET next == Push(r, page)
         IN  IF ~PushDone(next) THEN fetch' = next /\ UNCHANGED fetched
             ELSE IF FinishFails(next) THEN Retry
             ELSE Deserialized(next.received)

\* fetch_serialized_response: one request of it and its answer.
FetchFirst ==
    /\ client.pc = "ready" /\ leader.up /\ fetch = None /\ Head1 <= known
    /\ LET reply == Answer(Head1, 0)
       IN  CASE reply.form = "whole" -> Deserialized(reply.bytes)
             [] IsEnvelope(reply) /\ reply.total <= MAX_REASSEMBLY_TOTAL ->
                    TakePage(NewReassembler(reply.total), reply)
             [] OTHER -> Retry
    /\ UNCHANGED <<leader, client, number, sub, known, send, events>>

FetchNext ==
    /\ leader.up /\ fetch # None
    /\ LET reply == Answer(Head1, Len(fetch.received))
       IN  IF IsEnvelope(reply) THEN TakePage(fetch, reply) ELSE Retry
    /\ UNCHANGED <<leader, client, number, sub, known, send, events>>

\* A request fails: the leader is not there, or it takes longer than the timeout.
FetchFails ==
    /\ fetch # None
    /\ leader.up => Event
    /\ ~leader.up => UNCHANGED events
    /\ Retry
    /\ UNCHANGED <<leader, client, number, sub, known, send>>

(***************************************************************************)
(* start_number_fetcher and subscribe_new_heads.                           *)
(***************************************************************************)
\* set_external_rpc_current_block
SetKnown(n) == known' = IF n > known THEN n ELSE known

Connected == leader.up /\ client.ws = leader.epoch

\* The first subscription decides whether the node goes on at all.
SubscribeFails ==
    /\ number' = IF number.pc = "first" THEN [number EXCEPT !.pc = "stopped", !.shutdown = TRUE]
                 ELSE [number EXCEPT !.pc = "poll"]
    /\ UNCHANGED <<client, sub>>

Subscribes ==
    /\ sub' = [epoch |-> client.ws, items |-> <<>>]
    /\ number' = [number EXCEPT !.pc = IF @ = "first" THEN "read" ELSE "poll"]
    /\ UNCHANGED client

\* A new WebSocket client replaces the broken one.
Reconnect ==
    /\ client' = [client EXCEPT !.ws = leader.epoch]
    /\ number' = [number EXCEPT !.attempt = 2]
    /\ UNCHANGED sub

\* subscribe_new_heads: a broken connection is replaced once.
SubscribeNewHeads ==
    /\ client.pc = "ready" /\ number.pc \in {"first", "again"}
    /\ \/ number.shutdown /\ SubscribeFails /\ UNCHANGED events
       \/ ~number.shutdown /\ Connected /\ Subscribes /\ UNCHANGED events
       \/ ~number.shutdown /\ Connected /\ Event /\ SubscribeFails
       \/ /\ ~number.shutdown /\ ~Connected
          /\ IF number.attempt = 1 /\ leader.up THEN Reconnect ELSE SubscribeFails
          /\ UNCHANGED events
    /\ UNCHANGED <<leader, fetch, fetched, known, send>>

\* A new head, read from the subscription.
ReadHead ==
    /\ number.pc = "read" /\ ~number.shutdown /\ sub.items # <<>>
    /\ SetKnown(Head(sub.items))
    /\ sub' = [sub EXCEPT !.items = Tail(@)]
    /\ UNCHANGED <<leader, client, fetch, fetched, number, send, events>>

\* The subscription was closed, or there was no head for TIMEOUT_NEW_HEADS.
ReadFails ==
    /\ number.pc = "read" /\ ~number.shutdown /\ sub.items = <<>>
    /\ number' = [number EXCEPT !.pc = "again", !.attempt = 1]
    /\ UNCHANGED <<leader, client, fetch, fetched, sub, known, send, events>>

\* After a subscription, made again or not, the number is polled once.
Poll ==
    /\ number.pc = "poll" /\ ~number.shutdown
    /\ number' = [number EXCEPT !.pc = "read"]
    /\ \/ leader.up /\ SetKnown(leader.head) /\ UNCHANGED events
       \/ ~leader.up /\ UNCHANGED <<known, events>>
       \/ leader.up /\ Event /\ UNCHANGED known
    /\ UNCHANGED <<leader, client, fetch, fetched, sub, send>>

Shutdown ==
    /\ Event /\ ~number.shutdown
    /\ number' = [number EXCEPT !.shutdown = TRUE]
    /\ UNCHANGED <<leader, client, fetch, fetched, sub, known, send>>

\* should_shutdown, asked at every turn of the loop.
NumberStops ==
    /\ number.shutdown /\ number.pc \in {"read", "poll"}
    /\ number' = [number EXCEPT !.pc = "stopped"]
    /\ UNCHANGED <<leader, client, fetch, fetched, sub, known, send, events>>

(***************************************************************************)
(* Transactions a follower passes on.                                      *)
(***************************************************************************)
\* A client sends the transaction, for the first time or after an error.
Send(t) ==
    /\ Event /\ client.pc = "ready" /\ send[t].pc = "idle" /\ send[t].answer # "hash"
    /\ send' = [send EXCEPT ![t].pc = "forwarded"]
    /\ UNCHANGED <<leader, client, fetch, fetched, number, sub, known>>

Told(t, answer) == [send[t] EXCEPT !.pc = "idle", !.answer = answer]

\* The leader executes what has the account's nonce and answers.
LeaderExecutes(t) ==
    /\ leader.up /\ send[t].pc = "forwarded"
    /\ send' = [send EXCEPT ![t] = [
                    pc       |-> "answered",
                    answer   |-> IF leader.nonce = t THEN "hash" ELSE "LeaderFailed",
                    accepted |-> IF leader.nonce = t THEN @.accepted + 1 ELSE @.accepted]]
    /\ leader' = [leader EXCEPT !.nonce = IF @ = t THEN @ + 1 ELSE @]
    /\ UNCHANGED <<client, fetch, fetched, number, sub, known, events>>

\* send_raw_transaction_to_leader: the leader's own errors are passed on.
ForwardAnswered(t) ==
    /\ send[t].pc = "answered"
    /\ send' = [send EXCEPT ![t].pc = "idle"]
    /\ UNCHANGED <<leader, client, fetch, fetched, number, sub, known, events>>

\* Mutant of ForwardFails: an answer that got lost is taken for a success.
ForwardFailsSilently(t) ==
    /\ send[t].pc \in {"forwarded", "answered"}
    /\ leader.up => Event
    /\ ~leader.up => UNCHANGED events
    /\ send' = [send EXCEPT ![t] = Told(t, "hash")]
    /\ UNCHANGED <<leader, client, fetch, fetched, number, sub, known>>

\* Anything else, a lost request or a lost answer, is ForwardToLeaderFailed.
ForwardFails(t) ==
    /\ send[t].pc \in {"forwarded", "answered"}
    /\ leader.up => Event
    /\ ~leader.up => UNCHANGED events
    /\ send' = [send EXCEPT ![t] = Told(t, "ForwardToLeaderFailed")]
    /\ UNCHANGED <<leader, client, fetch, fetched, number, sub, known>>

(***************************************************************************)
(* The specification.                                                      *)
(***************************************************************************)
Init ==
    /\ \E limit \in Limits, pages \in BOOLEAN :
          leader = [up |-> TRUE, epoch |-> 1, limit |-> limit, pages |-> pages, head |-> 0, nonce |-> 1]
    /\ client = [pc |-> "new", ws |-> 0]
    /\ fetch = None /\ fetched = <<>>
    /\ number = [pc |-> "first", attempt |-> 1, shutdown |-> FALSE]
    /\ sub = None /\ known = 0
    /\ send = [t \in Txs |-> [pc |-> "idle", answer |-> "none", accepted |-> 0]]
    /\ events = 0

FetchStep == FetchFirst \/ FetchNext \/ FetchFails

NumberStep == SubscribeNewHeads \/ ReadHead \/ ReadFails \/ Poll \/ NumberStops

Next ==
    \/ LeaderMines \/ LeaderStops \/ LeaderStarts
    \/ Connect \/ FetchStep \/ NumberStep \/ Shutdown
    \/ \E t \in Txs : Send(t) \/ LeaderExecutes(t) \/ ForwardAnswered(t) \/ ForwardFails(t)

\* The tasks of the importer's runtime run, a leader that is up mines and answers.
Fairness ==
    /\ WF_vars(LeaderMines) /\ WF_vars(Connect)
    /\ WF_vars(FetchStep) /\ WF_vars(NumberStep)

Spec == Init /\ [][Next]_vars /\ Fairness

(***************************************************************************)
(* Properties.                                                             *)
(***************************************************************************)
\* What the importer deserializes is byte for byte what the leader serialized for that block,
\* whatever restarts, limits, versions and lost answers lay between two of its pages; and a
\* block is never fetched before the leader has it (fetch_serialized_response, Reassembler).
FetchedWhole ==
    /\ Len(fetched) <= leader.head /\ known <= leader.head
    /\ \A n \in DOMAIN fetched : fetched[n] = Response(n)

\* A follower hands out a hash only for a transaction its leader executed, and a client that
\* sends again after ForwardToLeaderFailed does not have its transaction executed twice
\* (send_raw_transaction_to_leader, forward_to_leader).
ForwardingSound ==
    \A t \in Txs :
        /\ send[t].accepted <= 1
        /\ send[t].answer = "hash" => send[t].accepted = 1

Steady == leader.up /\ leader.pages /\ ~number.shutdown

\* Once the leader stays up with a version that knows pages, the number fetcher finds out its
\* head, whatever became of the subscription, and every block is fetched, however large.
CatchesUpWithLeader == <>[]Steady => <>(Len(fetched) = Len(Sizes))
=============================================================================
