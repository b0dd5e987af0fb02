----------------------------- MODULE RpcServer ------------------------------
(***************************************************************************)
(* The JSON-RPC server while it runs (Server::serve of rpc/server.rs,      *)
(* rpc/subscriptions.rs, rpc/middleware, the switches of globals.rs and    *)
(* rpc/exporter/runtime.rs): it serves, restarts when the node becomes     *)
(* unhealthy and stops at a shutdown, while clients subscribe, the miner   *)
(* publishes events, and administrators send batches of calls.             *)
(*                                                                         *)
(* Every start of the server is a generation with its own registry of      *)
(* subscriptions, its own notifiers and its own cleaner.  A subscription's *)
(* sink is <<connection, number>>.  A call that is refused answers with an *)
(* error and changes nothing: it is a call that does not happen.           *)
(***************************************************************************)
EXTENDS RpcClients

CONSTANTS
    Conns,         \* WebSocket connections, each opened at most once
    Opening,       \* the HTTP request each connection was opened with
    Kinds,         \* newPendingTransactions, newHeads, logs
    LogFilters,    \* log filters; a log has the one filter it matches
    Nodes,         \* what Server::health looks at
    Batches,       \* administrators' calls: an HTTP request and the batch it carries
    MaxSubscriptions,  \* rpc_max_subscriptions
    Capacity,      \* of the miner's broadcast channels
    MaxGen,        \* bound: starts of the server
    MaxEvents      \* bound: what clients, the miner, the importer and the machine do

\* What a batch may carry: the administrators' calls that switch something.
SwitchNames ==
    {"restartOnUnhealthy", "unknownClients", "blockClient", "unblockClient", "clearBlockedClients"}

ASSUME RpcServerAssumption ==
    /\ {MaxSubscriptions, MaxGen, MaxEvents} \subseteq Nat
    /\ Capacity \in Nat \ {0}
    /\ 2 * MaxGen > MaxEvents + 1
    /\ \A b \in Batches : /\ DOMAIN b = {"request", "rest"}
                          /\ b.rest \in Seq(Range(b.rest)) /\ b.rest # <<>>
                          /\ \A op \in Range(b.rest) : op.name \in SwitchNames

VARIABLES
    serve,     \* where Server::serve is, and the generation it started last
    server,    \* the jsonrpsee server: down, up, stopping, stopped
    exporter,  \* the exporter's runtime: running, cancelled, gone
    health,    \* HEALTH, and whether serve has not seen its last change
    worker,    \* the health worker: about to read, about to store the other value, done
    state,     \* the switches of GlobalState
    node,      \* what Server::health looks at
    conns,     \* each connection: new, open, closed; its generation and client
    calls,     \* the eth_subscribe of each connection that passed its checks
    subs,      \* RpcSubscriptionsConnected of every generation
    live,      \* sinks that are not closed
    notifier,  \* each generation's notifiers
    queue,     \* what each notifier has not received yet
    sending,   \* notifications on their way
    got,       \* notifications that arrived
    cleaner,   \* each generation's cleaner, and the subscriptions it removed
    gauge,     \* the metric of active subscriptions
    batch,     \* the batch being served
    banned,    \* history: the names that were blocked and not unblocked
    owed,      \* history: the event and the subscriptions there when it was published
    events

serveVars == <<serve, server, exporter, health, worker>>
stateVars == <<state, node, batch, banned>>
subVars == <<conns, calls, subs, live, gauge>>
noteVars == <<notifier, queue, sending, got, owed>>
vars == <<serveVars, stateVars, subVars, noteVars, cleaner, events>>

Gens == 1..MaxGen
NoBatch == [request |-> None, rest |-> <<>>]
Running == serve.pc \notin {"done", "failed"}

\* Something outside the server happens: one of MaxEvents.
Event == Running /\ events < MaxEvents /\ events' = events + 1

(***************************************************************************)
(* Health.                                                                 *)
(***************************************************************************)
Health(n) ==
    \/ n.mode \in {"leader", "fake-leader"}
    \/ n.mode = "follower" /\ ~n.shutdown /\ n.importer = "serving"

\* Mutant of SetHealth: only the change to healthy is announced.
SetHealthSilent(h) ==
    health' = [value |-> h, changed |-> health.changed \/ (h /\ ~health.value)]

\* GlobalState::set_health: a watch channel, modified only by another value.
SetHealth(h) == health' = [value |-> h, changed |-> health.changed \/ h # health.value]

\* The importer starts to lag, catches up, stops, or the node changes its mode.
NodeChanges ==
    /\ Event
    /\ node' \in Nodes \ {node}
    /\ UNCHANGED <<serveVars, state, batch, banned, subVars, noteVars, cleaner>>

\* health_worker: update_health awaits the importer before it stores what it found, and
\* only a health other than the stored one makes a difference.
WorkerReads ==
    /\ Running /\ worker = "read" /\ Health(node) # health.value
    /\ worker' = "set"
    /\ UNCHANGED <<serve, server, exporter, health, stateVars, subVars, noteVars, cleaner, events>>

WorkerSets ==
    /\ Running /\ worker = "set"
    /\ SetHealth(~health.value)
    /\ worker' = "read"
    /\ UNCHANGED <<serve, server, exporter, stateVars, subVars, noteVars, cleaner, events>>

\* The shutdown is looked at after every tick.
WorkerTicks ==
    /\ Running /\ worker = "read" /\ state.shutdown
    /\ worker' = "done"
    /\ UNCHANGED <<serve, server, exporter, health, stateVars, subVars, noteVars, cleaner, events>>

(***************************************************************************)
(* Server::serve.                                                          *)
(***************************************************************************)
\* update_health, the worker, the receiver that takes the health of now as seen.
Boot ==
    /\ serve.pc = "boot"
    /\ serve' = [serve EXCEPT !.pc = "bind"]
    /\ health' = [value |-> Health(node), changed |-> FALSE]
    /\ worker' = "read"
    /\ UNCHANGED <<server, exporter, stateVars, subVars, noteVars, cleaner, events>>

\* RpcSubscriptions::spawn: the cleaner, whose handle is dropped, and the notifiers.
Spawn(g) ==
    /\ cleaner' = [cleaner EXCEPT ![g] = [pc |-> "sweep", cleaned |-> {}]]
    /\ notifier' = [notifier EXCEPT ![g] = [k \in Kinds |-> "run"]]
    /\ UNCHANGED <<queue, sending, got, owed>>

\* _serve: the subscriptions are spawned before the address is bound.
Bind ==
    /\ serve.pc = "bind"
    /\ Spawn(serve.gen + 1)
    /\ \/ /\ server' = "up"
          /\ serve' = [pc |-> "select", gen |-> serve.gen + 1]
          /\ UNCHANGED events
       \/ /\ Event
          /\ serve' = [pc |-> "failed", gen |-> serve.gen + 1]
          /\ UNCHANGED server
    /\ UNCHANGED <<exporter, health, worker, stateVars, subVars>>

\* jsonrpsee: a server told to stop closes its connections.
StopServer ==
    /\ Running /\ server = "stopping"
    /\ server' = "stopped"
    /\ conns' = [c \in Conns |-> IF conns[c].status = "open"
                                 THEN [conns[c] EXCEPT !.status = "closed"] ELSE conns[c]]
    /\ live' = {}
    /\ UNCHANGED <<serve, exporter, health, worker, stateVars, calls, subs, gauge, noteVars,
                   cleaner, events>>

\* It stops without being told.
ServerDies ==
    /\ Event
    /\ server = "up"
    /\ server' = "stopping"
    /\ UNCHANGED <<serve, exporter, health, worker, stateVars, subVars, noteVars, cleaner>>

\* The select: the server stopped by itself.
SelectStopped ==
    /\ serve.pc = "select" /\ server = "stopped"
    /\ state' = [state EXCEPT !.shutdown = TRUE]
    /\ serve' = [serve EXCEPT !.pc = "join"]
    /\ UNCHANGED <<server, exporter, health, worker, node, batch, banned, subVars, noteVars,
                   cleaner, events>>

Stop == IF server = "up" THEN "stopping" ELSE server

SelectShutdown ==
    /\ serve.pc = "select" /\ state.shutdown
    /\ server' = Stop
    /\ serve' = [serve EXCEPT !.pc = "join"]
    /\ UNCHANGED <<exporter, health, worker, stateVars, subVars, noteVars, cleaner, events>>

\* wait_for_change: a change that is not one to unhealthy, or comes while restarts are
\* off, has been seen and is forgotten.
SelectChange ==
    /\ serve.pc = "select" /\ health.changed
    /\ health' = [health EXCEPT !.changed = FALSE]
    /\ IF state.restart /\ ~health.value
       THEN /\ server' = Stop
            /\ serve' = [serve EXCEPT !.pc = "drain"]
            /\ notifier' = [notifier EXCEPT ![serve.gen] =
                              [k \in Kinds |-> IF @[k] = "run" THEN "aborting" ELSE @[k]]]
       ELSE UNCHANGED <<server, serve, notifier>>
    /\ UNCHANGED <<exporter, worker, stateVars, subVars, queue, sending, got, owed, cleaner,
                   events>>

Ended(g) == \A k \in Kinds : notifier[g][k] = "ended"

\* Mutant of Drain: the next server starts while the old notifiers are still there.
DrainServerOnly ==
    /\ serve.pc = "drain" /\ server = "stopped"
    /\ serve' = [serve EXCEPT !.pc = "bind"]
    /\ UNCHANGED <<server, exporter, health, worker, stateVars, subVars, noteVars, cleaner, events>>

\* join!(server_handle.stopped(), subscriptions.stopped()) before the next start.
Drain ==
    /\ serve.pc = "drain" /\ server = "stopped" /\ Ended(serve.gen)
    /\ serve' = [serve EXCEPT !.pc = "bind"]
    /\ UNCHANGED <<server, exporter, health, worker, stateVars, subVars, noteVars, cleaner, events>>

Join ==
    /\ serve.pc = "join" /\ server = "stopped" /\ Ended(serve.gen) /\ worker = "done"
    /\ serve' = [serve EXCEPT !.pc = "exporter"]
    /\ UNCHANGED <<server, exporter, health, worker, stateVars, subVars, noteVars, cleaner, events>>

\* ExporterRuntime::shutdown: cancel the token, then join the runtime's thread.
ShutdownExporter ==
    /\ serve.pc = "exporter"
    /\ \/ exporter = "running" /\ exporter' = "cancelled" /\ UNCHANGED serve
       \/ exporter = "gone" /\ serve' = [serve EXCEPT !.pc = "done"] /\ UNCHANGED exporter
    /\ UNCHANGED <<server, health, worker, stateVars, subVars, noteVars, cleaner, events>>

\* run_exporter_runtime: it sleeps until it is cancelled.
ExporterEnds ==
    /\ exporter = "cancelled"
    /\ exporter' = "gone"
    /\ UNCHANGED <<serve, server, health, worker, stateVars, subVars, noteVars, cleaner, events>>

\* SIGTERM or SIGINT.
Signal ==
    /\ Event
    /\ ~state.shutdown
    /\ state' = [state EXCEPT !.shutdown = TRUE]
    /\ UNCHANGED <<serveVars, node, batch, banned, subVars, noteVars, cleaner>>

(***************************************************************************)
(* Connections and eth_subscribe.                                          *)
(***************************************************************************)
Close(c) ==
    /\ Event
    /\ conns[c].status = "open"
    /\ conns' = [conns EXCEPT ![c].status = "closed"]
    /\ live' = {s \in live : s[1] # c}
    /\ UNCHANGED <<serveVars, stateVars, calls, subs, gauge, noteVars, cleaner>>

\* eth_unsubscribe, which jsonrpsee serves: the sink is closed, its entry stays.
Unsubscribe(sink) ==
    /\ Event
    /\ server = "up"
    /\ live' = live \ {sink}
    /\ UNCHANGED <<serveVars, stateVars, conns, calls, subs, gauge, noteVars, cleaner>>

Registered(g) == {s \in subs : s.gen = g}

\* check_client_subscriptions
WithinLimit(conn) ==
    Cardinality({s \in Registered(conn.gen) : s.client = conn.client}) < MaxSubscriptions

FiltersOf(k) == IF k = "logs" THEN LogFilters ELSE {None}

\* A connection is opened for its first subscription; who it is of was said then.
Opened(c) ==
    IF conns[c].status # "new" THEN conns[c]
    ELSE [status |-> "open", gen |-> serve.gen, client |-> ParseClientApp(Opening[c]), accepted |-> 0]

\* The middleware lets the call through and the client has room for a subscription.
Subscribe(c, k, f) ==
    /\ Event
    /\ server = "up" /\ conns[c].status # "closed" /\ calls[c] = None
    /\ ~RejectClient(state, Opened(c).client)
    /\ WithinLimit(Opened(c))
    /\ conns' = [conns EXCEPT ![c] = Opened(c)]
    /\ calls' = [calls EXCEPT ![c] = [kind |-> k, filter |-> f]]
    /\ UNCHANGED <<serveVars, stateVars, subs, live, gauge, noteVars, cleaner>>

CountOf(registry, k, client) == Cardinality({s \in registry : s.kind = k /\ s.client = client})

\* sub_metrics: the clients that have a subscription of the kind.
Recount(registry, kinds, g) ==
    [x \in DOMAIN g |->
        IF x[1] \in kinds /\ CountOf(registry, x[1], x[2]) > 0 THEN CountOf(registry, x[1], x[2])
        ELSE g[x]]

SlotOf(s) == <<s.gen, s.kind, s.conn, s.filter>>

\* accept(), which needs the connection, then add_*_subscription: a subscription of the
\* same connection, kind and filter is replaced and its sink dropped.
Add(c) ==
    /\ Running /\ calls[c] # None
    /\ calls' = [calls EXCEPT ![c] = None]
    /\ IF conns[c].status = "open"
       THEN LET sub == [gen |-> conns[c].gen, kind |-> calls[c].kind, conn |-> c,
                        filter |-> calls[c].filter, client |-> conns[c].client,
                        sink |-> <<c, conns[c].accepted + 1>>]
                old == {s \in subs : SlotOf(s) = SlotOf(sub)}
            IN  /\ subs' = (subs \ old) \cup {sub}
                /\ live' = (live \ {s.sink : s \in old}) \cup {sub.sink}
                /\ conns' = [conns EXCEPT ![c].accepted = @ + 1]
                /\ gauge' = Recount({s \in subs' : s.gen = sub.gen}, {sub.kind}, gauge)
       ELSE UNCHANGED <<subs, live, conns, gauge>>
    /\ UNCHANGED <<serveVars, stateVars, noteVars, cleaner, events>>

(***************************************************************************)
(* Events and notifiers.                                                   *)
(***************************************************************************)
Matches(s, e) == s.kind = e.kind /\ (s.kind = "logs" => s.filter = e.filter)

\* A broadcast channel keeps Capacity events; a receiver that missed one has lagged.
Receive(q, e) ==
    IF Len(q.items) < Capacity THEN [q EXCEPT !.items = Append(@, e)]
    ELSE [items |-> Append(Tail(q.items), e), lagged |-> TRUE]

\* The miner sends: every notifier that runs has the event in its channel.
Publish(k, f) ==
    LET e == [kind |-> k, filter |-> f, number |-> events]
    IN  /\ Event
        /\ queue' = [g \in Gens |-> [queue[g] EXCEPT ![k] =
                        IF notifier[g][k] = "run" THEN Receive(@, e) ELSE @]]
        /\ owed' = owed \cup {<<s.sink, e>> : s \in {s \in subs :
                        /\ Matches(s, e) /\ s.sink \in live
                        /\ notifier[s.gen][k] = "run" /\ ~queue'[s.gen][k].lagged}}
        /\ UNCHANGED <<serveVars, stateVars, subVars, notifier, sending, got, cleaner>>

EmptyQueue == [items |-> <<>>, lagged |-> FALSE]

EndNotifier(g, k) ==
    /\ notifier' = [notifier EXCEPT ![g][k] = "ended"]
    /\ queue' = [queue EXCEPT ![g][k] = EmptyQueue]
    /\ UNCHANGED <<sending, got, owed>>

\* Mutant of Notify: the round is over after the first subscription that is there.
NotifyFirst(g, k) ==
    LET e == Head(queue[g][k].items)
        there == {s \in Registered(g) : Matches(s, e) /\ s.sink \in live}
    IN  /\ sending' = sending \cup {<<s.sink, e>> :
                        s \in {s \in there : s = CHOOSE first \in there : TRUE}}
        /\ queue' = [queue EXCEPT ![g][k].items = Tail(@)]
        /\ UNCHANGED <<notifier, got, owed>>

\* notify: a task of its own for every subscription that is still active.
Notify(g, k) ==
    LET e == Head(queue[g][k].items)
    IN  /\ sending' = sending \cup {<<s.sink, e>> :
                        s \in {s \in Registered(g) : Matches(s, e) /\ s.sink \in live}}
        /\ queue' = [queue EXCEPT ![g][k].items = Tail(@)]
        /\ UNCHANGED <<notifier, got, owed>>

\* The shutdown is looked at before every receive; a receiver that lagged gets an error,
\* which ends the notifier as a closed channel would.
NotifierStep(g, k) ==
    /\ Running
    /\ \/ notifier[g][k] = "aborting" /\ EndNotifier(g, k)
       \/ notifier[g][k] = "run" /\ state.shutdown /\ EndNotifier(g, k)
       \/ notifier[g][k] = "run" /\ queue[g][k].lagged /\ EndNotifier(g, k)
       \/ /\ notifier[g][k] = "run" /\ ~queue[g][k].lagged /\ queue[g][k].items # <<>>
          /\ Notify(g, k)
    /\ UNCHANGED <<serveVars, stateVars, subVars, cleaner, events>>

\* send_timeout in its own task, in any order: it arrives if the connection is there.
Deliver(m) ==
    /\ Running
    /\ sending' = sending \ {m}
    /\ got' = IF conns[m[1][1]].status = "open" THEN got \cup {m} ELSE got
    /\ UNCHANGED <<serveVars, stateVars, subVars, notifier, queue, owed, cleaner, events>>

\* The client does not read for ten seconds.
TimeOut(m) ==
    /\ Event
    /\ sending' = sending \ {m}
    /\ owed' = owed \ {m}
    /\ UNCHANGED <<serveVars, stateVars, subVars, notifier, queue, got, cleaner>>

(***************************************************************************)
(* The cleaners: one of each generation, to the end of the program.        *)
(***************************************************************************)
\* Closed subscriptions leave the registry.
Closed(g) == {s \in Registered(g) : s.sink \notin live}

Sweep(g) ==
    /\ subs' = subs \ Closed(g)
    /\ cleaner' = [cleaner EXCEPT ![g] =
                     [pc |-> "gauge", cleaned |-> {<<s.kind, s.client>> : s \in Closed(g)}]]
    /\ UNCHANGED <<conns, calls, live, gauge>>

\* Zero for what was cleaned, then the counts of this generation's registry.
UpdateGauge(g) ==
    LET zeroed == [x \in DOMAIN gauge |-> IF x \in cleaner[g].cleaned THEN 0 ELSE gauge[x]]
    IN  /\ gauge' = Recount(Registered(g), Kinds, zeroed)
        /\ cleaner' = [cleaner EXCEPT ![g] = [pc |-> "sweep", cleaned |-> {}]]
        /\ UNCHANGED <<conns, calls, subs, live>>

\* A round of the cleaner; one that finds nothing to remove only counts again.
CleanerStep(g) ==
    /\ Running
    /\ \/ cleaner[g].pc = "sweep" /\ ~state.shutdown /\ Closed(g) # {} /\ Sweep(g)
       \/ cleaner[g].pc = "sweep" /\ ~state.shutdown /\ Closed(g) = {} /\ UpdateGauge(g)
       \/ cleaner[g].pc = "gauge" /\ UpdateGauge(g)
    /\ UNCHANGED <<serveVars, stateVars, noteVars, events>>

(***************************************************************************)
(* Administrators' calls, alone or in a batch: one after the other, each   *)
(* through the middleware and the authentication of its own.               *)
(***************************************************************************)
StartBatch(b) ==
    /\ Event
    /\ server = "up" /\ batch = NoBatch
    /\ batch' = b
    /\ UNCHANGED <<serveVars, state, node, banned, subVars, noteVars, cleaner>>

Switched(op) ==
    CASE op.name = "restartOnUnhealthy" -> [state EXCEPT !.restart = op.on]
      [] op.name = "unknownClients" -> [state EXCEPT !.unknown = op.on]
      [] op.name = "blockClient" -> [state EXCEPT !.blocked = AddBlockedClient(@, op.client)]
      [] op.name = "unblockClient" -> [state EXCEPT !.blocked = RemoveBlockedClient(@, op.client)]
      [] op.name = "clearBlockedClients" -> [state EXCEPT !.blocked = {}]

Banned(op) ==
    CASE op.name = "blockClient" -> banned \cup {op.client}
      [] op.name = "unblockClient" -> {n \in banned : Parse(n) # Parse(op.client)}
      [] op.name = "clearBlockedClients" -> {}
      [] OTHER -> banned

Admitted(request) ==
    ~RejectClient(state, ParseClientApp(request)) /\ ParseAdminPassword(request)

Rest == IF Len(batch.rest) = 1 THEN NoBatch ELSE [batch EXCEPT !.rest = Tail(@)]

BatchEntry ==
    /\ Running /\ batch # NoBatch
    /\ IF Admitted(batch.request)
       THEN state' = Switched(Head(batch.rest)) /\ banned' = Banned(Head(batch.rest))
       ELSE UNCHANGED <<state, banned>>
    /\ batch' = Rest
    /\ UNCHANGED <<serveVars, node, subVars, noteVars, cleaner, events>>

\* The answers got too long, or the client went away: the entries left are not served.
BatchEnds ==
    /\ Event
    /\ batch # NoBatch
    /\ batch' = NoBatch
    /\ UNCHANGED <<serveVars, state, node, banned, subVars, noteVars, cleaner>>

(***************************************************************************)
(* The specification.                                                      *)
(***************************************************************************)
Clients == {ParseClientApp(Opening[c]) : c \in Conns}

Init ==
    /\ serve = [pc |-> "boot", gen |-> 0]
    /\ server = "down"
    /\ exporter = "running"
    /\ health = [value |-> FALSE, changed |-> FALSE]
    /\ worker = "none"
    /\ state = [shutdown |-> FALSE, restart |-> TRUE, unknown |-> TRUE, blocked |-> {}]
    /\ node \in Nodes
    /\ conns = [c \in Conns |-> [status |-> "new", gen |-> 0, client |-> Unknown, accepted |-> 0]]
    /\ calls = [c \in Conns |-> None]
    /\ subs = {} /\ live = {}
    /\ notifier = [g \in Gens |-> [k \in Kinds |-> "none"]]
    /\ queue = [g \in Gens |-> [k \in Kinds |-> EmptyQueue]]
    /\ sending = {} /\ got = {} /\ owed = {} /\ banned = {}
    /\ cleaner = [g \in Gens |-> [pc |-> "none", cleaned |-> {}]]
    /\ gauge = [x \in Kinds \X Clients |-> 0]
    /\ batch = NoBatch
    /\ events = 0

ServeStep ==
    Boot \/ Bind \/ StopServer \/ SelectStopped \/ SelectShutdown \/ SelectChange \/ Drain \/ Join
    \/ ShutdownExporter \/ ExporterEnds

WorkerStep == WorkerReads \/ WorkerSets \/ WorkerTicks

Environment ==
    \/ NodeChanges \/ Signal \/ ServerDies \/ BatchEnds
    \/ \E c \in Conns : Close(c)
    \/ \E sink \in live : Unsubscribe(sink)
    \/ \E c \in Conns, k \in Kinds : \E f \in FiltersOf(k) : Subscribe(c, k, f)
    \/ \E k \in Kinds : \E f \in FiltersOf(k) : Publish(k, f)
    \/ \E m \in sending : TimeOut(m)
    \/ \E b \in Batches : StartBatch(b)

System ==
    \/ ServeStep \/ WorkerStep
    \/ \E c \in Conns : Add(c)
    \/ \E g \in Gens, k \in Kinds : NotifierStep(g, k)
    \/ \E m \in sending : Deliver(m)
    \/ \E g \in Gens : CleanerStep(g)

Next == System \/ BatchEntry \/ Environment

\* Tokio runs the tasks that can go on, some one of them as long as there is one; a client
\* may leave its batch unfinished, and the environment owes nothing.
Fairness == WF_vars(System)

Spec == Init /\ [][Next]_vars /\ Fairness

(***************************************************************************)
(* Properties.                                                             *)
(***************************************************************************)

\* An event published while a subscription stands in the registry reaches its client: it
\* arrived, is on its way, or waits in the notifier's channel, unless the sink was closed,
\* the notification timed out or the notifier ended (notify and the notifiers' loops).
EventsAccounted ==
    \A m \in owed :
        \/ m \in got \cup sending
        \/ m[1] \notin live
        \/ \E s \in subs : /\ s.sink = m[1]
                           /\ \/ m[2] \in Range(queue[s.gen][s.kind].items)
                              \/ notifier[s.gen][s.kind] # "run"
                              \/ queue[s.gen][s.kind].lagged

\* A restart leaves nothing of the old server behind but its cleaner: no notifier, no open
\* sink of an earlier generation, when the next one starts; and serve returns only when
\* every task it waits for has ended (the join! of serve).
GenerationsApart ==
    /\ \A g \in Gens : g < serve.gen =>
          /\ Ended(g)
          /\ \A s \in subs : s.gen = g => s.sink \notin live
    /\ serve.pc = "done" =>
          worker = "done" /\ exporter = "gone" /\ Ended(serve.gen) /\ live = {}

Silent == {Parse(n) : n \in banned} \ {Unknown}

\* A client whose name was blocked, whatever its spelling, starts no subscription and
\* switches nothing, not even in the rest of the batch that blocked it; and only the
\* administrator switches (reject_client, auth_admin).
BlockedClientsSilent ==
    [][/\ \A c \in Conns : calls[c] = None /\ calls'[c] # None => conns'[c].client \notin Silent
       /\ [state' EXCEPT !.shutdown = FALSE] # [state EXCEPT !.shutdown = FALSE]
          => /\ ParseClientApp(batch.request) \notin Silent
             /\ ParseAdminPassword(batch.request)]_vars

\* A server that was started on a healthy node is restarted when the node becomes
\* unhealthy and stays so with restarts on (update_health, wait_for_change).
UnhealthyRestarts ==
    (serve.pc = "select" /\ health.value /\ ~Health(node))
        ~> (serve.pc # "select" \/ Health(node) \/ ~state.restart)

\* What the configuration calls the "max active subscriptions per client".
SubscriptionLimit ==
    \A c \in Conns : Cardinality({s \in Registered(serve.gen) : /\ s.client = conns[c].client
                                                                /\ s.sink \in live}) <= MaxSubscriptions
=============================================================================
