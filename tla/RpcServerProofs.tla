--------------------------- MODULE RpcServerProofs ---------------------------
(***************************************************************************)
(* Proofs about RpcServer, for any connections, kinds, filters, batches    *)
(* and bounds.                                                             *)
(***************************************************************************)
EXTENDS RpcServer, Integers, SequenceTheorems, TLAPS

(***************************************************************************)
(* The inductive invariant.                                                *)
(***************************************************************************)
Sinks == Conns \X Nat
Filters == UNION {FiltersOf(k) : k \in Kinds}
Published == [kind : Kinds, filter : Filters, number : Nat]

Phases == {"boot", "bind", "select", "drain", "join", "exporter", "done", "failed"}

ServeTypes ==
    /\ serve \in [pc : Phases, gen : Nat]
    /\ health \in [value : BOOLEAN, changed : BOOLEAN]
    /\ worker \in {"none", "read", "set", "done"}
    /\ events \in 0..MaxEvents

\* How often the server has been told to restart.
Restarts == IF serve.pc \in {"boot", "bind", "drain"} THEN serve.gen ELSE serve.gen - 1

\* The health that will be stored when the worker is through, and whether serve will then
\* find a change to unhealthy that it has not acted on.
Target == IF worker = "set" THEN ~health.value ELSE health.value
Pending == (health.changed /\ ~health.value) \/ (worker = "set" /\ health.value)

One(b) == IF b THEN 1 ELSE 0

\* A restart takes two events: the node became unhealthy after it had become healthy.
Spent == 2 * (Restarts + One(Pending)) + One(Target) + One(Health(node) # Target)

RestartsInv ==
    /\ serve.pc = "boot" => worker = "none" /\ serve.gen = 0 /\ ~health.value /\ ~health.changed
    /\ serve.pc \notin {"boot", "bind"} => serve.gen > 0
    /\ Spent <= events + 1

\* The notifiers of the generations up to this one have ended.
Quiet == IF serve.pc \in {"bind", "exporter", "done"} THEN serve.gen ELSE serve.gen - 1

NotifierTypes == notifier \in [Gens -> [Kinds -> {"none", "run", "aborting", "ended"}]]

ApartInv ==
    /\ server \in {"down", "up", "stopping", "stopped"}
    /\ serve.pc \in {"boot", "bind"} => server \in {"down", "stopped"}
    /\ serve.pc \in {"exporter", "done"} => server = "stopped" /\ worker = "done"
    /\ serve.pc = "done" => exporter = "gone"
    /\ \A g \in Gens : g <= Quiet => Ended(g)

ConnTypes ==
    /\ conns \in [Conns -> [status : {"new", "open", "closed"}, gen : Nat,
                            client : Clients \cup {Unknown}, accepted : Nat]]
    /\ DOMAIN calls = Conns
    /\ \A c \in Conns : calls[c] = None \/ (calls[c].kind \in Kinds /\ calls[c].filter \in Filters)

\* Open connections and open sinks are the running server's.
ConnInv ==
    /\ \A c \in Conns : conns[c].status = "open" =>
          conns[c].gen = serve.gen /\ server \in {"up", "stopping"}
    /\ \A c \in Conns : conns[c].status = "new" => conns[c].accepted = 0
    /\ \A x \in live : x \in Sinks /\ conns[x[1]].status = "open" /\ x[2] <= conns[x[1]].accepted
    /\ \A s \in subs : /\ s.kind \in Kinds /\ s.gen \in Gens
                       /\ s.sink \in Sinks /\ s.sink[2] <= conns[s.sink[1]].accepted
                       /\ conns[s.sink[1]].status # "new"
                       /\ s.gen = conns[s.sink[1]].gen

QueueTypes == queue \in [Gens -> [Kinds -> [items : Seq(Published), lagged : BOOLEAN]]]

\* The event waits in the channel of a notifier, or will never be received.
Waiting(q, n, e) == e \in Range(q.items) \/ n # "run" \/ q.lagged

EventsInv ==
    \A m \in owed :
        /\ m = <<m[1], m[2]>> /\ m[1] \in Sinks /\ m[1][2] <= conns[m[1][1]].accepted
        /\ \/ m \in got \cup sending
           \/ m[1] \notin live
           \/ \E s \in subs : /\ s.sink = m[1] /\ Matches(s, m[2])
                              /\ Waiting(queue[s.gen][s.kind], notifier[s.gen][s.kind], m[2])

Switches == UNION {Range(b.rest) : b \in Batches}

\* What was blocked and not unblocked is refused.
BlockedInv ==
    /\ DOMAIN state = {"shutdown", "restart", "unknown", "blocked"}
    /\ DOMAIN batch = {"request", "rest"}
    /\ batch = NoBatch \/ (batch.rest \in Seq(Switches) /\ batch.rest # <<>>)
    /\ Silent \subseteq state.blocked

(***************************************************************************)
(* A restart takes two events.                                             *)
(***************************************************************************)
CountInv == ServeTypes /\ RestartsInv

\* The bounds.
LEMMA Bounds ==
    MaxGen \in Nat /\ MaxEvents \in Nat /\ Capacity \in Nat \ {0} /\ 2 * MaxGen > MaxEvents + 1
BY RpcServerAssumption, Zenon

\* What restarts cost is a number.
LEMMA SpentType == ServeTypes => Spent \in Int /\ Restarts \in Int
<1> SUFFICES ASSUME ServeTypes PROVE Spent \in Int /\ Restarts \in Int
  BY Zenon
<1>1. Restarts \in Int
  BY DEF Restarts, ServeTypes
<1>2. One(Pending) \in Int /\ One(Target) \in Int /\ One(Health(node) # Target) \in Int
  BY DEF One
<1> QED BY <1>1, <1>2 DEF Spent

\* Something outside happens, or not.
Counted == events' = events \/ (events < MaxEvents /\ events' = events + 1)

\* A step that costs as many events as happen.
LEMMA CountBy ==
    ASSUME CountInv, Counted, Spent' = Spent, serve' \in [pc : Phases, gen : Nat],
           health' \in [value : BOOLEAN, changed : BOOLEAN], worker' \in {"none", "read", "set", "done"},
           \/ UNCHANGED <<serve, health, worker>>
           \/ serve'.pc # "boot" /\ (serve'.pc # "bind" => serve'.gen > 0)
    PROVE  CountInv'
<1>1. Spent <= events + 1 /\ Spent \in Int /\ events \in 0..MaxEvents
  BY SpentType, Zenon DEF CountInv, RestartsInv, ServeTypes
<1>2. events' \in 0..MaxEvents /\ Spent' <= events' + 1
  BY <1>1, Bounds DEF Counted
<1>3. /\ serve'.pc = "boot" => worker' = "none" /\ serve'.gen = 0 /\ ~health'.value /\ ~health'.changed
      /\ serve'.pc \notin {"boot", "bind"} => serve'.gen > 0
  BY Zenon DEF CountInv, RestartsInv
<1> QED BY <1>2, <1>3, Zenon DEF CountInv, ServeTypes, RestartsInv

\* Steps of serve that tell nothing to restart.
LEMMA CountServe ==
    ASSUME CountInv, Counted, UNCHANGED <<health, worker, node>>, Restarts' = Restarts,
           serve' \in [pc : Phases, gen : Nat],
           serve' = serve \/ (serve'.pc # "boot" /\ (serve'.pc # "bind" => serve'.gen > 0))
    PROVE  CountInv'
<1>1. Spent' = Spent
  BY Zenon DEF Spent, One, Target, Pending, Health
<1>2. health' \in [value : BOOLEAN, changed : BOOLEAN] /\ worker' \in {"none", "read", "set", "done"}
  BY Zenon DEF CountInv, ServeTypes
<1> QED BY <1>1, <1>2, CountBy, Zenon

\* No step restarts the server more often than the node's changes pay for.
LEMMA CountStep == CountInv /\ [Next]_vars => CountInv'
<1> SUFFICES ASSUME CountInv, [Next]_vars PROVE CountInv'
  BY Zenon
<1>1. /\ serve \in [pc : Phases, gen : Nat] /\ serve.pc \in Phases /\ serve.gen \in Nat
      /\ serve = [pc |-> serve.pc, gen |-> serve.gen]
  BY Zenon DEF CountInv, ServeTypes
<1>2. /\ health.value \in BOOLEAN /\ health.changed \in BOOLEAN
      /\ health = [value |-> health.value, changed |-> health.changed]
  BY Zenon DEF CountInv, ServeTypes
<1>3. Restarts \in Int /\ Spent \in Int /\ Spent <= events + 1
  BY SpentType, Zenon DEF CountInv, RestartsInv
<1>4. CASE Boot
  <2>1. /\ serve.pc = "boot" /\ serve' = [serve EXCEPT !.pc = "bind"] /\ worker' = "read"
        /\ health' = [value |-> Health(node), changed |-> FALSE] /\ node' = node /\ events' = events
    BY <1>4, Zenon DEF Boot, stateVars
  <2>2. serve.gen = 0 /\ events \in 0..MaxEvents
    BY <2>1, Zenon DEF CountInv, RestartsInv, ServeTypes
  <2>3. serve' = [pc |-> "bind", gen |-> 0]
    BY <1>1, <2>1, <2>2, Zenon
  <2>4. health'.value = Health(node) /\ health'.changed = FALSE
    BY <2>1, Zenon
  <2>5. Restarts' = 0 /\ One(Pending)' = 0 /\ One(Target)' \in {0, 1} /\ One(Health(node) # Target)' = 0
    <3>1. Restarts' = 0
      BY <2>3, Zenon DEF Restarts
    <3>2. ~Pending' /\ (Health(node') = Target')
      BY <2>1, <2>4, Zenon DEF Pending, Target, Health
    <3> QED BY <3>1, <3>2, Zenon DEF One
  <2>6. Spent' <= events' + 1
    BY <2>1, <2>2, <2>5, Bounds DEF Spent
  <2>7. health' \in [value : BOOLEAN, changed : BOOLEAN]
    BY <2>1, Zenon DEF Health
  <2>8. serve' \in [pc : Phases, gen : Nat] /\ serve'.pc = "bind"
    BY <2>3, Zenon DEF Phases
  <2> QED BY <2>1, <2>2, <2>6, <2>7, <2>8, Zenon DEF CountInv, ServeTypes, RestartsInv
<1>5. CASE Bind
  <2>1. /\ serve.pc = "bind" /\ UNCHANGED <<health, worker, node>> /\ Counted
        /\ serve' = [pc |-> "select", gen |-> serve.gen + 1] \/ serve' = [pc |-> "failed", gen |-> serve.gen + 1]
    BY <1>5, Zenon DEF Bind, Event, stateVars, Counted
  <2>2. Restarts' = Restarts /\ serve' \in [pc : Phases, gen : Nat] /\ serve'.gen > 0 /\ serve'.pc # "boot"
    BY <1>1, <2>1 DEF Restarts, Phases
  <2> QED BY <2>1, <2>2, CountServe, Zenon
<1>6. CASE SelectStopped \/ SelectShutdown \/ Drain \/ Join \/ ShutdownExporter
  <2>1. /\ UNCHANGED <<health, worker, node, events>>
        /\ \/ serve' = serve
           \/ serve.pc = "select" /\ serve' = [serve EXCEPT !.pc = "join"]
           \/ serve.pc = "drain" /\ serve' = [serve EXCEPT !.pc = "bind"]
           \/ serve.pc = "join" /\ serve' = [serve EXCEPT !.pc = "exporter"]
           \/ serve.pc = "exporter" /\ serve' = [serve EXCEPT !.pc = "done"]
    BY <1>6, Zenon DEF SelectStopped, SelectShutdown, Drain, Join, ShutdownExporter, stateVars
  <2>2. serve.pc \notin {"boot", "bind"} => serve.gen > 0
    BY Zenon DEF CountInv, RestartsInv
  <2>3. /\ Restarts' = Restarts /\ serve' \in [pc : Phases, gen : Nat]
        /\ serve' = serve \/ (serve'.pc # "boot" /\ (serve'.pc # "bind" => serve'.gen > 0))
    BY <1>1, <2>1, <2>2, Zenon DEF Restarts, Phases
  <2> QED BY <2>1, <2>3, CountServe, Zenon DEF Counted
<1>7. CASE SelectChange
  <2>1. /\ serve.pc = "select" /\ health.changed /\ health' = [health EXCEPT !.changed = FALSE]
        /\ UNCHANGED <<worker, node, events>>
        /\ \/ ~health.value /\ serve' = [serve EXCEPT !.pc = "drain"]
           \/ serve' = serve
    BY <1>7, Zenon DEF SelectChange, stateVars
  <2>2. health'.value = health.value /\ ~health'.changed /\ health' \in [value : BOOLEAN, changed : BOOLEAN]
    BY <1>2, <2>1, Zenon
  <2>3. Target' = Target /\ Health(node') = Health(node)
    BY <2>1, <2>2, Zenon DEF Target
  <2>4. One(Target)' = One(Target) /\ One(Health(node) # Target)' = One(Health(node) # Target)
    BY <2>3, Zenon DEF One
  <2>5. One(Target) \in {0, 1} /\ One(Health(node) # Target) \in {0, 1} /\ One(Pending) \in {0, 1}
        /\ One(Pending)' \in {0, 1}
    BY Zenon DEF One
  <2>6. \/ One(Pending)' <= One(Pending) /\ Restarts' = Restarts
        \/ One(Pending) = 1 /\ One(Pending)' = 0 /\ Restarts' = Restarts + 1
    <3>1. CASE ~health.value /\ serve' = [serve EXCEPT !.pc = "drain"]
      <4>1. Pending /\ ~Pending'
        BY <2>1, <2>2, <3>1, Zenon DEF Pending
      <4>2. One(Pending) = 1 /\ One(Pending)' = 0
        BY <4>1, Zenon DEF One
      <4>3. Restarts' = Restarts + 1
        BY <1>1, <2>1, <3>1 DEF Restarts
      <4> QED BY <4>2, <4>3, Zenon
    <3>2. CASE serve' = serve
      <4>1. Pending' => Pending
        BY <2>1, <2>2, Zenon DEF Pending
      <4>2. One(Pending)' <= One(Pending)
        <5>1. (One(Pending) = 1 /\ One(Pending)' \in {0, 1}) \/ (One(Pending)' = 0 /\ One(Pending) \in {0, 1})
          BY <4>1, Zenon DEF One
        <5> QED BY <5>1
      <4>3. Restarts' = Restarts
        BY <3>2, Zenon DEF Restarts
      <4> QED BY <4>2, <4>3, Zenon
    <3> QED BY <2>1, <3>1, <3>2, Zenon
  <2>7. Spent' <= Spent
    BY <1>3, <2>4, <2>5, <2>6 DEF Spent
  <2>8. Spent' <= events' + 1 /\ events' \in 0..MaxEvents
    <3>1. Spent' \in Int /\ events \in 0..MaxEvents
      BY <1>3, <2>4, <2>5, <2>6 DEF Spent, CountInv, ServeTypes
    <3> QED BY <1>3, <2>1, <2>7, <3>1, Bounds
  <2>9. serve' \in [pc : Phases, gen : Nat] /\ serve'.pc \notin {"boot", "bind"} /\ serve'.gen = serve.gen
    BY <1>1, <2>1, Zenon DEF Phases
  <2>10. serve.gen > 0 /\ worker' \in {"none", "read", "set", "done"}
    BY <2>1, Zenon DEF CountInv, RestartsInv, ServeTypes
  <2> QED BY <2>2, <2>8, <2>9, <2>10, Zenon DEF CountInv, ServeTypes, RestartsInv
<1>8. CASE WorkerReads
  <2>1. /\ worker = "read" /\ worker' = "set" /\ Health(node) # health.value
        /\ UNCHANGED <<serve, health, node, events>>
    BY <1>8, Zenon DEF WorkerReads, stateVars
  <2>2. Health(node) \in BOOLEAN
    BY Zenon DEF Health
  <2>3. Restarts' = Restarts
    BY <2>1, Zenon DEF Restarts
  <2>4. ASSUME health.value PROVE Spent' = Spent
    <3>1. /\ Target /\ ~Pending /\ (Health(node) # Target)
          /\ ~Target' /\ Pending' /\ ~(Health(node') # Target')
      BY <1>2, <2>1, <2>2, <2>4, Zenon DEF Target, Pending
    <3>2. /\ One(Target) = 1 /\ One(Pending) = 0 /\ One(Health(node) # Target) = 1
          /\ One(Target)' = 0 /\ One(Pending)' = 1 /\ One(Health(node) # Target)' = 0
      BY <3>1, Zenon DEF One
    <3> QED BY <1>3, <2>3, <3>2 DEF Spent
  <2>5. ASSUME ~health.value PROVE Spent' = Spent
    <3>1. /\ ~Target /\ (Health(node) # Target) /\ Target' /\ ~(Health(node') # Target')
          /\ Pending' <=> Pending
      BY <1>2, <2>1, <2>2, <2>5, Zenon DEF Target, Pending
    <3>2. /\ One(Target) = 0 /\ One(Health(node) # Target) = 1 /\ One(Pending)' = One(Pending)
          /\ One(Target)' = 1 /\ One(Health(node) # Target)' = 0
          /\ One(Pending) \in {0, 1}
      BY <3>1, Zenon DEF One
    <3> QED BY <1>3, <2>3, <3>2 DEF Spent
  <2>6. Spent' = Spent
    BY <2>4, <2>5, Zenon
  <2>7. serve.pc # "boot"
    BY <2>1, Zenon DEF CountInv, RestartsInv
  <2> QED BY <2>1, <2>6, <2>7, CountBy, Zenon DEF Counted, CountInv, ServeTypes, RestartsInv
<1>9. CASE WorkerSets
  <2>1. /\ worker = "set" /\ worker' = "read" /\ UNCHANGED <<serve, node, events>>
        /\ health' = [value |-> ~health.value, changed |-> health.changed \/ ~health.value # health.value]
    BY <1>9, Zenon DEF WorkerSets, SetHealth, stateVars
  <2>2. /\ health' \in [value : BOOLEAN, changed : BOOLEAN]
        /\ health'.value = ~health.value /\ health'.changed
    BY <1>2, <2>1, Zenon
  <2>3. Target' = Target /\ Health(node') = Health(node) /\ Restarts' = Restarts
    BY <2>1, <2>2, Zenon DEF Target, Restarts
  <2>4. Pending' => Pending
    BY <1>2, <2>1, <2>2, Zenon DEF Pending
  <2>5. /\ One(Target)' = One(Target) /\ One(Health(node) # Target)' = One(Health(node) # Target)
        /\ One(Target) \in {0, 1} /\ One(Health(node) # Target) \in {0, 1}
        /\ (One(Pending) = 1 /\ One(Pending)' \in {0, 1}) \/ (One(Pending)' = 0 /\ One(Pending) \in {0, 1})
    BY <2>3, <2>4, Zenon DEF One
  <2>6. Spent' <= Spent /\ Spent' \in Int
    BY <1>3, <2>3, <2>5 DEF Spent
  <2>7. events' \in 0..MaxEvents /\ Spent' <= events' + 1
    BY <1>3, <2>1, <2>6, Bounds DEF CountInv, ServeTypes
  <2>8. serve.pc # "boot"
    BY <2>1, Zenon DEF CountInv, RestartsInv
  <2> QED BY <2>1, <2>2, <2>7, <2>8, Zenon DEF CountInv, ServeTypes, RestartsInv
<1>10. CASE WorkerTicks
  <2>1. worker = "read" /\ worker' = "done" /\ UNCHANGED <<serve, health, node, events>>
    BY <1>10, Zenon DEF WorkerTicks, stateVars
  <2>2. Target' = Target /\ Pending' = Pending
    BY <2>1, Zenon DEF Target, Pending
  <2>3. Spent' = Spent
    BY <2>1, <2>2, Zenon DEF Spent, One, Restarts, Health
  <2>4. serve.pc # "boot"
    BY <2>1, Zenon DEF CountInv, RestartsInv
  <2> QED BY <2>1, <2>3, <2>4, CountBy, Zenon DEF Counted, CountInv, ServeTypes, RestartsInv
<1>11. CASE NodeChanges
  <2>1. events < MaxEvents /\ events' = events + 1 /\ UNCHANGED <<serve, health, worker>>
    BY <1>11, Zenon DEF NodeChanges, Event, serveVars
  <2>2. Restarts' = Restarts /\ Target' = Target /\ Pending' = Pending
    BY <2>1, Zenon DEF Restarts, Target, Pending
  <2>3. /\ One(Target)' = One(Target) /\ One(Pending)' = One(Pending)
        /\ One(Health(node) # Target) \in {0, 1} /\ One(Health(node) # Target)' \in {0, 1}
        /\ One(Target) \in {0, 1} /\ One(Pending) \in {0, 1}
    BY <2>2, Zenon DEF One
  <2>4. Spent' <= Spent + 1 /\ Spent' \in Int
    BY <1>3, <2>2, <2>3 DEF Spent
  <2>5. events \in 0..MaxEvents
    BY Zenon DEF CountInv, ServeTypes
  <2>6. events' \in 0..MaxEvents /\ Spent' <= events' + 1
    BY <1>3, <2>1, <2>4, <2>5, Bounds
  <2> QED BY <2>1, <2>6, Zenon DEF CountInv, ServeTypes, RestartsInv
<1>12. CASE \/ StopServer \/ ExporterEnds \/ Signal \/ ServerDies \/ BatchEnds \/ BatchEntry \/ UNCHANGED vars
            \/ \E c \in Conns : Close(c)
            \/ \E sink \in live : Unsubscribe(sink)
            \/ \E c \in Conns, k \in Kinds : \E f \in FiltersOf(k) : Subscribe(c, k, f)
            \/ \E k \in Kinds : \E f \in FiltersOf(k) : Publish(k, f)
            \/ \E m \in sending : TimeOut(m)
            \/ \E b \in Batches : StartBatch(b)
            \/ \E c \in Conns : Add(c)
            \/ \E g \in Gens, k \in Kinds : NotifierStep(g, k)
            \/ \E m \in sending : Deliver(m)
            \/ \E g \in Gens : CleanerStep(g)
  <2>1. UNCHANGED <<serve, health, worker, node>> /\ Counted
    BY <1>12, Zenon DEF StopServer, ExporterEnds, Signal, ServerDies, BatchEnds, BatchEntry, Close,
       Unsubscribe, Subscribe, Publish, TimeOut, StartBatch, Add, NotifierStep, Deliver, CleanerStep,
       Event, Counted, serveVars, stateVars, vars
  <2> QED BY <1>1, <2>1, CountServe, Zenon DEF Restarts
<1> QED
  BY <1>4, <1>5, <1>6, <1>7, <1>8, <1>9, <1>10, <1>11, <1>12, Zenon
  DEF Next, System, Environment, ServeStep, WorkerStep

\* The server is started at most MaxGen times.
LEMMA Started == CountInv => serve.gen \in 0..MaxGen /\ (serve.pc = "bind" => serve.gen + 1 \in Gens)
<1> SUFFICES ASSUME CountInv
             PROVE  serve.gen \in 0..MaxGen /\ (serve.pc = "bind" => serve.gen + 1 \in Gens)
  BY Zenon
<1>1. serve.gen \in Nat /\ Restarts \in Int /\ events \in 0..MaxEvents /\ Spent <= events + 1
  BY SpentType, Zenon DEF CountInv, RestartsInv, ServeTypes
<1>2. One(Pending) \in {0, 1} /\ One(Target) \in {0, 1} /\ One(Health(node) # Target) \in {0, 1}
  BY Zenon DEF One
<1>3. 2 * Restarts <= MaxEvents + 1
  BY <1>1, <1>2, Bounds DEF Spent
<1>4. Restarts < MaxGen
  BY <1>1, <1>3, Bounds
<1> QED BY <1>1, <1>4, Bounds DEF Restarts, Gens

(***************************************************************************)
(* Generations.                                                            *)
(***************************************************************************)
\* Notifiers that ended stay ended unless they are those of a server that starts.
LEMMA EndedStays ==
    ASSUME NotifierTypes, NEW g \in Gens, Ended(g), NEW h \in Gens, NEW f,
           notifier' = notifier \/ (h # g /\ notifier' = [notifier EXCEPT ![h] = f])
    PROVE  Ended(g)'
BY Zenon DEF NotifierTypes, Ended

\* The order in which serve waits for what it started.
LEMMA ApartStep ==
    CountInv /\ NotifierTypes /\ ApartInv /\ [Next]_vars => NotifierTypes' /\ ApartInv'
<1> SUFFICES ASSUME CountInv, NotifierTypes, ApartInv, [Next]_vars PROVE NotifierTypes' /\ ApartInv'
  BY Zenon
<1>1. /\ serve.pc \in Phases /\ serve.gen \in 0..MaxGen /\ serve = [pc |-> serve.pc, gen |-> serve.gen]
      /\ serve.pc = "bind" => serve.gen + 1 \in Gens
      /\ serve.pc = "boot" => serve.gen = 0
      /\ serve.pc \notin {"boot", "bind"} => serve.gen > 0
  BY Started, Zenon DEF CountInv, ServeTypes, RestartsInv
<1>2. MaxGen \in Nat /\ Quiet \in Int
  BY <1>1, Bounds DEF Quiet
<1>3. ASSUME UNCHANGED <<serve, notifier>>, server' \in {"down", "up", "stopping", "stopped"},
             serve.pc \in {"boot", "bind"} => server' \in {"down", "stopped"},
             serve.pc \in {"exporter", "done"} => server' = "stopped" /\ worker' = "done",
             serve.pc = "done" => exporter' = "gone"
      PROVE  NotifierTypes' /\ ApartInv'
  BY <1>3, Zenon DEF NotifierTypes, ApartInv, Quiet, Ended
<1>4. ASSUME UNCHANGED <<serve, server, exporter, worker, notifier>> PROVE NotifierTypes' /\ ApartInv'
  BY <1>4, Zenon DEF NotifierTypes, ApartInv, Quiet, Ended
<1>5. CASE Boot
  <2>1. /\ serve.pc = "boot" /\ serve' = [serve EXCEPT !.pc = "bind"] /\ UNCHANGED <<server, notifier>>
    BY <1>5, Zenon DEF Boot, noteVars
  <2>2. serve'.pc = "bind" /\ serve'.gen = 0
    BY <1>1, <2>1, Zenon
  <2>3. Quiet' = 0
    BY <2>2, Zenon DEF Quiet
  <2>4. \A g \in Gens : ~(g <= Quiet')
    BY <1>2, <2>3 DEF Gens
  <2> QED BY <2>1, <2>2, <2>4, Zenon DEF NotifierTypes, ApartInv
<1>6. CASE Bind
  <2>1. /\ serve.pc = "bind"
        /\ notifier' = [notifier EXCEPT ![serve.gen + 1] = [k \in Kinds |-> "run"]]
        /\ server' \in {"up", server}
        /\ serve' = [pc |-> "select", gen |-> serve.gen + 1] \/ serve' = [pc |-> "failed", gen |-> serve.gen + 1]
    BY <1>6, Zenon DEF Bind, Spawn
  <2>2. NotifierTypes'
    BY <1>1, <2>1, Zenon DEF NotifierTypes
  <2>3. serve'.pc \in {"select", "failed"} /\ Quiet' = serve.gen
    BY <1>1, <2>1 DEF Quiet
  <2>4. \A g \in Gens : g <= serve.gen => g # serve.gen + 1 /\ Ended(g)
    <3>1. Quiet = serve.gen
      BY <2>1, Zenon DEF Quiet
    <3> QED BY <1>1, <3>1, Bounds DEF ApartInv, Gens
  <2>5. \A g \in Gens : g <= Quiet' => Ended(g)'
    BY <1>1, <2>1, <2>3, <2>4, EndedStays, Zenon
  <2> QED BY <2>1, <2>2, <2>3, <2>5, Zenon DEF ApartInv
<1>7. CASE SelectStopped \/ SelectShutdown
  <2>1. /\ serve.pc = "select" /\ serve' = [serve EXCEPT !.pc = "join"] /\ UNCHANGED notifier
        /\ server' \in {server, "stopping"}
    BY <1>7, Zenon DEF SelectStopped, SelectShutdown, Stop, noteVars
  <2>2. serve'.pc = "join" /\ Quiet' = Quiet
    BY <1>1, <2>1, Zenon DEF Quiet
  <2> QED BY <2>1, <2>2, Zenon DEF NotifierTypes, ApartInv, Ended
<1>8. CASE SelectChange
  <2>1. /\ serve.pc = "select"
        /\ \/ /\ serve' = [serve EXCEPT !.pc = "drain"] /\ server' \in {server, "stopping"}
              /\ notifier' = [notifier EXCEPT ![serve.gen] =
                                [k \in Kinds |-> IF @[k] = "run" THEN "aborting" ELSE @[k]]]
           \/ UNCHANGED <<serve, server, notifier>>
        /\ UNCHANGED <<exporter, worker>>
    BY <1>8, Zenon DEF SelectChange, Stop
  <2>2. CASE UNCHANGED <<serve, server, notifier>>
    BY <1>4, <2>1, <2>2, Zenon
  <2>3. CASE /\ serve' = [serve EXCEPT !.pc = "drain"] /\ server' \in {server, "stopping"}
             /\ notifier' = [notifier EXCEPT ![serve.gen] =
                               [k \in Kinds |-> IF @[k] = "run" THEN "aborting" ELSE @[k]]]
    <3>1. serve.gen \in Gens
      BY <1>1, <2>1, Bounds DEF Gens
    <3>2. NotifierTypes'
      BY <2>3, <3>1, Zenon DEF NotifierTypes
    <3>3. serve'.pc = "drain" /\ Quiet' = Quiet /\ Quiet = serve.gen - 1
      BY <1>1, <2>1, <2>3, Zenon DEF Quiet
    <3>4. \A g \in Gens : g <= Quiet => g # serve.gen /\ Ended(g)
      BY <1>1, <3>3, Bounds DEF ApartInv, Gens
    <3>5. \A g \in Gens : g <= Quiet' => Ended(g)'
      BY <2>3, <3>1, <3>3, <3>4, EndedStays, Zenon
    <3> QED BY <2>3, <3>2, <3>3, <3>5, Zenon DEF ApartInv
  <2> QED BY <2>1, <2>2, <2>3, Zenon
<1>9. CASE Drain \/ Join
  <2>1. /\ serve.pc \in {"drain", "join"} /\ server = "stopped" /\ UNCHANGED <<server, notifier>>
        /\ Ended(serve.gen)
        /\ \/ serve' = [serve EXCEPT !.pc = "bind"]
           \/ serve' = [serve EXCEPT !.pc = "exporter"] /\ worker' = "done"
    BY <1>9, Zenon DEF Drain, Join, noteVars
  <2>2. serve'.pc \in {"bind", "exporter"} /\ Quiet' = serve.gen /\ (serve'.pc = "exporter" => worker' = "done")
    BY <1>1, <2>1, Zenon DEF Quiet
  <2>3. Quiet = serve.gen - 1
    BY <2>1, Zenon DEF Quiet
  <2>4. \A g \in Gens : g <= serve.gen => Ended(g)
    <3> SUFFICES ASSUME NEW g \in Gens, g <= serve.gen PROVE Ended(g)
      BY Zenon
    <3>1. g = serve.gen \/ g <= Quiet
      BY <1>1, <1>2, <2>3, Bounds DEF Gens
    <3> QED BY <2>1, <3>1, Zenon DEF ApartInv
  <2>5. \A g \in Gens : Ended(g)' <=> Ended(g)
    BY <2>1, Zenon DEF Ended
  <2> QED BY <2>1, <2>2, <2>4, <2>5, Zenon DEF NotifierTypes, ApartInv
<1>10. CASE ShutdownExporter
  <2>1. /\ serve.pc = "exporter" /\ UNCHANGED <<server, worker, notifier>>
        /\ serve' = serve \/ (serve' = [serve EXCEPT !.pc = "done"] /\ exporter' = "gone")
    BY <1>10, Zenon DEF ShutdownExporter, noteVars
  <2>2. serve'.pc \in {"exporter", "done"} /\ Quiet' = Quiet /\ (serve'.pc = "done" => exporter' = "gone")
    BY <1>1, <2>1, Zenon DEF Quiet
  <2>3. \A g \in Gens : Ended(g)' <=> Ended(g)
    BY <2>1, Zenon DEF Ended
  <2> QED BY <2>1, <2>2, <2>3, Zenon DEF NotifierTypes, ApartInv
<1>11. CASE StopServer \/ ServerDies \/ ExporterEnds \/ WorkerStep
  <2>1. /\ UNCHANGED <<serve, notifier>>
        /\ \/ server' = "stopped" /\ UNCHANGED <<exporter, worker>>
           \/ server = "up" /\ server' = "stopping" /\ UNCHANGED <<exporter, worker>>
           \/ exporter' = "gone" /\ UNCHANGED <<server, worker>>
           \/ UNCHANGED <<server, exporter>> /\ (worker # "done" \/ worker' = "done")
    BY <1>11, Zenon DEF StopServer, ServerDies, ExporterEnds, WorkerStep, WorkerReads, WorkerSets,
       WorkerTicks, noteVars
  <2> QED BY <1>3, <2>1, Zenon DEF ApartInv
<1>12. ASSUME NEW g \in Gens, NEW k \in Kinds, NotifierStep(g, k) PROVE NotifierTypes' /\ ApartInv'
  <2>1. /\ UNCHANGED <<serve, server, exporter, worker>>
        /\ notifier' = notifier \/ notifier' = [notifier EXCEPT ![g][k] = "ended"]
    BY <1>12, Zenon DEF NotifierStep, EndNotifier, Notify, serveVars
  <2>2. NotifierTypes' /\ \A h \in Gens : Ended(h) => Ended(h)'
    BY <2>1 DEF NotifierTypes, Ended
  <2>3. Quiet' = Quiet
    BY <2>1, Zenon DEF Quiet
  <2> QED BY <2>1, <2>2, <2>3, Zenon DEF ApartInv
<1>13. CASE \/ NodeChanges \/ Signal \/ BatchEnds \/ BatchEntry \/ UNCHANGED vars
            \/ \E c \in Conns : Close(c)
            \/ \E sink \in live : Unsubscribe(sink)
            \/ \E c \in Conns, k \in Kinds : \E f \in FiltersOf(k) : Subscribe(c, k, f)
            \/ \E k \in Kinds : \E f \in FiltersOf(k) : Publish(k, f)
            \/ \E m \in sending : TimeOut(m)
            \/ \E b \in Batches : StartBatch(b)
            \/ \E c \in Conns : Add(c)
            \/ \E m \in sending : Deliver(m)
            \/ \E g \in Gens : CleanerStep(g)
  <2>1. UNCHANGED <<serve, server, exporter, worker, notifier>>
    BY <1>13, Zenon DEF NodeChanges, Signal, BatchEnds, BatchEntry, Close, Unsubscribe, Subscribe,
       Publish, TimeOut, StartBatch, Add, Deliver, CleanerStep, serveVars, noteVars, vars
  <2> QED BY <1>4, <2>1, Zenon
<1> QED
  BY <1>5, <1>6, <1>7, <1>8, <1>9, <1>10, <1>11, <1>12, <1>13, Zenon
  DEF Next, System, Environment, ServeStep

(***************************************************************************)
(* Connections, subscriptions and sinks.                                   *)
(***************************************************************************)
\* What ConnInv says of an open sink and of a subscription.
OpenSink(x, cs) == x \in Sinks /\ cs[x[1]].status = "open" /\ x[2] <= cs[x[1]].accepted

KnownSub(s, cs) ==
    /\ s.kind \in Kinds /\ s.gen \in Gens
    /\ s.sink \in Sinks /\ s.sink[2] <= cs[s.sink[1]].accepted
    /\ cs[s.sink[1]].status # "new"
    /\ s.gen = cs[s.sink[1]].gen

\* A step that leaves the connections alone, or only ends some.
LEMMA ConnsEnd ==
    ASSUME ConnTypes, ConnInv, calls' = calls, serve'.gen = serve.gen,
           subs' \subseteq subs, live' \subseteq live,
           conns' = conns, server' = server \/ (server \in {"up", "stopping"} => server' \in {"up", "stopping"})
    PROVE  ConnTypes' /\ ConnInv'
BY Zenon DEF ConnTypes, ConnInv

\* Connections, sinks and registry entries belong to the generation that opened them.
LEMMA ConnStep ==
    CountInv /\ ApartInv /\ ConnTypes /\ ConnInv /\ [Next]_vars => ConnTypes' /\ ConnInv'
<1> SUFFICES ASSUME CountInv, ApartInv, ConnTypes, ConnInv, [Next]_vars PROVE ConnTypes' /\ ConnInv'
  BY Zenon
<1>1. /\ serve.pc \in Phases /\ serve.gen \in 0..MaxGen /\ serve = [pc |-> serve.pc, gen |-> serve.gen]
      /\ serve.pc \notin {"boot", "bind"} => serve.gen \in Gens
  BY Started, Bounds DEF CountInv, ServeTypes, RestartsInv, Gens
<1>2. CASE Bind
  <2>1. serve.pc = "bind" /\ UNCHANGED <<conns, calls, subs, live>>
    BY <1>2, Zenon DEF Bind, subVars
  <2>2. \A c \in Conns : conns[c].status # "open"
    BY <2>1, Zenon DEF ApartInv, ConnInv
  <2> QED BY <2>1, <2>2, Zenon DEF ConnTypes, ConnInv
<1>3. CASE StopServer
  <2>1. /\ conns' = [c \in Conns |-> IF conns[c].status = "open"
                                     THEN [conns[c] EXCEPT !.status = "closed"] ELSE conns[c]]
        /\ live' = {} /\ UNCHANGED <<serve, calls, subs>>
    BY <1>3, Zenon DEF StopServer
  <2>2. \A c \in Conns : /\ conns'[c] \in [status : {"new", "open", "closed"}, gen : Nat,
                                            client : Clients \cup {Unknown}, accepted : Nat]
                         /\ conns'[c].status # "open"
                         /\ conns'[c].status = "new" <=> conns[c].status = "new"
                         /\ conns'[c].gen = conns[c].gen /\ conns'[c].accepted = conns[c].accepted
    BY <2>1, Zenon DEF ConnTypes
  <2>3. ConnTypes'
    BY <2>1, <2>2, Zenon DEF ConnTypes
  <2>4. \A s \in subs : KnownSub(s, conns')
    <3>1. \A s \in subs : s.sink[1] \in Conns /\ KnownSub(s, conns)
      BY Zenon DEF ConnInv, KnownSub, Sinks
    <3> QED BY <2>2, <3>1, Zenon DEF KnownSub
  <2> QED BY <2>1, <2>2, <2>3, <2>4, Zenon DEF ConnInv, KnownSub
<1>4. ASSUME NEW c \in Conns, Close(c) PROVE ConnTypes' /\ ConnInv'
  <2>1. /\ conns[c].status = "open" /\ conns' = [conns EXCEPT ![c].status = "closed"]
        /\ live' = {s \in live : s[1] # c} /\ UNCHANGED <<serve, server, calls, subs>>
    BY <1>4, Zenon DEF Close, serveVars
  <2>2. /\ \A d \in Conns : d # c => conns'[d] = conns[d]
        /\ conns'[c].status = "closed" /\ conns'[c].gen = conns[c].gen /\ conns'[c].accepted = conns[c].accepted
    BY <2>1, Zenon DEF ConnTypes
  <2>3. ConnTypes'
    BY <2>1 DEF ConnTypes
  <2>4. \A s \in subs : KnownSub(s, conns')
    <3>1. \A s \in subs : s.sink[1] \in Conns /\ KnownSub(s, conns)
      BY Zenon DEF ConnInv, KnownSub, Sinks
    <3> QED BY <2>2, <3>1, Zenon DEF KnownSub
  <2>5. \A x \in live' : OpenSink(x, conns')
    <3>1. \A x \in live' : x[1] \in Conns /\ x[1] # c /\ OpenSink(x, conns)
      BY <2>1, Zenon DEF ConnInv, OpenSink, Sinks
    <3> QED BY <2>2, <3>1, Zenon DEF OpenSink
  <2>6. \A d \in Conns : /\ conns'[d].status = "open" => conns'[d].gen = serve.gen /\ server \in {"up", "stopping"}
                         /\ conns'[d].status = "new" => conns'[d].accepted = 0
    BY <2>2, Zenon DEF ConnInv
  <2> QED BY <2>1, <2>3, <2>4, <2>5, <2>6, Zenon DEF ConnInv, KnownSub, OpenSink
<1>5. ASSUME NEW c \in Conns, NEW k \in Kinds, NEW f \in FiltersOf(k), Subscribe(c, k, f)
      PROVE  ConnTypes' /\ ConnInv'
  <2>1. /\ server = "up" /\ conns[c].status # "closed" /\ conns' = [conns EXCEPT ![c] = Opened(c)]
        /\ calls' = [calls EXCEPT ![c] = [kind |-> k, filter |-> f]]
        /\ UNCHANGED <<serve, server, subs, live>>
    BY <1>5, Zenon DEF Subscribe, serveVars
  <2>2. /\ \A d \in Conns : d # c => conns'[d] = conns[d]
        /\ conns'[c] = Opened(c) /\ conns[c].status \in {"new", "open", "closed"}
    BY <2>1, Zenon DEF ConnTypes
  <2>3. ParseClientApp(Opening[c]) \in Clients
    BY Zenon DEF Clients
  <2>4. /\ Opened(c) \in [status : {"new", "open", "closed"}, gen : Nat,
                          client : Clients \cup {Unknown}, accepted : Nat]
        /\ Opened(c).status = "open" /\ Opened(c).gen = serve.gen
        /\ conns[c].status # "new" => Opened(c) = conns[c]
    BY <1>1, <2>1, <2>2, <2>3 DEF Opened, ConnTypes, ConnInv
  <2>5. f \in Filters
    BY Zenon DEF Filters
  <2>6. ConnTypes'
    <3>1. conns' \in [Conns -> [status : {"new", "open", "closed"}, gen : Nat,
                            client : Clients \cup {Unknown}, accepted : Nat]]
      BY <2>1, <2>4, Zenon DEF ConnTypes
    <3>2. DOMAIN calls' = Conns /\ \A d \in Conns : d # c => calls'[d] = calls[d]
      BY <2>1, Zenon DEF ConnTypes
    <3>3. calls'[c].kind \in Kinds /\ calls'[c].filter \in Filters
      BY <2>1, <2>5, Zenon DEF ConnTypes
    <3> QED BY <3>1, <3>2, <3>3, Zenon DEF ConnTypes
  <2>7. \A s \in subs : KnownSub(s, conns')
    <3>1. \A s \in subs : s.sink[1] \in Conns /\ KnownSub(s, conns)
      BY Zenon DEF ConnInv, KnownSub, Sinks
    <3>2. \A s \in subs : conns'[s.sink[1]] = conns[s.sink[1]]
      BY <2>2, <2>4, <3>1, Zenon DEF KnownSub
    <3> QED BY <3>1, <3>2, Zenon DEF KnownSub
  <2>8. \A x \in live : OpenSink(x, conns')
    <3>1. \A x \in live : x[1] \in Conns /\ OpenSink(x, conns)
      BY Zenon DEF ConnInv, OpenSink, Sinks
    <3>2. \A x \in live : conns'[x[1]] = conns[x[1]]
      BY <2>2, <2>4, <3>1, Zenon DEF OpenSink
    <3> QED BY <3>1, <3>2, Zenon DEF OpenSink
  <2>9. \A d \in Conns : /\ conns'[d].status = "open" => conns'[d].gen = serve.gen /\ server \in {"up", "stopping"}
                         /\ conns'[d].status = "new" => conns'[d].accepted = 0
    BY <2>1, <2>2, <2>4 DEF ConnInv
  <2> QED BY <2>1, <2>6, <2>7, <2>8, <2>9, Zenon DEF ConnInv, KnownSub, OpenSink
<1>6. ASSUME NEW c \in Conns, Add(c), conns[c].status = "open" PROVE ConnTypes' /\ ConnInv'
  <2> DEFINE sub == [gen |-> conns[c].gen, kind |-> calls[c].kind, conn |-> c,
                     filter |-> calls[c].filter, client |-> conns[c].client,
                     sink |-> <<c, conns[c].accepted + 1>>]
  <2>1. /\ calls[c] # None /\ calls' = [calls EXCEPT ![c] = None]
        /\ subs' \subseteq subs \cup {sub} /\ live' \subseteq live \cup {sub.sink}
        /\ conns' = [conns EXCEPT ![c].accepted = @ + 1] /\ UNCHANGED <<serve, server>>
    BY <1>6, Zenon DEF Add, serveVars
  <2>2. /\ \A d \in Conns : d # c => conns'[d] = conns[d]
        /\ conns'[c].status = "open" /\ conns'[c].gen = conns[c].gen
        /\ conns'[c].accepted = conns[c].accepted + 1 /\ conns[c].accepted \in Nat
    BY <1>6, <2>1, Zenon DEF ConnTypes
  <2>3. ConnTypes'
    <3>1. conns' \in [Conns -> [status : {"new", "open", "closed"}, gen : Nat,
                            client : Clients \cup {Unknown}, accepted : Nat]]
      BY <2>1 DEF ConnTypes
    <3>2. DOMAIN calls' = Conns /\ (\A d \in Conns : d # c => calls'[d] = calls[d]) /\ calls'[c] = None
      BY <2>1, Zenon DEF ConnTypes
    <3> QED BY <3>1, <3>2, Zenon DEF ConnTypes
  <2>4. /\ sub.sink = <<c, conns[c].accepted + 1>> /\ sub.gen = conns[c].gen /\ sub.kind = calls[c].kind
        /\ sub.sink \in Sinks /\ sub.sink[1] = c /\ sub.sink[2] = conns[c].accepted + 1
    BY <2>2 DEF Sinks
  <2>5. conns[c].gen = serve.gen /\ serve.gen \in Gens /\ calls[c].kind \in Kinds
    BY <1>1, <1>6, <2>1, Zenon DEF ConnInv, ConnTypes, ApartInv
  <2>6. \A s \in subs' : KnownSub(s, conns')
    <3>1. \A s \in subs : s.sink[1] \in Conns /\ s.sink[2] \in Nat /\ KnownSub(s, conns)
      BY Zenon DEF ConnInv, KnownSub, Sinks
    <3>2. \A s \in subs : KnownSub(s, conns')
      BY <2>2, <3>1 DEF KnownSub
    <3>3. KnownSub(sub, conns')
      <4> HIDE DEF sub
      <4> QED BY <2>2, <2>4, <2>5 DEF KnownSub
    <3> QED BY <2>1, <3>2, <3>3, Zenon
  <2>7. \A x \in live' : OpenSink(x, conns')
    <3>1. \A x \in live : x[1] \in Conns /\ x[2] \in Nat /\ OpenSink(x, conns)
      BY Zenon DEF ConnInv, OpenSink, Sinks
    <3>2. \A x \in live : OpenSink(x, conns')
      BY <2>2, <3>1 DEF OpenSink
    <3>3. OpenSink(sub.sink, conns')
      <4> HIDE DEF sub
      <4> QED BY <2>2, <2>4 DEF OpenSink
    <3> QED BY <2>1, <3>2, <3>3, Zenon
  <2>8. \A d \in Conns : /\ conns'[d].status = "open" => conns'[d].gen = serve.gen /\ server \in {"up", "stopping"}
                         /\ conns'[d].status = "new" => conns'[d].accepted = 0
    BY <1>6, <2>2 DEF ConnInv
  <2> QED BY <2>1, <2>3, <2>6, <2>7, <2>8, Zenon DEF ConnInv, KnownSub, OpenSink
<1>7. ASSUME NEW c \in Conns, Add(c), conns[c].status # "open" PROVE ConnTypes' /\ ConnInv'
  <2>1. calls' = [calls EXCEPT ![c] = None] /\ UNCHANGED <<conns, subs, live, serve, server>>
    BY <1>7, Zenon DEF Add, serveVars
  <2>2. DOMAIN calls' = Conns /\ \A d \in Conns : calls'[d] = None \/ calls'[d] = calls[d]
    BY <2>1, Zenon DEF ConnTypes
  <2> QED BY <2>1, <2>2, Zenon DEF ConnTypes, ConnInv
<1>8. ASSUME NEW sink \in live, Unsubscribe(sink) PROVE ConnTypes' /\ ConnInv'
  <2>1. UNCHANGED <<serve, server, conns, calls, subs>> /\ live' \subseteq live
    BY <1>8, Zenon DEF Unsubscribe, serveVars
  <2> QED BY <2>1, ConnsEnd, Zenon
<1>9. ASSUME NEW g \in Gens, CleanerStep(g) PROVE ConnTypes' /\ ConnInv'
  <2>1. UNCHANGED <<serve, server, conns, calls, live>> /\ subs' \subseteq subs
    BY <1>9, Zenon DEF CleanerStep, Sweep, UpdateGauge, serveVars
  <2> QED BY <2>1, ConnsEnd, Zenon
<1>10. CASE Boot \/ SelectStopped \/ SelectShutdown \/ SelectChange \/ Drain \/ Join \/ ShutdownExporter \/ ServerDies
  <2>1. /\ UNCHANGED <<conns, calls, subs, live>>
        /\ server' = server \/ server' = "stopping"
        /\ serve' = serve \/ \E p \in Phases : serve' = [serve EXCEPT !.pc = p]
    BY <1>10, Zenon DEF Boot, SelectStopped, SelectShutdown, SelectChange, Drain, Join,
       ShutdownExporter,
       ServerDies, Stop, Phases, subVars
  <2>2. serve'.gen = serve.gen
    BY <1>1, <2>1, Zenon
  <2> QED BY <2>1, <2>2, ConnsEnd, Zenon
<1>11. CASE \/ NodeChanges \/ Signal \/ BatchEnds \/ BatchEntry \/ ExporterEnds \/ WorkerStep \/ UNCHANGED vars
            \/ \E k \in Kinds : \E f \in FiltersOf(k) : Publish(k, f)
            \/ \E m \in sending : TimeOut(m)
            \/ \E b \in Batches : StartBatch(b)
            \/ \E m \in sending : Deliver(m)
            \/ \E g \in Gens, k \in Kinds : NotifierStep(g, k)
  <2>1. UNCHANGED <<serve, server, conns, calls, subs, live>>
    BY <1>11, Zenon DEF NodeChanges, Signal, BatchEnds, BatchEntry, ExporterEnds, WorkerStep,
       WorkerReads,
       WorkerSets, WorkerTicks, Publish, TimeOut, StartBatch, Deliver, NotifierStep, serveVars, subVars, vars
  <2> QED BY <2>1, ConnsEnd, Zenon
<1> QED
  BY <1>2, <1>3, <1>4, <1>5, <1>6, <1>7, <1>8, <1>9, <1>10, <1>11, Zenon
  DEF Next, System, Environment, ServeStep

(***************************************************************************)
(* Blocked clients.                                                        *)
(***************************************************************************)
SwitchFields == {"shutdown", "restart", "unknown", "blocked"}

\* The entries of every batch are calls that switch something.
LEMMA SwitchesNamed == \A op \in Switches : op.name \in SwitchNames
BY RpcServerAssumption, Zenon DEF Switches

\* A batch is a sequence of such calls, and not empty.
LEMMA BatchesSwitch == \A b \in Batches : DOMAIN b = {"request", "rest"} /\ b.rest \in Seq(Switches) /\ b.rest # <<>>
<1> SUFFICES ASSUME NEW b \in Batches PROVE DOMAIN b = {"request", "rest"} /\ b.rest \in Seq(Switches) /\ b.rest # <<>>
  BY Zenon
<1>1. DOMAIN b = {"request", "rest"} /\ b.rest \in Seq(Range(b.rest)) /\ b.rest # <<>>
  BY RpcServerAssumption, Zenon
<1>2. Range(b.rest) \subseteq Switches
  BY Zenon DEF Switches
<1> QED BY <1>1, <1>2, SeqMonotonic, Zenon

\* An administrator's call keeps what is blocked and what was asked to be blocked together.
LEMMA SwitchedBlocks ==
    ASSUME DOMAIN state = SwitchFields, Silent \subseteq state.blocked,
           NEW op, op.name \in SwitchNames, state' = Switched(op), banned' = Banned(op)
    PROVE  DOMAIN state' = SwitchFields /\ Silent' \subseteq state'.blocked
<1> DEFINE Asked(ns) == {Parse(n) : n \in ns} \ {Unknown}
<1>1. Silent = Asked(banned) /\ Silent' = Asked(banned')
  BY Zenon DEF Silent
<1>2. CASE op.name \in {"restartOnUnhealthy", "unknownClients"}
  <2>1. banned' = banned
    BY <1>2, Zenon DEF Banned
  <2>2. state' \in {[state EXCEPT !.restart = op.on], [state EXCEPT !.unknown = op.on]}
    BY <1>2, Zenon DEF Switched
  <2>3. DOMAIN state' = SwitchFields /\ state'.blocked = state.blocked
    BY <2>2, Zenon DEF SwitchFields
  <2> QED BY <1>1, <2>1, <2>3, Zenon
<1>3. CASE op.name = "blockClient"
  <2>1. banned' = banned \cup {op.client}
    BY <1>3, Zenon DEF Banned
  <2>2. state' = [state EXCEPT !.blocked = AddBlockedClient(@, op.client)]
    BY <1>3, Zenon DEF Switched
  <2>3. DOMAIN state' = SwitchFields /\ state'.blocked = AddBlockedClient(state.blocked, op.client)
    BY <2>2, Zenon DEF SwitchFields
  <2>4. Asked(banned') \subseteq AddBlockedClient(state.blocked, op.client)
    BY <1>1, <2>1, Zenon DEF AddBlockedClient
  <2> QED BY <1>1, <2>3, <2>4, Zenon
<1>4. CASE op.name = "unblockClient"
  <2>1. banned' = {n \in banned : Parse(n) # Parse(op.client)}
    BY <1>4, Zenon DEF Banned
  <2>2. state' = [state EXCEPT !.blocked = RemoveBlockedClient(@, op.client)]
    BY <1>4, Zenon DEF Switched
  <2>3. DOMAIN state' = SwitchFields /\ state'.blocked = RemoveBlockedClient(state.blocked, op.client)
    BY <2>2, Zenon DEF SwitchFields
  <2>4. Asked(banned') \subseteq RemoveBlockedClient(state.blocked, op.client)
    BY <1>1, <2>1, Zenon DEF RemoveBlockedClient
  <2> QED BY <1>1, <2>3, <2>4, Zenon
<1>5. CASE op.name = "clearBlockedClients"
  <2>1. banned' = {} /\ state' = [state EXCEPT !.blocked = {}]
    BY <1>5, Zenon DEF Banned, Switched
  <2>2. DOMAIN state' = SwitchFields
    BY <2>1, Zenon DEF SwitchFields
  <2> QED BY <1>1, <2>1, <2>2, Zenon
<1> QED BY <1>2, <1>3, <1>4, <1>5, Zenon DEF SwitchNames

\* The batch in hand after one of its entries.
LEMMA RestSwitches ==
    ASSUME DOMAIN batch = {"request", "rest"}, batch.rest \in Seq(Switches), batch.rest # <<>>, batch' = Rest
    PROVE  /\ DOMAIN batch' = {"request", "rest"}
           /\ batch' = NoBatch \/ (batch'.rest \in Seq(Switches) /\ batch'.rest # <<>>)
<1>1. CASE Len(batch.rest) = 1
  BY <1>1, Zenon DEF Rest, NoBatch
<1>2. CASE Len(batch.rest) # 1
  <2>1. batch' = [batch EXCEPT !.rest = Tail(@)]
    BY <1>2, Zenon DEF Rest
  <2>2. /\ Tail(batch.rest) \in Seq(Switches) /\ Len(Tail(batch.rest)) = Len(batch.rest) - 1
        /\ Len(batch.rest) \in Nat /\ Len(batch.rest) # 0
    BY HeadTailProperties, EmptySeq, LenProperties, Zenon
  <2>3. Len(Tail(batch.rest)) # 0
    BY <1>2, <2>2
  <2>4. Tail(batch.rest) # <<>>
    BY <2>2, <2>3, EmptySeq, Zenon
  <2>5. DOMAIN batch' = {"request", "rest"} /\ batch'.rest = Tail(batch.rest)
    BY <2>1, Zenon
  <2> QED BY <2>2, <2>4, <2>5, Zenon
<1> QED BY <1>1, <1>2, Zenon

\* The clients kept out are those that administrators blocked and did not unblock.
LEMMA BlockedStep == BlockedInv /\ [Next]_vars => BlockedInv'
<1> SUFFICES ASSUME BlockedInv, [Next]_vars PROVE BlockedInv'
  BY Zenon
<1>1. DOMAIN state = SwitchFields /\ Silent \subseteq state.blocked
  BY Zenon DEF BlockedInv, SwitchFields
<1>2. DOMAIN batch = {"request", "rest"} /\ (batch = NoBatch \/ (batch.rest \in Seq(Switches) /\ batch.rest # <<>>))
  BY Zenon DEF BlockedInv
<1>3. CASE SelectStopped \/ Signal
  <2>1. state' = [state EXCEPT !.shutdown = TRUE] /\ UNCHANGED <<batch, banned>>
    BY <1>3, Zenon DEF SelectStopped, Signal
  <2>2. DOMAIN state' = SwitchFields /\ state'.blocked = state.blocked
    BY <1>1, <2>1, Zenon DEF SwitchFields
  <2> QED BY <1>1, <1>2, <2>1, <2>2, Zenon DEF BlockedInv, SwitchFields, Silent
<1>4. ASSUME NEW b \in Batches, StartBatch(b) PROVE BlockedInv'
  <2>1. batch' = b /\ UNCHANGED <<state, banned>>
    BY <1>4, Zenon DEF StartBatch
  <2> QED BY <2>1, BatchesSwitch, Zenon DEF BlockedInv, Silent
<1>5. CASE BatchEnds
  <2>1. batch' = NoBatch /\ UNCHANGED <<state, banned>>
    BY <1>5, Zenon DEF BatchEnds
  <2>2. DOMAIN NoBatch = {"request", "rest"}
    BY Zenon DEF NoBatch
  <2> QED BY <2>1, <2>2, Zenon DEF BlockedInv, Silent
<1>6. CASE BatchEntry
  <2>1. /\ batch # NoBatch /\ batch' = Rest
        /\ \/ state' = Switched(Head(batch.rest)) /\ banned' = Banned(Head(batch.rest))
           \/ UNCHANGED <<state, banned>>
    BY <1>6, Zenon DEF BatchEntry
  <2>2. batch.rest \in Seq(Switches) /\ batch.rest # <<>>
    BY <1>2, <2>1, Zenon
  <2>3. Head(batch.rest) \in Switches
    BY <2>2, HeadTailProperties, Zenon
  <2>4. Head(batch.rest).name \in SwitchNames
    BY <2>3, SwitchesNamed, Zenon
  <2>5. DOMAIN state' = SwitchFields /\ Silent' \subseteq state'.blocked
    <3>1. CASE state' = Switched(Head(batch.rest)) /\ banned' = Banned(Head(batch.rest))
      BY <1>1, <2>4, <3>1, SwitchedBlocks, Zenon
    <3>2. CASE UNCHANGED <<state, banned>>
      BY <1>1, <3>2, Zenon DEF Silent
    <3> QED BY <2>1, <3>1, <3>2, Zenon
  <2>6. /\ DOMAIN batch' = {"request", "rest"}
        /\ batch' = NoBatch \/ (batch'.rest \in Seq(Switches) /\ batch'.rest # <<>>)
    BY <1>2, <2>1, <2>2, RestSwitches, Zenon
  <2> QED BY <2>5, <2>6, Zenon DEF BlockedInv, SwitchFields
<1>7. CASE \/ Boot \/ Bind \/ StopServer \/ SelectShutdown \/ SelectChange \/ Drain \/ Join
           \/ ShutdownExporter \/ ExporterEnds \/ WorkerStep \/ NodeChanges \/ ServerDies \/ UNCHANGED vars
           \/ \E c \in Conns : Close(c)
           \/ \E sink \in live : Unsubscribe(sink)
           \/ \E c \in Conns, k \in Kinds : \E f \in FiltersOf(k) : Subscribe(c, k, f)
           \/ \E k \in Kinds : \E f \in FiltersOf(k) : Publish(k, f)
           \/ \E m \in sending : TimeOut(m)
           \/ \E c \in Conns : Add(c)
           \/ \E g \in Gens, k \in Kinds : NotifierStep(g, k)
           \/ \E m \in sending : Deliver(m)
           \/ \E g \in Gens : CleanerStep(g)
  <2>1. UNCHANGED <<state, batch, banned>>
    BY <1>7, Zenon DEF Boot, Bind, StopServer, SelectShutdown, SelectChange, Drain, Join,
       ShutdownExporter,
       ExporterEnds, WorkerStep, WorkerReads, WorkerSets, WorkerTicks, NodeChanges, ServerDies, Close,
       Unsubscribe, Subscribe, Publish, TimeOut, Add, NotifierStep, Deliver, CleanerStep, stateVars, vars
  <2> QED BY <2>1, Zenon DEF BlockedInv, Silent
<1> QED
  BY <1>3, <1>4, <1>5, <1>6, <1>7, Zenon DEF Next, System, Environment, ServeStep

\* What BlockedClientsSilent says of a step.
SilentStep ==
    /\ \A c \in Conns : calls[c] = None /\ calls'[c] # None => conns'[c].client \notin Silent
    /\ [state' EXCEPT !.shutdown = FALSE] # [state EXCEPT !.shutdown = FALSE]
       => /\ ParseClientApp(batch.request) \notin Silent
          /\ ParseAdminPassword(batch.request)

\* A client that is let through is none that is to be silent.
LEMMA LetThrough ==
    ASSUME BlockedInv, NEW client, ~RejectClient(state, client) PROVE client \notin Silent
BY Zenon DEF BlockedInv, RejectClient, IsClientBlocked, Silent

\* Every step is one that BlockedClientsSilent allows.
LEMMA SilentNext == ConnTypes /\ BlockedInv /\ [Next]_vars => [SilentStep]_vars
<1> SUFFICES ASSUME ConnTypes, BlockedInv, Next PROVE SilentStep
  BY Zenon
<1>1. ASSUME calls' = calls, state' = state PROVE SilentStep
  BY <1>1, Zenon DEF SilentStep
<1>2. CASE SelectStopped \/ Signal
  <2>1. state' = [state EXCEPT !.shutdown = TRUE] /\ calls' = calls
    BY <1>2, Zenon DEF SelectStopped, Signal, subVars
  <2>2. [state' EXCEPT !.shutdown = FALSE] = [state EXCEPT !.shutdown = FALSE]
    BY <2>1, Zenon DEF BlockedInv
  <2> QED BY <2>1, <2>2, Zenon DEF SilentStep
<1>3. CASE BatchEntry
  <2>1. calls' = calls /\ (state' = state \/ Admitted(batch.request))
    BY <1>3, Zenon DEF BatchEntry, subVars
  <2>2. Admitted(batch.request) => /\ ParseClientApp(batch.request) \notin Silent
                                   /\ ParseAdminPassword(batch.request)
    BY LetThrough, Zenon DEF Admitted
  <2> QED BY <2>1, <2>2, Zenon DEF SilentStep
<1>4. ASSUME NEW c \in Conns, NEW k \in Kinds, NEW f \in FiltersOf(k), Subscribe(c, k, f) PROVE SilentStep
  <2>1. /\ ~RejectClient(state, Opened(c).client) /\ conns' = [conns EXCEPT ![c] = Opened(c)]
        /\ calls' = [calls EXCEPT ![c] = [kind |-> k, filter |-> f]] /\ state' = state
    BY <1>4, Zenon DEF Subscribe, stateVars
  <2>2. conns'[c] = Opened(c) /\ \A d \in Conns : d # c => calls'[d] = calls[d]
    BY <2>1, Zenon DEF ConnTypes
  <2>3. conns'[c].client \notin Silent
    BY <2>1, <2>2, LetThrough, Zenon
  <2> QED BY <2>1, <2>2, <2>3, Zenon DEF SilentStep
<1>5. ASSUME NEW c \in Conns, Add(c) PROVE SilentStep
  <2>1. calls' = [calls EXCEPT ![c] = None] /\ state' = state
    BY <1>5, Zenon DEF Add, stateVars
  <2>2. \A d \in Conns : calls'[d] = None \/ calls'[d] = calls[d]
    BY <2>1, Zenon DEF ConnTypes
  <2> QED BY <2>1, <2>2, Zenon DEF SilentStep
<1>6. CASE \/ Boot \/ Bind \/ StopServer \/ SelectShutdown \/ SelectChange \/ Drain \/ Join
           \/ ShutdownExporter \/ ExporterEnds \/ WorkerStep \/ NodeChanges \/ ServerDies \/ BatchEnds
           \/ \E c \in Conns : Close(c)
           \/ \E sink \in live : Unsubscribe(sink)
           \/ \E k \in Kinds : \E f \in FiltersOf(k) : Publish(k, f)
           \/ \E m \in sending : TimeOut(m)
           \/ \E b \in Batches : StartBatch(b)
           \/ \E g \in Gens, k \in Kinds : NotifierStep(g, k)
           \/ \E m \in sending : Deliver(m)
           \/ \E g \in Gens : CleanerStep(g)
  <2>1. calls' = calls /\ state' = state
    BY <1>6, Zenon DEF Boot, Bind, StopServer, SelectShutdown, SelectChange, Drain, Join,
       ShutdownExporter,
       ExporterEnds, WorkerStep, WorkerReads, WorkerSets, WorkerTicks, NodeChanges, ServerDies, BatchEnds,
       Close, Unsubscribe, Publish, TimeOut, StartBatch, NotifierStep, Deliver, CleanerStep, Sweep,
       UpdateGauge, stateVars, subVars
  <2> QED BY <1>1, <2>1, Zenon
<1> QED
  BY <1>2, <1>3, <1>4, <1>5, <1>6, Zenon DEF Next, System, Environment, ServeStep

(***************************************************************************)
(* Events.                                                                 *)
(***************************************************************************)
Channels == [items : Seq(Published), lagged : BOOLEAN]

\* What a channel keeps of the events sent before: all, or it has lagged.
LEMMA ReceiveKeeps ==
    ASSUME NEW q \in Channels, NEW e \in Published
    PROVE  /\ Receive(q, e) \in Channels /\ e \in Range(Receive(q, e).items)
           /\ q.lagged => Receive(q, e).lagged
           /\ \A x : x \in Range(q.items) => x \in Range(Receive(q, e).items) \/ Receive(q, e).lagged
<1>1. q.items \in Seq(Published) /\ Len(q.items) \in Nat /\ q = [items |-> q.items, lagged |-> q.lagged]
      /\ q.lagged \in BOOLEAN
  BY LenProperties, Zenon DEF Channels
<1>2. ASSUME NEW s \in Seq(Published)
      PROVE  /\ Append(s, e) \in Seq(Published) /\ e \in Range(Append(s, e))
             /\ \A x : x \in Range(s) => x \in Range(Append(s, e))
  <2>1. /\ Append(s, e) \in Seq(Published) /\ Len(Append(s, e)) = Len(s) + 1 /\ Len(s) \in Nat
        /\ \A i \in 1..Len(s) : Append(s, e)[i] = s[i]
        /\ Append(s, e)[Len(s) + 1] = e
    BY AppendProperties, LenProperties
  <2>2. DOMAIN s = 1..Len(s) /\ DOMAIN Append(s, e) = 1..Len(Append(s, e))
    BY <2>1, LenProperties, Zenon
  <2>3. Len(s) + 1 \in DOMAIN Append(s, e) /\ \A i \in DOMAIN s : i \in DOMAIN Append(s, e)
    BY <2>1, <2>2
  <2> QED BY <2>1, <2>2, <2>3, Zenon DEF Range
<1>3. CASE Len(q.items) < Capacity
  <2>1. Receive(q, e) = [q EXCEPT !.items = Append(@, e)]
    BY <1>3, Zenon DEF Receive
  <2>2. Receive(q, e).items = Append(q.items, e) /\ Receive(q, e).lagged = q.lagged
    BY <1>1, <2>1, Zenon
  <2>3. Receive(q, e) \in Channels
    BY <1>1, <1>2, <2>1, Zenon DEF Channels
  <2> QED BY <1>1, <1>2, <2>2, <2>3, Zenon
<1>4. CASE ~(Len(q.items) < Capacity)
  <2>1. Receive(q, e) = [items |-> Append(Tail(q.items), e), lagged |-> TRUE]
    BY <1>4, Zenon DEF Receive
  <2>2. q.items # <<>>
    BY <1>1, <1>4, Bounds, EmptySeq
  <2>3. Tail(q.items) \in Seq(Published)
    BY <1>1, <2>2, HeadTailProperties, Zenon
  <2>4. Receive(q, e).items = Append(Tail(q.items), e) /\ Receive(q, e).lagged
    BY <2>1
  <2>5. Receive(q, e) \in Channels
    BY <1>2, <2>1, <2>3 DEF Channels
  <2> QED BY <1>2, <2>3, <2>4, <2>5, Zenon
<1> QED BY <1>3, <1>4, Zenon

\* What stays in a channel when its first event is received.
LEMMA TailKeeps ==
    ASSUME NEW s \in Seq(Published), s # <<>>
    PROVE  /\ Tail(s) \in Seq(Published)
           /\ \A x : x \in Range(s) => x = Head(s) \/ x \in Range(Tail(s))
<1>1. /\ Tail(s) \in Seq(Published) /\ Len(Tail(s)) = Len(s) - 1 /\ Len(s) \in Nat /\ Head(s) = s[1]
      /\ \A i \in 1..Len(Tail(s)) : Tail(s)[i] = s[i + 1]
      /\ DOMAIN s = 1..Len(s) /\ DOMAIN Tail(s) = 1..Len(Tail(s))
  BY HeadTailProperties, LenProperties
<1>2. ASSUME NEW x, NEW i \in DOMAIN s, s[i] = x PROVE x = Head(s) \/ x \in Range(Tail(s))
  <2>1. CASE i = 1
    BY <1>1, <1>2, <2>1, Zenon
  <2>2. CASE i # 1
    <3>1. i - 1 \in DOMAIN Tail(s) /\ Tail(s)[i - 1] = s[i]
      BY <1>1, <2>2
    <3> QED BY <1>2, <3>1, Zenon DEF Range
  <2> QED BY <2>1, <2>2, Zenon
<1> QED BY <1>1, <1>2, Zenon DEF Range

\* The channels hold events, and empty when their notifier ends.
LEMMA QueueStep == CountInv /\ QueueTypes /\ [Next]_vars => QueueTypes'
<1> SUFFICES ASSUME CountInv, QueueTypes, [Next]_vars PROVE QueueTypes'
  BY Zenon
<1>1. queue \in [Gens -> [Kinds -> Channels]]
  BY Zenon DEF QueueTypes, Channels
<1>2. ASSUME NEW k \in Kinds, NEW f \in FiltersOf(k), Publish(k, f) PROVE QueueTypes'
  <2> DEFINE e == [kind |-> k, filter |-> f, number |-> events]
  <2>1. queue' = [g \in Gens |-> [queue[g] EXCEPT ![k] =
                     IF notifier[g][k] = "run" THEN Receive(@, e) ELSE @]]
    BY <1>2, Zenon DEF Publish
  <2>2. e \in Published
    <3>1. f \in Filters
      BY Zenon DEF Filters
    <3>2. events \in Nat
      BY Bounds DEF CountInv, ServeTypes
    <3> QED BY <3>1, <3>2, Zenon DEF Published
  <2>3. \A g \in Gens : queue[g][k] \in Channels /\ Receive(queue[g][k], e) \in Channels
    BY <1>1, <2>2, ReceiveKeeps, Zenon
  <2>4. queue' \in [Gens -> [Kinds -> Channels]]
    <3> HIDE DEF e
    <3> QED BY <1>1, <2>1, <2>3, Zenon
  <2> QED BY <2>4, Zenon DEF QueueTypes, Channels
<1>3. ASSUME NEW g \in Gens, NEW k \in Kinds, NotifierStep(g, k) PROVE QueueTypes'
  <2>1. \/ queue' = [queue EXCEPT ![g][k] = EmptyQueue]
        \/ queue' = [queue EXCEPT ![g][k].items = Tail(@)] /\ queue[g][k].items # <<>>
    BY <1>3, Zenon DEF NotifierStep, EndNotifier, Notify
  <2>2. EmptyQueue \in Channels
    BY EmptySeq, Zenon DEF EmptyQueue, Channels
  <2>3. queue[g][k] \in Channels /\ queue[g][k].items \in Seq(Published)
    BY <1>1, Zenon DEF Channels
  <2>4. CASE queue' = [queue EXCEPT ![g][k] = EmptyQueue]
    BY <1>1, <2>2, <2>4, Zenon DEF QueueTypes, Channels
  <2>5. CASE queue' = [queue EXCEPT ![g][k].items = Tail(@)] /\ queue[g][k].items # <<>>
    <3>1. Tail(queue[g][k].items) \in Seq(Published)
      BY <2>3, <2>5, TailKeeps, Zenon
    <3>2. [queue[g][k] EXCEPT !.items = Tail(@)] \in Channels
      BY <2>3, <3>1, Zenon DEF Channels
    <3>3. queue' = [queue EXCEPT ![g][k] = [queue[g][k] EXCEPT !.items = Tail(@)]]
      BY <1>1, <2>5, Zenon
    <3>4. queue' \in [Gens -> [Kinds -> Channels]]
      BY <1>1, <3>2, <3>3, Zenon
    <3> QED BY <3>4, Zenon DEF QueueTypes, Channels
  <2> QED BY <2>1, <2>4, <2>5, Zenon
<1>4. CASE \/ ServeStep \/ WorkerStep \/ NodeChanges \/ Signal \/ ServerDies \/ BatchEnds \/ BatchEntry
           \/ UNCHANGED vars
           \/ \E c \in Conns : Close(c)
           \/ \E sink \in live : Unsubscribe(sink)
           \/ \E c \in Conns, k \in Kinds : \E f \in FiltersOf(k) : Subscribe(c, k, f)
           \/ \E m \in sending : TimeOut(m)
           \/ \E b \in Batches : StartBatch(b)
           \/ \E c \in Conns : Add(c)
           \/ \E m \in sending : Deliver(m)
           \/ \E g \in Gens : CleanerStep(g)
  <2>1. queue' = queue
    BY <1>4, Zenon DEF ServeStep, Boot, Bind, Spawn, StopServer, SelectStopped, SelectShutdown,
       SelectChange,
       Drain, Join, ShutdownExporter, ExporterEnds, WorkerStep, WorkerReads, WorkerSets, WorkerTicks,
       NodeChanges, Signal, ServerDies, BatchEnds, BatchEntry, Close, Unsubscribe, Subscribe, TimeOut,
       StartBatch, Add, Deliver, CleanerStep, noteVars, vars
  <2> QED BY <2>1, Zenon DEF QueueTypes
<1> QED BY <1>2, <1>3, <1>4, Zenon DEF Next, System, Environment

\* The subscription's notifier owes the event, or will never receive it.
OwedBy(s, m, qs, ns) ==
    s.sink = m[1] /\ Matches(s, m[2]) /\ Waiting(qs[s.gen][s.kind], ns[s.gen][s.kind], m[2])

\* A step under which nothing that is owed gets lost.
LEMMA EventsKept ==
    ASSUME ConnTypes, EventsInv, owed' \subseteq owed, live' \subseteq live,
           \A c \in Conns : conns'[c].accepted = conns[c].accepted,
           \A m \in owed' : m \in got \cup sending => m \in got' \cup sending' \/ m[1] \notin live',
           \A s \in subs : s \in subs' \/ s.sink \notin live',
           \A s \in subs, m \in owed : OwedBy(s, m, queue, notifier) => OwedBy(s, m, queue', notifier')
    PROVE  EventsInv'
<1> SUFFICES ASSUME NEW m \in owed'
             PROVE  /\ m = <<m[1], m[2]>> /\ m[1] \in Sinks /\ m[1][2] <= conns'[m[1][1]].accepted
                    /\ \/ m \in got' \cup sending'
                       \/ m[1] \notin live'
                       \/ \E s \in subs' : OwedBy(s, m, queue', notifier')
  BY Zenon DEF EventsInv, OwedBy
<1>1. /\ m \in owed /\ m = <<m[1], m[2]>> /\ m[1] \in Sinks /\ m[1][2] <= conns[m[1][1]].accepted
      /\ \/ m \in got \cup sending
         \/ m[1] \notin live
         \/ \E s \in subs : OwedBy(s, m, queue, notifier)
  BY Zenon DEF EventsInv, OwedBy
<1>2. m[1][1] \in Conns
  BY <1>1, Zenon DEF Sinks
<1>3. ASSUME NEW s \in subs, OwedBy(s, m, queue, notifier)
      PROVE  m[1] \notin live' \/ \E r \in subs' : OwedBy(r, m, queue', notifier')
  <2>1. s.sink = m[1]
    BY <1>3, Zenon DEF OwedBy
  <2> QED BY <1>1, <1>3, <2>1, Zenon
<1> QED BY <1>1, <1>2, <1>3, Zenon

\* No step loses an event that is owed to a subscription.
LEMMA EventsStep ==
    CountInv /\ NotifierTypes /\ ApartInv /\ ConnTypes /\ ConnInv /\ QueueTypes /\ EventsInv /\ [Next]_vars
    => EventsInv'
<1> SUFFICES ASSUME CountInv, NotifierTypes, ApartInv, ConnTypes, ConnInv, QueueTypes, EventsInv, [Next]_vars
             PROVE  EventsInv'
  BY Zenon
<1>1. /\ \A x \in live : x \in Sinks /\ x[1] \in Conns /\ x[2] \in Nat
                         /\ conns[x[1]].status = "open" /\ x[2] <= conns[x[1]].accepted
      /\ \A s \in subs : s.kind \in Kinds /\ s.gen \in Gens /\ s.sink \in Sinks /\ s.sink[1] \in Conns
                         /\ s.sink[2] \in Nat /\ s.sink[2] <= conns[s.sink[1]].accepted
  BY Zenon DEF ConnInv, Sinks
<1>2. \A g \in Gens, k \in Kinds : queue[g][k] \in Channels
  BY Zenon DEF QueueTypes, Channels
<1>3. ASSUME UNCHANGED <<owed, got, sending, queue, notifier>>, live' \subseteq live,
             \A c \in Conns : conns'[c].accepted = conns[c].accepted,
             \A s \in subs : s \in subs' \/ s.sink \notin live'
      PROVE  EventsInv'
  BY <1>3, EventsKept, Zenon
<1>4. CASE Bind
  <2>1. serve.pc = "bind" /\ UNCHANGED <<conns, live, owed>>
    BY <1>4, Zenon DEF Bind, Spawn, subVars
  <2>2. live = {}
    BY <1>1, <2>1, Zenon DEF ApartInv, ConnInv
  <2> QED BY <2>1, <2>2, Zenon DEF EventsInv
<1>5. CASE SelectChange
  <2>1. /\ UNCHANGED <<owed, got, sending, queue, conns, subs, live>>
        /\ serve.pc = "select"
        /\ \/ notifier' = notifier
           \/ notifier' = [notifier EXCEPT ![serve.gen] =
                             [k \in Kinds |-> IF @[k] = "run" THEN "aborting" ELSE @[k]]]
    BY <1>5, Zenon DEF SelectChange, subVars
  <2>2. \A g \in Gens, k \in Kinds : notifier[g][k] # "run" => notifier'[g][k] # "run"
    BY <2>1 DEF NotifierTypes
  <2>3. \A s \in subs, m \in owed : OwedBy(s, m, queue, notifier) => OwedBy(s, m, queue', notifier')
    BY <1>1, <2>1, <2>2, Zenon DEF OwedBy, Waiting
  <2> QED BY <2>1, <2>3, EventsKept, Zenon
<1>6. ASSUME NEW c \in Conns, Add(c), conns[c].status = "open" PROVE EventsInv'
  <2> DEFINE sub == [gen |-> conns[c].gen, kind |-> calls[c].kind, conn |-> c,
                     filter |-> calls[c].filter, client |-> conns[c].client,
                     sink |-> <<c, conns[c].accepted + 1>>]
             old == {s \in subs : SlotOf(s) = SlotOf(sub)}
  <2>1. /\ subs' = (subs \ old) \cup {sub}
        /\ live' = (live \ {s.sink : s \in old}) \cup {sub.sink}
        /\ conns' = [conns EXCEPT ![c].accepted = @ + 1]
        /\ UNCHANGED <<owed, got, sending, queue, notifier>>
    BY <1>6, Zenon DEF Add, noteVars
  <2>2. sub.sink = <<c, conns[c].accepted + 1>>
    BY Zenon
  <2>3. /\ conns[c].accepted \in Nat /\ conns'[c].accepted = conns[c].accepted + 1
        /\ \A d \in Conns : d # c => conns'[d] = conns[d]
    BY <2>1, Zenon DEF ConnTypes
  <2> HIDE DEF sub, old
  <2>4. SUFFICES ASSUME NEW m \in owed
                 PROVE  /\ m = <<m[1], m[2]>> /\ m[1] \in Sinks /\ m[1][2] <= conns'[m[1][1]].accepted
                        /\ \/ m \in got \cup sending
                           \/ m[1] \notin live'
                           \/ \E s \in subs' : OwedBy(s, m, queue, notifier)
    BY <2>1, Zenon DEF EventsInv, OwedBy
  <2>5. /\ m = <<m[1], m[2]>> /\ m[1] \in Sinks /\ m[1][2] <= conns[m[1][1]].accepted
        /\ \/ m \in got \cup sending
           \/ m[1] \notin live
           \/ \E s \in subs : OwedBy(s, m, queue, notifier)
    BY Zenon DEF EventsInv, OwedBy
  <2>6. m[1][1] \in Conns /\ m[1][2] \in Nat /\ m[1] = <<m[1][1], m[1][2]>>
    BY <2>5 DEF Sinks
  <2>7. m[1][2] <= conns'[m[1][1]].accepted
    BY <2>3, <2>5, <2>6
  <2>8. m[1] # sub.sink
    BY <2>2, <2>3, <2>5, <2>6
  <2>9. ASSUME NEW s \in subs, OwedBy(s, m, queue, notifier)
        PROVE  m[1] \notin live' \/ \E r \in subs' : OwedBy(r, m, queue, notifier)
    <3>1. s.sink = m[1]
      BY <2>9, Zenon DEF OwedBy
    <3>2. s \in old => s.sink \notin live'
      BY <2>1, <2>8, <3>1, Zenon
    <3> QED BY <2>1, <2>9, <3>1, <3>2, Zenon
  <2>10. m[1] \notin live => m[1] \notin live'
    BY <2>1, <2>8, Zenon
  <2> QED BY <2>5, <2>7, <2>9, <2>10, Zenon
<1>7. ASSUME NEW k \in Kinds, NEW f \in FiltersOf(k), Publish(k, f) PROVE EventsInv'
  <2> DEFINE e == [kind |-> k, filter |-> f, number |-> events]
  <2>1. /\ queue' = [g \in Gens |-> [queue[g] EXCEPT ![k] =
                        IF notifier[g][k] = "run" THEN Receive(@, e) ELSE @]]
        /\ owed' = owed \cup {<<s.sink, e>> : s \in {s \in subs :
                        /\ Matches(s, e) /\ s.sink \in live
                        /\ notifier[s.gen][k] = "run" /\ ~queue'[s.gen][k].lagged}}
        /\ UNCHANGED <<conns, subs, live, notifier, got, sending>>
    BY <1>7, Zenon DEF Publish, subVars
  <2>2. e \in Published /\ e.kind = k
    <3>1. f \in Filters
      BY Zenon DEF Filters
    <3>2. events \in Nat
      BY Bounds DEF CountInv, ServeTypes
    <3> QED BY <3>1, <3>2, Zenon DEF Published
  <2> HIDE DEF e
  <2>3. \A g \in Gens : /\ queue'[g][k] = IF notifier[g][k] = "run" THEN Receive(queue[g][k], e) ELSE queue[g][k]
                        /\ \A j \in Kinds : j # k => queue'[g][j] = queue[g][j]
    BY <2>1, Zenon DEF QueueTypes
  <2>4. \A g \in Gens : /\ e \in Range(Receive(queue[g][k], e).items)
                        /\ queue[g][k].lagged => Receive(queue[g][k], e).lagged
                        /\ \A x : x \in Range(queue[g][k].items) =>
                             x \in Range(Receive(queue[g][k], e).items) \/ Receive(queue[g][k], e).lagged
    BY <1>2, <2>2, ReceiveKeeps, Zenon
  <2>5. \A g \in Gens, j \in Kinds : \A x :
           Waiting(queue[g][j], notifier[g][j], x) => Waiting(queue'[g][j], notifier[g][j], x)
    <3> SUFFICES ASSUME NEW g \in Gens, NEW j \in Kinds, NEW x, Waiting(queue[g][j], notifier[g][j], x)
                 PROVE  Waiting(queue'[g][j], notifier[g][j], x)
      BY Zenon
    <3>1. CASE j # k \/ notifier[g][k] # "run"
      BY <2>3, <3>1, Zenon DEF Waiting
    <3>2. CASE j = k /\ notifier[g][k] = "run"
      <4>1. queue'[g][k] = Receive(queue[g][k], e)
        BY <2>3, <3>2, Zenon
      <4> QED BY <2>4, <3>2, <4>1, Zenon DEF Waiting
    <3> QED BY <3>1, <3>2, Zenon
  <2>6. SUFFICES ASSUME NEW m \in owed'
                 PROVE  /\ m = <<m[1], m[2]>> /\ m[1] \in Sinks /\ m[1][2] <= conns[m[1][1]].accepted
                        /\ \/ m \in got \cup sending
                           \/ m[1] \notin live
                           \/ \E s \in subs : OwedBy(s, m, queue', notifier)
    BY <2>1, Zenon DEF EventsInv, OwedBy
  <2>7. CASE m \in owed
    <3>1. /\ m = <<m[1], m[2]>> /\ m[1] \in Sinks /\ m[1][2] <= conns[m[1][1]].accepted
          /\ \/ m \in got \cup sending
             \/ m[1] \notin live
             \/ \E s \in subs : OwedBy(s, m, queue, notifier)
      BY <2>7, Zenon DEF EventsInv, OwedBy
    <3>2. \A s \in subs : OwedBy(s, m, queue, notifier) => OwedBy(s, m, queue', notifier)
      BY <1>1, <2>5, Zenon DEF OwedBy
    <3> QED BY <3>1, <3>2, Zenon
  <2>8. CASE m \notin owed
    <3>1. PICK s \in subs : m = <<s.sink, e>> /\ Matches(s, e) /\ notifier[s.gen][k] = "run"
      BY <2>1, <2>8, Zenon
    <3>2. m = <<m[1], m[2]>> /\ m[1] = s.sink /\ m[2] = e /\ s.kind = k
      BY <2>2, <3>1, Zenon DEF Matches
    <3>3. Waiting(queue'[s.gen][s.kind], notifier[s.gen][s.kind], e)
      BY <1>1, <2>3, <2>4, <3>1, <3>2, Zenon DEF Waiting
    <3>4. OwedBy(s, m, queue', notifier)
      BY <3>1, <3>2, <3>3, Zenon DEF OwedBy
    <3> QED BY <1>1, <3>2, <3>4, Zenon
  <2> QED BY <2>7, <2>8, Zenon
<1>8. ASSUME NEW g \in Gens, NEW k \in Kinds, NotifierStep(g, k), EndNotifier(g, k) PROVE EventsInv'
  <2>1. /\ notifier' = [notifier EXCEPT ![g][k] = "ended"]
        /\ queue' = [queue EXCEPT ![g][k] = EmptyQueue]
        /\ UNCHANGED <<sending, got, owed, conns, subs, live>>
    BY <1>8, Zenon DEF NotifierStep, EndNotifier, subVars
  <2>2. \A h \in Gens, j \in Kinds :
           notifier'[h][j] # "run" \/ (notifier'[h][j] = notifier[h][j] /\ queue'[h][j] = queue[h][j])
    BY <2>1, Zenon DEF NotifierTypes, QueueTypes
  <2>3. \A s \in subs, m \in owed : OwedBy(s, m, queue, notifier) => OwedBy(s, m, queue', notifier')
    BY <1>1, <2>2, Zenon DEF OwedBy, Waiting
  <2> QED BY <2>1, <2>3, EventsKept, Zenon
<1>9. ASSUME NEW g \in Gens, NEW k \in Kinds, NotifierStep(g, k), queue[g][k].items # <<>>, Notify(g, k)
      PROVE  EventsInv'
  <2> DEFINE e == Head(queue[g][k].items)
  <2>1. /\ sending' = sending \cup {<<s.sink, e>> :
                        s \in {s \in Registered(g) : Matches(s, e) /\ s.sink \in live}}
        /\ queue' = [queue EXCEPT ![g][k].items = Tail(@)]
        /\ UNCHANGED <<notifier, got, owed, conns, subs, live>>
    BY <1>9, Zenon DEF NotifierStep, Notify, subVars
  <2>2. queue[g][k].items \in Seq(Published)
    BY <1>2, Zenon DEF Channels
  <2>3. \A x : x \in Range(queue[g][k].items) => x = e \/ x \in Range(Tail(queue[g][k].items))
    BY <1>9, <2>2, TailKeeps, Zenon
  <2> HIDE DEF e
  <2>4. /\ queue'[g][k].items = Tail(queue[g][k].items) /\ queue'[g][k].lagged = queue[g][k].lagged
        /\ \A h \in Gens, j \in Kinds : <<h, j>> # <<g, k>> => queue'[h][j] = queue[h][j]
    BY <2>1 DEF QueueTypes
  <2>5. SUFFICES ASSUME NEW m \in owed
                 PROVE  /\ m = <<m[1], m[2]>> /\ m[1] \in Sinks /\ m[1][2] <= conns[m[1][1]].accepted
                        /\ \/ m \in got \cup sending'
                           \/ m[1] \notin live
                           \/ \E s \in subs : OwedBy(s, m, queue', notifier)
    BY <2>1, Zenon DEF EventsInv, OwedBy
  <2>6. /\ m = <<m[1], m[2]>> /\ m[1] \in Sinks /\ m[1][2] <= conns[m[1][1]].accepted
        /\ \/ m \in got \cup sending
           \/ m[1] \notin live
           \/ \E s \in subs : OwedBy(s, m, queue, notifier)
    BY Zenon DEF EventsInv, OwedBy
  <2>7. ASSUME NEW s \in subs, OwedBy(s, m, queue, notifier)
        PROVE  m \in sending' \/ m[1] \notin live \/ OwedBy(s, m, queue', notifier)
    <3>1. /\ s.sink = m[1] /\ Matches(s, m[2]) /\ s.gen \in Gens /\ s.kind \in Kinds
          /\ Waiting(queue[s.gen][s.kind], notifier[s.gen][s.kind], m[2])
      BY <1>1, <2>7, Zenon DEF OwedBy
    <3>2. CASE <<s.gen, s.kind>> # <<g, k>>
      BY <2>4, <3>1, <3>2, Zenon DEF OwedBy
    <3>3. CASE s.gen = g /\ s.kind = k
      <4>1. CASE m[2] # e \/ m[2] \notin Range(queue[g][k].items)
        BY <2>3, <2>4, <3>1, <3>3, <4>1, Zenon DEF OwedBy, Waiting
      <4>2. CASE m[2] = e /\ m[1] \in live
        <5>1. <<s.sink, e>> \in sending'
          BY <2>1, <3>1, <3>3, <4>2, Zenon DEF Registered
        <5>2. m = <<s.sink, e>>
          BY <3>1, <4>2, <2>6, Zenon
        <5> QED BY <5>1, <5>2, Zenon
      <4> QED BY <4>1, <4>2, Zenon
    <3> QED BY <3>2, <3>3, Zenon
  <2> QED BY <2>1, <2>6, <2>7, Zenon
<1>10. ASSUME NEW n \in sending, Deliver(n) PROVE EventsInv'
  <2>1. /\ sending' = sending \ {n} /\ UNCHANGED <<notifier, queue, owed, conns, subs, live>>
        /\ got' = IF conns[n[1][1]].status = "open" THEN got \cup {n} ELSE got
    BY <1>10, Zenon DEF Deliver, subVars
  <2>2. \A m \in owed' : m \in got \cup sending => m \in got' \cup sending' \/ m[1] \notin live'
    BY <1>1, <2>1, Zenon
  <2> QED BY <2>1, <2>2, EventsKept, Zenon
<1>11. ASSUME NEW n \in sending, TimeOut(n) PROVE EventsInv'
  <2>1. /\ sending' = sending \ {n} /\ owed' = owed \ {n}
        /\ UNCHANGED <<notifier, queue, got, conns, subs, live>>
    BY <1>11, Zenon DEF TimeOut, subVars
  <2> QED BY <2>1, EventsKept, Zenon
<1>12. CASE StopServer \/ \E c \in Conns : Close(c)
  <2>1. UNCHANGED <<owed, got, sending, queue, notifier, subs>> /\ live' \subseteq live
    BY <1>12, Zenon DEF StopServer, Close, noteVars
  <2>2. \A c \in Conns : conns'[c].accepted = conns[c].accepted
    BY <1>12 DEF StopServer, Close, ConnTypes
  <2> QED BY <1>3, <2>1, <2>2, Zenon
<1>13. ASSUME NEW c \in Conns, NEW k \in Kinds, NEW f \in FiltersOf(k), Subscribe(c, k, f) PROVE EventsInv'
  <2>1. UNCHANGED <<owed, got, sending, queue, notifier, subs, live>> /\ conns' = [conns EXCEPT ![c] = Opened(c)]
    BY <1>13, Zenon DEF Subscribe, noteVars
  <2>2. \A d \in Conns : conns'[d].accepted = conns[d].accepted
    BY <2>1, Zenon DEF Opened, ConnTypes, ConnInv
  <2> QED BY <1>3, <2>1, <2>2, Zenon
<1>14. ASSUME NEW g \in Gens, CleanerStep(g) PROVE EventsInv'
  <2>1. /\ UNCHANGED <<owed, got, sending, queue, notifier, conns, live>>
        /\ subs' = subs \/ subs' = subs \ Closed(g)
    BY <1>14, Zenon DEF CleanerStep, Sweep, UpdateGauge, noteVars
  <2>2. \A s \in subs : s \in subs' \/ s.sink \notin live'
    BY <2>1, Zenon DEF Closed
  <2> QED BY <1>3, <2>1, <2>2, Zenon
<1>15. CASE \/ Boot \/ SelectStopped \/ SelectShutdown \/ Drain \/ Join \/ ShutdownExporter \/ ExporterEnds
            \/ WorkerStep \/ NodeChanges \/ Signal \/ ServerDies \/ BatchEnds \/ BatchEntry \/ UNCHANGED vars
            \/ \E sink \in live : Unsubscribe(sink)
            \/ \E b \in Batches : StartBatch(b)
            \/ \E c \in Conns : Add(c) /\ conns[c].status # "open"
  <2>1. UNCHANGED <<owed, got, sending, queue, notifier, conns, subs>> /\ live' \subseteq live
    BY <1>15, Zenon DEF Boot, SelectStopped, SelectShutdown, Drain, Join, ShutdownExporter,
       ExporterEnds,
       WorkerStep, WorkerReads, WorkerSets, WorkerTicks, NodeChanges, Signal, ServerDies, BatchEnds,
       BatchEntry, Unsubscribe, StartBatch, Add, subVars, noteVars, vars
  <2> QED BY <1>3, <2>1, Zenon
<1>16. ASSUME NEW g \in Gens, NEW k \in Kinds, NotifierStep(g, k)
       PROVE  EndNotifier(g, k) \/ (queue[g][k].items # <<>> /\ Notify(g, k))
  BY <1>16, Zenon DEF NotifierStep
<1> QED
  BY <1>4, <1>5, <1>6, <1>7, <1>8, <1>9, <1>10, <1>11, <1>12, <1>13, <1>14, <1>15, <1>16, Zenon
  DEF Next, System, Environment, ServeStep

(***************************************************************************)
(* The theorems.                                                           *)
(***************************************************************************)
Inv ==
    /\ CountInv /\ NotifierTypes /\ ApartInv /\ ConnTypes /\ ConnInv
    /\ QueueTypes /\ EventsInv /\ BlockedInv

\* serve has not started anything yet.
LEMMA InitInv == Init => Inv
<1> SUFFICES ASSUME Init PROVE Inv
  BY Zenon
<1>1. /\ serve = [pc |-> "boot", gen |-> 0] /\ server = "down" /\ worker = "none"
      /\ health = [value |-> FALSE, changed |-> FALSE] /\ events = 0 /\ subs = {} /\ live = {} /\ owed = {}
      /\ banned = {} /\ batch = NoBatch /\ calls = [c \in Conns |-> None]
      /\ state = [shutdown |-> FALSE, restart |-> TRUE, unknown |-> TRUE, blocked |-> {}]
      /\ notifier = [g \in Gens |-> [k \in Kinds |-> "none"]]
      /\ queue = [g \in Gens |-> [k \in Kinds |-> EmptyQueue]]
      /\ conns = [c \in Conns |-> [status |-> "new", gen |-> 0, client |-> Unknown, accepted |-> 0]]
  BY Zenon DEF Init
<1>2. CountInv
  <2>1. ServeTypes
    BY <1>1, Bounds DEF ServeTypes, Phases
  <2>2. serve.pc = "boot" /\ serve.gen = 0 /\ ~health.value /\ ~health.changed
    BY <1>1, Zenon
  <2>3. Restarts = 0
    BY <2>2, Zenon DEF Restarts
  <2>4. ~Pending /\ ~Target
    BY <1>1, <2>2, Zenon DEF Pending, Target
  <2>5. One(Pending) = 0 /\ One(Target) = 0 /\ One(Health(node) # Target) \in {0, 1}
    BY <2>4, Zenon DEF One
  <2>6. Spent <= events + 1
    BY <1>1, <2>3, <2>5 DEF Spent
  <2> QED BY <1>1, <2>1, <2>2, <2>6, Zenon DEF CountInv, RestartsInv
<1>3. NotifierTypes
  BY <1>1, Zenon DEF NotifierTypes
<1>4. ApartInv
  <2>1. serve.pc = "boot" /\ Quiet = -1
    BY <1>1 DEF Quiet
  <2>2. \A g \in Gens : ~(g <= Quiet)
    BY <2>1, Bounds DEF Gens
  <2> QED BY <1>1, <2>1, <2>2, Zenon DEF ApartInv
<1>5. ConnTypes /\ ConnInv
  <2>1. ConnTypes
    BY <1>1, Zenon DEF ConnTypes
  <2>2. \A c \in Conns : conns[c].status = "new" /\ conns[c].accepted = 0
    BY <1>1, Zenon
  <2> QED BY <1>1, <2>1, <2>2, Zenon DEF ConnInv
<1>6. QueueTypes
  <2>1. EmptyQueue \in Channels
    BY EmptySeq, Zenon DEF EmptyQueue, Channels
  <2> QED BY <1>1, <2>1, Zenon DEF QueueTypes, Channels
<1>7. EventsInv
  BY <1>1, Zenon DEF EventsInv
<1>8. BlockedInv
  BY <1>1, Zenon DEF BlockedInv, Silent, NoBatch
<1> QED BY <1>2, <1>3, <1>4, <1>5, <1>6, <1>7, <1>8, Zenon DEF Inv

\* The invariant holds in every state: for any clients, kinds, batches and bounds.
THEOREM InvHolds == Spec => []Inv
<1>1. Inv /\ [Next]_vars => Inv'
  BY CountStep, ApartStep, ConnStep, QueueStep, EventsStep, BlockedStep, Zenon DEF Inv
<1> QED BY <1>1, InitInv, PTL DEF Spec

\* A restart leaves nothing of the old server behind but its cleaner, and serve returns only
\* when every task it waits for has ended (the join! of Server::serve).
THEOREM GenerationsApartHolds == Spec => []GenerationsApart
<1>1. Inv => GenerationsApart
  <2> SUFFICES ASSUME Inv PROVE GenerationsApart
    BY Zenon
  <2>1. serve.gen \in 0..MaxGen /\ serve.pc \in Phases /\ (serve.pc \notin {"boot", "bind"} => serve.gen > 0)
    BY Started, Zenon DEF Inv, CountInv, ServeTypes, RestartsInv
  <2>2. \A g \in Gens : g < serve.gen => g <= Quiet
    BY <2>1, Bounds DEF Quiet, Gens
  <2>3. ASSUME NEW g \in Gens, g < serve.gen PROVE Ended(g) /\ \A s \in subs : s.gen = g => s.sink \notin live
    <3>1. Ended(g)
      BY <2>2, <2>3, Zenon DEF Inv, ApartInv
    <3>2. g # serve.gen
      BY <2>1, <2>3, Bounds DEF Gens
    <3>3. ASSUME NEW s \in subs, s.gen = g, s.sink \in live PROVE FALSE
      <4>1. s.sink[1] \in Conns /\ conns[s.sink[1]].status = "open" /\ s.gen = conns[s.sink[1]].gen
        BY <3>3, Zenon DEF Inv, ConnInv, Sinks
      <4>2. conns[s.sink[1]].gen = serve.gen
        BY <4>1, Zenon DEF Inv, ConnInv
      <4> QED BY <3>2, <3>3, <4>1, <4>2, Zenon
    <3> QED BY <3>1, <3>3, Zenon
  <2>4. serve.pc = "done" => worker = "done" /\ exporter = "gone" /\ Ended(serve.gen) /\ live = {}
    <3> SUFFICES ASSUME serve.pc = "done" PROVE worker = "done" /\ exporter = "gone" /\ Ended(serve.gen) /\ live = {}
      BY Zenon
    <3>1. worker = "done" /\ exporter = "gone" /\ server = "stopped"
      BY Zenon DEF Inv, ApartInv
    <3>2. serve.gen \in Gens /\ serve.gen <= Quiet
      BY <2>1, Bounds DEF Quiet, Gens
    <3>3. Ended(serve.gen)
      BY <3>2, Zenon DEF Inv, ApartInv
    <3>4. live = {}
      BY <3>1, Zenon DEF Inv, ConnInv, Sinks
    <3> QED BY <3>1, <3>3, <3>4, Zenon
  <2> QED BY <2>3, <2>4, Zenon DEF GenerationsApart
<1> QED BY <1>1, InvHolds, PTL

\* An event published while a subscription stands in the registry reaches its client unless
\* its sink was closed, the notification timed out or the notifier ended (notify, Rx loops).
THEOREM EventsAccountedHolds == Spec => []EventsAccounted
<1>1. Inv => EventsAccounted
  BY Zenon DEF Inv, EventsInv, EventsAccounted, Waiting
<1> QED BY <1>1, InvHolds, PTL

\* A blocked client starts no subscription and switches nothing, not even in the rest of the
\* batch that blocked it, and only the administrator switches (reject_client, auth_admin).
THEOREM BlockedClientsSilentHolds == Spec => BlockedClientsSilent
<1>1. Inv /\ [Next]_vars => [SilentStep]_vars
  BY SilentNext, Zenon DEF Inv
<1>2. [SilentStep]_vars => [/\ \A c \in Conns : calls[c] = None /\ calls'[c] # None => conns'[c].client \notin Silent
                            /\ [state' EXCEPT !.shutdown = FALSE] # [state EXCEPT !.shutdown = FALSE]
                               => /\ ParseClientApp(batch.request) \notin Silent
                                  /\ ParseAdminPassword(batch.request)]_vars
  BY Zenon DEF SilentStep
<1> QED BY <1>1, <1>2, InvHolds, PTL DEF Spec, BlockedClientsSilent
=============================================================================
