------------------------------ MODULE NodeMode ------------------------------
(***************************************************************************)
(* Mode changes of a running node (rpc/server.rs, globals.rs,              *)
(* follower/importer/config.rs and runtime.rs, and the starting and        *)
(* stopping of the interval miner in miner/miner.rs): administrators call  *)
(* stratus_changeToLeader, stratus_changeToFollower and                    *)
(* stratus_shutdownImporter while clients send transactions.               *)
(*                                                                         *)
(* Blocks are numbers, the next one pending; a transaction is the client   *)
(* that sends it.  The importer is the one stratus_changeToFollower        *)
(* starts: it executes the remote leader's blocks again, without Kafka.    *)
(***************************************************************************)
EXTENDS Naturals, FiniteSets

CONSTANTS
    Admins,         \* RPC tasks of administrators
    Clients,        \* calls of eth_sendRawTransaction, one transaction each
    MaxCalls,       \* bound: administrators' calls
    MaxInitErrors,  \* bound: importers that do not start
    MaxBlock,       \* bound: blocks mined and imported
    None

ASSUME NodeModeAssumption ==
    /\ {MaxCalls, MaxInitErrors, MaxBlock} \subseteq Nat
    /\ None \notin Admins

VARIABLES
    nodeMode,    \* NODE_MODE
    enabled,     \* TRANSACTIONS_ENABLED
    change,      \* who holds MODE_CHANGE_SEMAPHORE
    shutdown,    \* IMPORTER_SHUTDOWN
    importer,    \* whether Server::importer is set
    runtime,     \* Server::importer_runtime: which importer it is of, 0 for none
    taken,       \* the runtime each administrator took out of the server
    instance,    \* the importer started last
    cancelled,   \* its runtime's cancellation token
    panicked,    \* importers whose worker panicked
    tasks,       \* the importer's tasks: none, spawned, or running with their permits
    worker,      \* what the importer's worker does
    next,        \* the block it imports next
    minerMode,   \* Miner::mode
    paused,      \* Miner::is_paused
    stop,        \* the interval miner's cancellation token
    miner,       \* the interval miner's thread
    pending,     \* the pending block: number, transactions, those of them executed under
                 \* another header than the one it has
    finished,    \* the transactions of the block finished last, until it is committed
    mined,       \* number of the last committed block
    committed,   \* transactions in committed local blocks
    mixed,       \* local transactions in committed external blocks
    pc, call,    \* where each administrator is, and in which call
    reply,       \* what each client knows
    late,        \* history: transactions saved after a change looked for pending ones
    calls, failed

adminVars == <<pc, call, change, calls>>
taskVars == <<instance, cancelled, panicked, tasks, worker, next>>
importVars == <<shutdown, importer, runtime, taken, taskVars>>
minerVars == <<minerMode, paused, stop, miner>>
chainVars == <<pending, finished, mined, committed, mixed>>
clientVars == <<reply, late>>
vars == <<nodeMode, enabled, adminVars, importVars, minerVars, chainVars, clientVars, failed>>

NewPending(n) == [number |-> n, txs |-> {}, stale |-> {}]

\* A leader with an interval miner, or a follower with its importer (initialize_node_mode).
Init ==
    /\ nodeMode \in {"leader", "follower"}
    /\ enabled = TRUE
    /\ change = None
    /\ shutdown = (nodeMode = "leader")
    /\ importer = ~shutdown
    /\ instance = IF shutdown THEN 0 ELSE 1
    /\ runtime = instance
    /\ taken = [a \in Admins |-> 0]
    /\ cancelled = FALSE
    /\ panicked = {}
    /\ tasks = IF shutdown THEN "none" ELSE "spawned"
    /\ worker = "idle"
    /\ next = 0
    /\ minerMode = IF nodeMode = "leader" THEN "interval" ELSE "external"
    /\ paused = FALSE
    /\ stop = FALSE
    /\ miner = IF nodeMode = "leader" THEN "idle" ELSE "none"
    /\ pending = NewPending(1)
    /\ finished = {}
    /\ mined = 0
    /\ committed = {}
    /\ mixed = {}
    /\ pc = [a \in Admins |-> "idle"]
    /\ call = [a \in Admins |-> "none"]
    /\ reply = [c \in Clients |-> "new"]
    /\ late = {}
    /\ calls = 0
    /\ failed = 0

(***************************************************************************)
(* Administrators: the switches are one store each.                        *)
(***************************************************************************)
SetTransactionsEnabled(b) ==
    /\ enabled' = b
    /\ UNCHANGED <<nodeMode, adminVars, importVars, minerVars, chainVars, clientVars, failed>>

SetPaused(b) ==
    /\ paused' = b
    /\ UNCHANGED <<nodeMode, enabled, adminVars, importVars, minerMode, stop, miner, chainVars,
                   clientVars, failed>>

Goto(a, label) == pc' = [pc EXCEPT ![a] = label] /\ UNCHANGED <<call, change, calls>>

\* The call returns, and with it goes the permit of MODE_CHANGE_SEMAPHORE.
Return(a) ==
    /\ pc' = [pc EXCEPT ![a] = "idle"]
    /\ change' = IF change = a THEN None ELSE change
    /\ UNCHANGED <<call, calls>>

\* A timing assumption: the runtime of an importer that was started has given its tasks
\* their permits when the next mode change begins.
Settled == tasks # "spawned"

\* try_acquire, then the mode and the switch for transactions.
BeginChange(a, to) ==
    /\ pc[a] = "idle"
    /\ calls < MaxCalls
    /\ Settled
    /\ change = None
    /\ nodeMode # to
    /\ ~enabled
    /\ change' = a
    /\ call' = [call EXCEPT ![a] = to]
    /\ calls' = calls + 1
    /\ pc' = [pc EXCEPT ![a] = IF to = "leader" THEN "shutdown" ELSE "check_pending"]
    /\ UNCHANGED <<nodeMode, enabled, importVars, minerVars, chainVars, clientVars, failed>>

BeginShutdown(a) ==
    /\ pc[a] = "idle"
    /\ calls < MaxCalls
    /\ call' = [call EXCEPT ![a] = "shutdown"]
    /\ calls' = calls + 1
    /\ pc' = [pc EXCEPT ![a] = "shutdown"]
    /\ UNCHANGED <<nodeMode, enabled, change, importVars, minerVars, chainVars, clientVars, failed>>

(***************************************************************************)
(* stratus_shutdown_importer, on its own or within stratus_changeToLeader, *)
(* which goes on if the importer was shut down already.                    *)
(***************************************************************************)
AfterShutdown(a) == IF call[a] = "leader" THEN Goto(a, "wait") ELSE Return(a)

ShutdownImporter(a) ==
    /\ pc[a] = "shutdown"
    /\ \/ /\ nodeMode # "follower"
          /\ Return(a)
          /\ UNCHANGED importer
       \/ /\ nodeMode = "follower" /\ shutdown /\ ~importer
          /\ AfterShutdown(a)
          /\ UNCHANGED importer
       \/ /\ nodeMode = "follower" /\ (~shutdown \/ importer)
          /\ importer' = FALSE
          /\ Goto(a, "take_runtime")
    /\ UNCHANGED <<nodeMode, enabled, shutdown, runtime, taken, taskVars, minerVars, chainVars,
                   clientVars, failed>>

TakeRuntime(a) ==
    /\ pc[a] = "take_runtime"
    /\ taken' = [taken EXCEPT ![a] = runtime]
    /\ runtime' = 0
    /\ Goto(a, "signal")
    /\ UNCHANGED <<nodeMode, enabled, shutdown, importer, taskVars, minerVars, chainVars,
                   clientVars, failed>>

\* shutdown_importer_from, then ImporterRuntime::shutdown if there was a runtime.
SignalShutdown(a) ==
    /\ pc[a] = "signal"
    /\ shutdown' = TRUE
    /\ cancelled' = (cancelled \/ (taken[a] = instance /\ tasks # "none"))
    /\ IF taken[a] = 0 THEN AfterShutdown(a) ELSE Goto(a, "join")
    /\ UNCHANGED <<nodeMode, enabled, importer, runtime, taken, instance, panicked, tasks, worker,
                   next, minerVars, chainVars, clientVars, failed>>

\* The thread's own error makes the call fail.
JoinRuntime(a) ==
    /\ pc[a] = "join"
    /\ taken[a] = instance => tasks = "none"
    /\ IF taken[a] \in panicked THEN Return(a) ELSE AfterShutdown(a)
    /\ UNCHANGED <<nodeMode, enabled, importVars, minerVars, chainVars, clientVars, failed>>

(***************************************************************************)
(* stratus_changeToLeader after the importer was told to stop.             *)
(***************************************************************************)
\* Mutant of PermitsFree: tasks that still run are not waited for.
PermitsFreeAlways == tasks \in {"none", "spawned", "running"}

PermitsFree == tasks # "running"

WaitForImporter(a) ==
    /\ pc[a] = "wait"
    /\ PermitsFree
    /\ Goto(a, "interval")
    /\ UNCHANGED <<nodeMode, enabled, importVars, minerVars, chainVars, clientVars, failed>>

\* change_miner_mode(Interval): its checks.
CheckInterval(a) ==
    /\ pc[a] = "interval"
    /\ \/ enabled /\ Return(a)
       \/ ~enabled /\ minerMode = "interval" /\ Goto(a, "set_leader")
       \/ ~enabled /\ minerMode # "interval" /\ importer /\ Return(a)
       \/ ~enabled /\ minerMode # "interval" /\ ~importer /\ Goto(a, "start_miner")
    /\ UNCHANGED <<nodeMode, enabled, importVars, minerVars, chainVars, clientVars, failed>>

StartIntervalMining(a) ==
    /\ pc[a] = "start_miner"
    /\ minerMode' = "interval"
    /\ paused' = FALSE
    /\ stop' = FALSE
    /\ miner' = "idle"
    /\ Goto(a, "set_leader")
    /\ UNCHANGED <<nodeMode, enabled, importVars, chainVars, clientVars, failed>>

SetLeader(a) ==
    /\ pc[a] = "set_leader"
    /\ nodeMode' = "leader"
    /\ Return(a)
    /\ UNCHANGED <<enabled, importVars, minerVars, chainVars, clientVars, failed>>

(***************************************************************************)
(* stratus_changeToFollower.                                               *)
(***************************************************************************)
\* Mutant of NoPending: pending transactions do not hold up the change.
NoPendingAlways == pending.txs \subseteq Clients

NoPending == pending.txs = {}

CheckPending(a) ==
    /\ pc[a] = "check_pending"
    /\ IF NoPending THEN Goto(a, "external") ELSE Return(a)
    /\ UNCHANGED <<nodeMode, enabled, importVars, minerVars, chainVars, clientVars, failed>>

\* change_miner_mode(External): its checks.
CheckExternal(a) ==
    /\ pc[a] = "external"
    /\ \/ ~enabled /\ minerMode = "external" /\ Goto(a, "set_follower")
       \/ ~enabled /\ minerMode # "external" /\ paused /\ NoPending /\ Goto(a, "stop_miner")
       \/ /\ enabled \/ (minerMode # "external" /\ ~(paused /\ NoPending))
          /\ Return(a)
    /\ UNCHANGED <<nodeMode, enabled, importVars, minerVars, chainVars, clientVars, failed>>

\* Mutant of CancelMiner: the token is not cancelled.
CancelMinerForgotten(a) ==
    /\ pc[a] = "stop_miner"
    /\ Goto(a, "join_miner")
    /\ UNCHANGED <<nodeMode, enabled, importVars, minerVars, chainVars, clientVars, failed>>

\* shutdown_and_wait, up to the join.
CancelMiner(a) ==
    /\ pc[a] = "stop_miner"
    /\ stop' = TRUE
    /\ Goto(a, "join_miner")
    /\ UNCHANGED <<nodeMode, enabled, importVars, minerMode, paused, miner, chainVars, clientVars,
                   failed>>

SwitchToExternal(a) ==
    /\ pc[a] = "join_miner"
    /\ miner = "none"
    /\ minerMode' = "external"
    /\ paused' = FALSE
    /\ Goto(a, "set_follower")
    /\ UNCHANGED <<nodeMode, enabled, importVars, stop, miner, chainVars, clientVars, failed>>

SetFollower(a) ==
    /\ pc[a] = "set_follower"
    /\ nodeMode' = "follower"
    /\ Goto(a, "init")
    /\ UNCHANGED <<enabled, importVars, minerVars, chainVars, clientVars, failed>>

\* init_follower_importer up to the start of the importer; one that runs is kept.
InitImporter(a) ==
    /\ pc[a] = "init"
    /\ shutdown' = FALSE
    /\ IF shutdown THEN Goto(a, "start") ELSE Return(a)
    /\ UNCHANGED <<nodeMode, enabled, importer, runtime, taken, taskVars, minerVars, chainVars,
                   clientVars, failed>>

\* ImporterRuntime::start.
StartImporter(a) ==
    /\ pc[a] = "start"
    /\ instance' = instance + 1
    /\ cancelled' = FALSE
    /\ tasks' = "spawned"
    /\ worker' = "idle"
    /\ Goto(a, "set_importer")
    /\ UNCHANGED <<nodeMode, enabled, shutdown, importer, runtime, taken, panicked, next, minerVars,
                   chainVars, clientVars, failed>>

\* Parameters that do not parse, or a leader that does not answer: the node mode is taken
\* back, the miner's mode is not.
InitFails(a) ==
    /\ pc[a] \in {"init", "start"}
    /\ failed < MaxInitErrors
    /\ failed' = failed + 1
    /\ shutdown' = (shutdown \/ pc[a] = "start")
    /\ nodeMode' = "leader"
    /\ Return(a)
    /\ UNCHANGED <<enabled, importer, runtime, taken, taskVars, minerVars, chainVars, clientVars>>

SetImporter(a) ==
    /\ pc[a] = "set_importer"
    /\ importer' = TRUE
    /\ Goto(a, "set_runtime")
    /\ UNCHANGED <<nodeMode, enabled, shutdown, runtime, taken, taskVars, minerVars, chainVars,
                   clientVars, failed>>

SetRuntime(a) ==
    /\ pc[a] = "set_runtime"
    /\ runtime' = instance
    /\ Return(a)
    /\ UNCHANGED <<nodeMode, enabled, shutdown, importer, taken, taskVars, minerVars, chainVars,
                   clientVars, failed>>

AdminStep(a) ==
    \/ ShutdownImporter(a) \/ TakeRuntime(a) \/ SignalShutdown(a) \/ JoinRuntime(a)
    \/ WaitForImporter(a) \/ CheckInterval(a) \/ StartIntervalMining(a) \/ SetLeader(a)
    \/ CheckPending(a) \/ CheckExternal(a) \/ CancelMiner(a) \/ SwitchToExternal(a)
    \/ SetFollower(a) \/ InitImporter(a) \/ StartImporter(a) \/ SetImporter(a) \/ SetRuntime(a)

(***************************************************************************)
(* The importer: its runtime's thread, and the worker, which looks at the  *)
(* shutdown flag only before it waits for a block (importers/mod.rs).      *)
(***************************************************************************)
importRest == <<nodeMode, enabled, adminVars, shutdown, importer, runtime, taken, instance, cancelled,
                minerVars, clientVars, failed>>

\* Mutant of AcquirePermits: the import resumes at the last block.
AcquirePermitsAtMined ==
    /\ tasks = "spawned"
    /\ tasks' = "running"
    /\ worker' = "check"
    /\ next' = mined
    /\ UNCHANGED <<importRest, panicked, chainVars>>

\* start_importer reads where to resume and the tasks get their permits.
AcquirePermits ==
    /\ tasks = "spawned"
    /\ tasks' = "running"
    /\ worker' = "check"
    /\ next' = pending.number
    /\ UNCHANGED <<importRest, panicked, chainVars>>

\* The tasks end by the flag, or the runtime drops them where they wait.
TasksEnd ==
    /\ \/ worker = "check" /\ shutdown
       \/ worker \in {"idle", "check", "wait"} /\ cancelled
    /\ tasks # "none"
    /\ tasks' = "none"
    /\ worker' = "idle"
    /\ UNCHANGED <<importRest, next, panicked, chainVars>>

ReceiveBlock ==
    /\ worker = "check"
    /\ ~shutdown
    /\ worker' = "wait"
    /\ UNCHANGED <<importRest, tasks, next, panicked, chainVars>>

\* No block within the timeout.
ReceiveTimeout ==
    /\ worker = "wait"
    /\ worker' = "check"
    /\ UNCHANGED <<importRest, tasks, next, panicked, chainVars>>

\* execute_external_block sets the pending header and executes; what is pending stays.
ExecuteExternal ==
    /\ worker = "wait"
    /\ next <= MaxBlock
    /\ pending' = [pending EXCEPT !.number = next, !.stale = pending.txs]
    /\ worker' = "mine"
    /\ UNCHANGED <<importRest, tasks, next, panicked, finished, mined, committed, mixed>>

\* mine_external.  A transaction executed under another header has, in general, another
\* timestamp, and apply_external panics after the pending block was finished.
MineExternal ==
    /\ worker = "mine"
    /\ pending' = NewPending(pending.number + 1)
    /\ finished' = pending.txs
    /\ \/ /\ worker' = "commit"
          /\ UNCHANGED <<tasks, panicked>>
       \/ /\ pending.stale # {}
          /\ worker' = "idle"
          /\ tasks' = "none"
          /\ panicked' = panicked \cup {instance}
    /\ UNCHANGED <<importRest, next, mined, committed, mixed>>

\* The only block save_block takes; any other shuts the node down, and nothing follows.
CommitExternal ==
    /\ worker = "commit"
    /\ next = mined + 1
    /\ mined' = next
    /\ next' = next + 1
    /\ mixed' = mixed \cup finished
    /\ finished' = {}
    /\ worker' = "check"
    /\ UNCHANGED <<importRest, tasks, panicked, pending, committed>>

ImporterStep ==
    \/ AcquirePermits \/ TasksEnd \/ ReceiveBlock \/ ReceiveTimeout \/ ExecuteExternal
    \/ MineExternal \/ CommitExternal

(***************************************************************************)
(* The interval miner's thread.                                            *)
(***************************************************************************)
minerRest == <<nodeMode, enabled, adminVars, importVars, minerMode, paused, stop, clientVars, mixed, failed>>

\* Cancellation and pause are looked at before the block is mined.
Tick ==
    /\ miner = "idle"
    /\ ~stop /\ ~paused
    /\ pending.number <= MaxBlock
    /\ miner' = "mine"
    /\ UNCHANGED <<minerRest, pending, finished, mined, committed>>

MineLocal ==
    /\ miner = "mine"
    /\ finished' = pending.txs
    /\ pending' = NewPending(pending.number + 1)
    /\ miner' = "commit"
    /\ UNCHANGED <<minerRest, mined, committed>>

\* commit_retry: a number that does not follow is tried for ever.
CommitLocal ==
    /\ miner = "commit"
    /\ pending.number = mined + 2
    /\ mined' = mined + 1
    /\ committed' = committed \cup finished
    /\ finished' = {}
    /\ miner' = "idle"
    /\ UNCHANGED <<minerRest, pending>>

MinerEnds ==
    /\ miner = "idle"
    /\ stop
    /\ miner' = "none"
    /\ UNCHANGED <<minerRest, pending, finished, mined, committed>>

MinerStep == Tick \/ MineLocal \/ CommitLocal \/ MinerEnds

(***************************************************************************)
(* eth_sendRawTransaction: the switch, then the node's mode, then the      *)
(* execution, each read once.                                              *)
(***************************************************************************)
clientRest == <<nodeMode, enabled, adminVars, importVars, minerVars, finished, mined, committed, mixed, failed>>

CheckEnabled(c) ==
    /\ reply[c] = "new"
    /\ reply' = [reply EXCEPT ![c] = IF enabled THEN "enabled" ELSE "disabled"]
    /\ UNCHANGED <<clientRest, pending, late>>

CheckMode(c) ==
    /\ reply[c] = "enabled"
    /\ reply' = [reply EXCEPT ![c] = IF nodeMode = "leader" THEN "local"
                                     ELSE IF importer THEN "forwarded" ELSE "unavailable"]
    /\ UNCHANGED <<clientRest, pending, late>>

\* Whether nothing looks for pending transactions any more before the node follows.
PastPendingChecks ==
    \/ minerMode = "external"
    \/ \E a \in Admins : pc[a] \in {"stop_miner", "join_miner"}

ExecuteLocal(c) ==
    /\ reply[c] = "local"
    /\ reply' = [reply EXCEPT ![c] = "ok"]
    /\ pending' = [pending EXCEPT !.txs = @ \cup {c}]
    /\ late' = IF PastPendingChecks THEN late \cup {c} ELSE late
    /\ UNCHANGED clientRest

ClientStep(c) == CheckEnabled(c) \/ CheckMode(c) \/ ExecuteLocal(c)

Next ==
    \/ \E b \in BOOLEAN : SetTransactionsEnabled(b) \/ SetPaused(b)
    \/ \E a \in Admins : \/ \E to \in {"leader", "follower"} : BeginChange(a, to)
                         \/ BeginShutdown(a)
                         \/ InitFails(a)
                         \/ AdminStep(a)
    \/ ImporterStep
    \/ MinerStep
    \/ \E c \in Clients : ClientStep(c)

Spec == Init /\ [][Next]_vars

\* Every task that can run does: the runtimes and the miner's thread are never starved.
FairSpec ==
    /\ Spec
    /\ \A a \in Admins : WF_vars(AdminStep(a))
    /\ WF_vars(AcquirePermits \/ TasksEnd \/ ReceiveTimeout \/ MineExternal \/ CommitExternal)
    /\ WF_vars(MineLocal \/ CommitLocal \/ MinerEnds)

-----------------------------------------------------------------------------
(***************************************************************************)
(* Properties.                                                             *)
(***************************************************************************)
\* A node never imports a block while its own miner's thread lives, whatever calls of
\* administrators overlap, and starts neither of them next to the tasks of an importer:
\* changeToLeader waits for the tasks' permits (globals.rs:246) and
\* switch_to_external_mode joins the miner before the importer is started (miner.rs:149).
SingleProducer ==
    /\ worker \in {"mine", "commit"} => miner = "none"
    /\ \A a \in Admins : pc[a] \in {"start_miner", "set_leader", "start"} => tasks = "none"

\* Through any sequence of mode changes the pending number is one past the mined one, two
\* past it while a block is in hand, and the imported block is the next one: the block of
\* a new producer is always accepted (stratus_storage.rs:262), as long as no transaction
\* came in after the checks for pending ones.
NumbersFollow ==
    late = {} => /\ worker = "commit" => next = mined + 1
                 /\ pending.number = mined + (IF "commit" \in {worker, miner} THEN 2 ELSE 1)

\* No transaction answered "ok" before the checks for pending ones is left out of the
\* leader's last blocks when the node becomes a follower (server.rs:632, 763).
DrainedBeforeFollowing ==
    nodeMode = "follower" /\ minerMode = "external"
        => \A c \in Clients \ late : reply[c] = "ok" => c \in committed

\* "Local transactions are not allowed to be part of the block." (miner.rs:246)
NoLocalInExternal == mixed = {}

\* A mode change that begins ends, its permit with it, unless a late transaction keeps the
\* importer or the miner from ever finishing.
ModeChangeEnds == change # None ~> (change = None \/ late # {})
=============================================================================
