------------------------------ MODULE Importer ------------------------------
(***************************************************************************)
(* The follower's import pipeline (follower/importer): the number fetcher  *)
(* that follows the leader's head, the fetcher that downloads blocks in    *)
(* parallel and passes them on in order through a bounded channel, and the *)
(* worker that imports them, in its three forms: replication of a block    *)
(* with its changes, re-execution of a block, and the fake leader.         *)
(*                                                                         *)
(* One account stands for the replicated state.  A block changes some of   *)
(* its fields; block n leaves n + 1 in the fields it changes.              *)
(***************************************************************************)
EXTENDS Integers, Sequences, FiniteSets

CONSTANTS
    Boots,          \* the configurations a process may boot with: mode, Kafka, stop_at_block
    Fields,         \* nonce, balance, bytecode
    CommitErrors,   \* whether a write of the database may fail
    MaxBatch,       \* blocks requested at once (1,000)
    Parallel,       \* PARALLEL_BLOCKS
    Backlog,        \* capacity of the channel to the worker (10,000)
    MaxAllowedLag,  \* MAX_ALLOWED_LAG_BLOCKS
    MaxHead,        \* bound: blocks the leader mines
    MaxErrors,      \* bound: failed imports
    MaxCancels,     \* bound: stratus_shutdownImporter calls
    MaxCrashes,     \* bound: crashes of the follower
    Reinit,         \* whether an operator calls stratus_initImporter
    Unset           \* no value

ASSUME ImporterAssumption ==
    /\ Unset \notin Nat
    /\ Boots \subseteq [mode : {"replication", "reexecution", "fake"}, kafka : BOOLEAN,
                        stopAt : Nat \cup {Unset}]
    /\ {CommitErrors, Reinit} \subseteq BOOLEAN
    /\ {MaxBatch, Parallel, Backlog} \subseteq Nat \ {0}
    /\ {MaxAllowedLag, MaxHead, MaxErrors, MaxCancels, MaxCrashes} \subseteq Nat

VARIABLES
    leader,     \* the leader's chain: the fields each block changed
    known,      \* EXTERNAL_RPC_CURRENT_BLOCK
    heard,      \* whether LATEST_FETCHED_BLOCK_TIME is recent
    shutdown,   \* IMPORTER_SHUTDOWN
    alive,      \* the importer's tasks that are running
    boot,       \* the process's configuration
    setup,      \* how the running importer was started
    next,       \* importer_block_number of the fetcher
    tasks,      \* the fetcher's batch, in order
    backlog,    \* the channel to the worker
    pc, item,   \* where the worker is, and the block it imports
    changes,    \* what the worker is about to commit for the account
    pending,    \* number of the pending block
    latest,     \* account in the temporary storage's last finished block
    blocks,     \* RocksDB: blocks by number
    mined,      \* the mined block number
    account,    \* RocksDB: the account
    events,     \* block whose events each Kafka delivery carried
    healthy,    \* the last health check
    errors, cancels, crashes

netVars == <<leader, known, heard>>
setupVars == <<boot, setup>>
fetchVars == <<next, tasks>>
workVars == <<pc, item, changes>>
tempVars == <<pending, latest>>
permVars == <<blocks, mined, account>>
boundVars == <<errors, cancels, crashes>>
vars == <<netVars, shutdown, alive, setupVars, fetchVars, backlog, workVars, tempVars, permVars, events,
          healthy, boundVars>>

Tasks == {"numbers", "fetcher", "worker"}
NoItem == [number |-> 0, changes |-> [f \in Fields |-> Unset]]
NoAccount == [f \in {} |-> 0]

(***************************************************************************)
(* The leader: block n changes the fields leader[n + 1].                   *)
(***************************************************************************)
Block(n) == leader[n + 1]

\* The leader's account before block n.
LeaderAccount(n) ==
    [f \in Fields |->
        LET writers == {i \in 1..n : f \in leader[i]}
        IN  IF writers = {} THEN 0 ELSE CHOOSE i \in writers : \A j \in writers : j <= i]

Init ==
    /\ leader = <<>>
    /\ known = 0
    /\ heard = FALSE
    /\ shutdown = FALSE
    /\ alive = {}
    /\ boot \in Boots
    /\ setup = boot
    /\ next = 0
    /\ tasks = <<>>
    /\ backlog = <<>>
    /\ pc = "idle"
    /\ item = NoItem
    /\ changes = NoAccount
    /\ pending = 0
    /\ latest = NoAccount
    /\ blocks = [n \in {} |-> {}]
    /\ mined = 0
    /\ account = [f \in Fields |-> 0]
    /\ events = <<>>
    /\ healthy = FALSE
    /\ errors = 0
    /\ cancels = 0
    /\ crashes = 0

LeaderMine(fs) ==
    /\ Len(leader) < MaxHead
    /\ leader' = Append(leader, fs)
    /\ UNCHANGED <<known, heard, setupVars, shutdown, alive, fetchVars, backlog, workVars, tempVars,
                   permVars, events, healthy, boundVars>>

(***************************************************************************)
(* Start.  The fetcher resumes at the pending block's number.              *)
(***************************************************************************)

\* read_block_number_to_resume_import.
ResumeFrom == pending

Start(how) ==
    /\ alive = {}
    /\ pc = "idle"
    /\ shutdown' = FALSE
    /\ alive' = Tasks
    /\ setup' = how
    /\ next' = ResumeFrom
    /\ tasks' = <<>>
    /\ backlog' = <<>>
    /\ pc' = "recv"
    /\ UNCHANGED <<netVars, boot, item, changes, tempVars, permVars, events, healthy, boundVars>>

\* ImporterConfig::init when the process boots.
Boot ==
    /\ ~shutdown
    /\ Start(boot)

\* stratus_initImporter: always re-execution, no Kafka connector, no target.
InitImporter ==
    /\ Reinit
    /\ boot.mode # "fake"
    /\ shutdown
    /\ Start([mode |-> "reexecution", kafka |-> FALSE, stopAt |-> Unset])

(***************************************************************************)
(* The number fetcher: a newHeads event, which may be late, or a poll.     *)
(***************************************************************************)
SetExternalCurrent(n) ==
    /\ "numbers" \in alive
    /\ n < Len(leader)
    /\ known' = IF n > known THEN n ELSE known
    /\ heard' = TRUE
    /\ UNCHANGED <<leader, setupVars, shutdown, alive, fetchVars, backlog, workVars, tempVars, permVars,
                   events, healthy, boundVars>>

\* Four seconds pass without news from the leader.
HeardExpires ==
    /\ heard
    /\ heard' = FALSE
    /\ UNCHANGED <<leader, setupVars, known, shutdown, alive, fetchVars, backlog, workVars, tempVars,
                   permVars, events, healthy, boundVars>>

(***************************************************************************)
(* The fetcher.                                                            *)
(***************************************************************************)
\* Mutant of BlocksToFetch: the leader's head is left out.
BlocksToFetchExclusive == IF known - next < MaxBatch THEN known - next ELSE MaxBatch

\* count_to, capped.
BlocksToFetch == IF known - next + 1 < MaxBatch THEN known - next + 1 ELSE MaxBatch

\* The outer loop of DataFetcher::run: a new batch once the last one was passed on.
FetchBatch ==
    /\ "fetcher" \in alive
    /\ tasks = <<>>
    /\ ~shutdown
    /\ next <= known
    /\ tasks' = [i \in 1..BlocksToFetch |-> [number |-> next + i - 1, done |-> FALSE]]
    /\ next' = next + BlocksToFetch
    /\ UNCHANGED <<netVars, setupVars, shutdown, alive, backlog, workVars, tempVars, permVars, events,
                   healthy, boundVars>>

\* fetch_with_retry of one of the first Parallel tasks gets an answer.
FetchBlock(i) ==
    /\ "fetcher" \in alive
    /\ i \in DOMAIN tasks
    /\ i <= Parallel
    /\ ~tasks[i].done
    /\ tasks[i].number < Len(leader)
    /\ tasks' = [tasks EXCEPT ![i].done = TRUE]
    /\ UNCHANGED <<netVars, setupVars, shutdown, alive, next, backlog, workVars, tempVars, permVars,
                   events, healthy, boundVars>>

\* Mutant of PostProcess: the fetcher completes the changes with the account as it is now.
PostProcessCompleting(n) ==
    [number |-> n, changes |-> [f \in Fields |-> IF f \in Block(n) THEN n + 1 ELSE account[f]]]

\* State<Incomplete>: what the block changed, the rest unset.
PostProcess(n) ==
    [number |-> n, changes |-> [f \in Fields |-> IF f \in Block(n) THEN n + 1 ELSE Unset]]

\* buffered() yields the answers in the order of the tasks.
NextFetched == {i \in DOMAIN tasks : i = 1 /\ tasks[i].done}

\* The inner loop; the worker's end of the channel may be gone.
PassOn ==
    /\ "fetcher" \in alive
    /\ \E i \in NextFetched :
          \/ /\ "worker" \in alive
             /\ Len(backlog) < Backlog
             /\ backlog' = Append(backlog, PostProcess(tasks[i].number))
             /\ tasks' = SubSeq(tasks, 1, i - 1) \o SubSeq(tasks, i + 1, Len(tasks))
             /\ UNCHANGED alive
          \/ /\ "worker" \notin alive
             /\ alive' = alive \ {"fetcher"}
             /\ tasks' = <<>>
             /\ UNCHANGED backlog
    /\ UNCHANGED <<netVars, setupVars, shutdown, next, workVars, tempVars, permVars, events, healthy,
                   boundVars>>

\* post_process refuses a block whose receipts do not match its transactions.
PostProcessFails ==
    /\ setup.mode # "replication"
    /\ "fetcher" \in alive
    /\ NextFetched # {}
    /\ errors < MaxErrors
    /\ errors' = errors + 1
    /\ alive' = alive \ {"fetcher"}
    /\ tasks' = <<>>
    /\ UNCHANGED <<netVars, setupVars, shutdown, next, backlog, workVars, tempVars, permVars, events,
                   healthy, cancels, crashes>>

(***************************************************************************)
(* The worker.                                                             *)
(***************************************************************************)
WorkerEnds ==
    /\ alive' = alive \ {"worker"}
    /\ pc' = "idle"
    /\ backlog' = <<>>

PastTarget(n) == setup.stopAt # Unset /\ n > setup.stopAt

\* ImporterWorker::run: the next block, unless it lies past the target.
Receive ==
    /\ pc = "recv"
    /\ ~shutdown
    /\ backlog # <<>>
    /\ \/ /\ PastTarget(Head(backlog).number)
          /\ shutdown' = TRUE
          /\ WorkerEnds
          /\ UNCHANGED item
       \/ /\ ~PastTarget(Head(backlog).number)
          /\ item' = Head(backlog)
          /\ backlog' = Tail(backlog)
          /\ pc' = IF setup.mode = "replication" THEN "kafka" ELSE "execute"
          /\ UNCHANGED <<shutdown, alive>>
    /\ UNCHANGED <<netVars, setupVars, fetchVars, changes, tempVars, permVars, events, healthy,
                   boundVars>>

\* The fetcher is gone and the channel empty.
ChannelClosed ==
    /\ pc = "recv"
    /\ ~shutdown
    /\ backlog = <<>>
    /\ "fetcher" \notin alive
    /\ WorkerEnds
    /\ UNCHANGED <<netVars, setupVars, shutdown, fetchVars, item, changes, tempVars, permVars, events,
                   healthy, boundVars>>

\* Every task looks at IMPORTER_SHUTDOWN at the top of its loop.
TaskShutdown(t) ==
    /\ shutdown
    /\ t \in alive
    /\ t = "worker" => pc = "recv"
    /\ t = "fetcher" => tasks = <<>>
    /\ alive' = alive \ {t}
    /\ pc' = IF t = "worker" THEN "idle" ELSE pc
    /\ backlog' = IF t = "worker" THEN <<>> ELSE backlog
    /\ UNCHANGED <<netVars, setupVars, shutdown, fetchVars, item, changes, tempVars, permVars, events,
                   healthy, boundVars>>

\* The account a transaction executed on the follower reads.
View == [f \in Fields |-> IF f \in DOMAIN latest THEN latest[f] ELSE account[f]]

\* execute_external_block, or the fake leader's local executions: the header of the pending
\* block is set from the external one and the block's transactions are executed on View.
ExecuteBlock ==
    /\ pc = "execute"
    /\ pending' = item.number
    /\ changes' = [f \in Fields |-> IF f \in Block(item.number) THEN item.number + 1 ELSE View[f]]
    /\ pc' = "mine"
    /\ UNCHANGED <<netVars, setupVars, shutdown, alive, fetchVars, backlog, item, latest, permVars,
                   events, healthy, boundVars>>

\* mine_external and mine_local: the pending block is finished.
MineBlock ==
    /\ pc = "mine"
    /\ latest' = changes
    /\ pending' = pending + 1
    /\ pc' = IF setup.mode = "fake" THEN "compare" ELSE "kafka"
    /\ UNCHANGED <<netVars, setupVars, shutdown, alive, fetchVars, backlog, item, changes, permVars,
                   events, healthy, boundVars>>

\* The fake leader's block and changes are those of the leader.
Compare ==
    /\ pc = "compare"
    /\ pc' = "commit"
    /\ UNCHANGED <<netVars, setupVars, shutdown, alive, fetchVars, backlog, item, changes, tempVars,
                   permVars, events, healthy, boundVars>>

\* Mutant of SendToKafka: a failed delivery is not an error.
SendToKafkaUnchecked ==
    /\ pc = "kafka"
    /\ events' \in {events, Append(events, item.number)}
    /\ pc' = IF setup.mode = "replication" THEN "complete" ELSE "commit"
    /\ UNCHANGED <<netVars, setupVars, shutdown, alive, fetchVars, backlog, item, changes, tempVars,
                   permVars, healthy, boundVars>>

\* send_block_to_kafka, awaited until every event of the block was delivered.
SendToKafka ==
    /\ pc = "kafka"
    /\ events' = IF setup.kafka THEN Append(events, item.number) ELSE events
    /\ pc' = IF setup.mode = "replication" THEN "complete" ELSE "commit"
    /\ UNCHANGED <<netVars, setupVars, shutdown, alive, fetchVars, backlog, item, changes, tempVars,
                   permVars, healthy, boundVars>>

\* State<Incomplete>::complete, then set_pending_header and finish_pending_block of the empty
\* pending block (CommitItem::ReplicationBlock).
CompleteAndFinish ==
    /\ pc = "complete"
    /\ changes' = [f \in Fields |-> IF item.changes[f] = Unset THEN account[f] ELSE item.changes[f]]
    /\ latest' = NoAccount
    /\ pending' = item.number + 1
    /\ pc' = "commit"
    /\ UNCHANGED <<netVars, setupVars, shutdown, alive, fetchVars, backlog, item, permVars, events,
                   healthy, boundVars>>

\* The checks of StratusStorage::save_block.
SaveBlockAccepts(n) == (n = 0 \/ n = mined + 1) /\ n < pending /\ n \notin DOMAIN blocks

\* commit_block: the account is written in full if the block changed any of its fields.
CommitBlock ==
    /\ pc = "commit"
    /\ SaveBlockAccepts(item.number)
    /\ blocks' = [n \in DOMAIN blocks \cup {item.number} |->
                     IF n = item.number THEN Block(n) ELSE blocks[n]]
    /\ account' = IF Block(item.number) = {} THEN account ELSE changes
    /\ mined' = item.number
    /\ pc' = "recv"
    /\ UNCHANGED <<netVars, setupVars, shutdown, alive, fetchVars, backlog, item, changes, tempVars,
                   events, healthy, boundVars>>

(***************************************************************************)
(* Failures.                                                               *)
(***************************************************************************)
\* Mutant of FirstPending: the block after the mined number, even if there is no block.
FirstPendingNext(m) == m + 1

\* compute_pending_block_number, with m the highest block of the database, or 0.
FirstPending(m) == IF DOMAIN blocks = {} THEN 0 ELSE m + 1

\* The process ends and a new one opens the database.
Reopen ==
    /\ known' = 0
    /\ heard' = FALSE
    /\ shutdown' = FALSE
    /\ alive' = {}
    /\ next' = 0
    /\ tasks' = <<>>
    /\ backlog' = <<>>
    /\ pc' = "idle"
    /\ item' = NoItem
    /\ changes' = NoAccount
    /\ latest' = NoAccount
    /\ mined' = IF DOMAIN blocks = {} THEN 0
                ELSE CHOOSE n \in DOMAIN blocks : \A m \in DOMAIN blocks : m <= n
    /\ pending' = FirstPending(mined')
    /\ healthy' = FALSE
    /\ UNCHANGED <<leader, setupVars, blocks, account>>

Crash ==
    /\ crashes < MaxCrashes
    /\ crashes' = crashes + 1
    /\ Reopen
    /\ UNCHANGED <<events, errors, cancels>>

\* The events of the block may have been delivered before the error, or the cancellation.
MaybeDelivered ==
    \/ UNCHANGED events
    \/ /\ pc = "kafka" /\ setup.kafka
       /\ events' = Append(events, item.number)

\* An import error ends the worker; some of them also call GlobalState::shutdown_from.
ShutsDown ==
    \/ setup.mode = "reexecution" /\ pc # "kafka"
    \/ setup.mode = "fake" /\ pc = "execute"

ImportFails ==
    /\ \/ pc \in {"execute", "complete", "compare"}
       \/ pc = "kafka" /\ setup.kafka
       \/ pc = "commit" /\ setup.mode # "fake" /\ (CommitErrors \/ ~SaveBlockAccepts(item.number))
    /\ errors < MaxErrors
    /\ errors' = errors + 1
    /\ MaybeDelivered
    /\ \/ /\ ShutsDown
          /\ Reopen
       \/ /\ ~ShutsDown
          /\ WorkerEnds
          /\ UNCHANGED <<netVars, setupVars, shutdown, fetchVars, item, changes, tempVars, permVars,
                         healthy>>
    /\ UNCHANGED <<cancels, crashes>>

\* stratus_shutdownImporter cancels the runtime: its tasks are dropped where they await,
\* the worker in recv or in the Kafka send.
CancelRuntime ==
    /\ boot.mode # "fake"
    /\ cancels < MaxCancels
    /\ alive # {}
    /\ pc \in {"idle", "recv"} \/ (pc = "kafka" /\ setup.kafka)
    /\ cancels' = cancels + 1
    /\ MaybeDelivered
    /\ shutdown' = TRUE
    /\ alive' = {}
    /\ tasks' = <<>>
    /\ backlog' = <<>>
    /\ pc' = "idle"
    /\ UNCHANGED <<netVars, setupVars, next, item, changes, tempVars, permVars, healthy, errors,
                   crashes>>

(***************************************************************************)
(* Server::update_health with Consensus::should_serve.                     *)
(***************************************************************************)
\* Mutant of ShouldServe: the distance to the leader is not looked at.
ShouldServeWhenHeard == ~shutdown /\ heard /\ mined <= known

ShouldServe == ~shutdown /\ heard /\ mined <= known /\ known - mined <= MaxAllowedLag

UpdateHealth ==
    /\ alive # {} \/ shutdown
    /\ healthy' = (boot.mode = "fake" \/ ShouldServe)
    /\ UNCHANGED <<netVars, setupVars, shutdown, alive, fetchVars, backlog, workVars, tempVars,
                   permVars, events, boundVars>>

FetcherNext ==
    \/ FetchBatch
    \/ \E i \in 1..Parallel : FetchBlock(i)
    \/ PassOn

WorkerNext ==
    \/ Receive \/ ChannelClosed \/ ExecuteBlock \/ MineBlock \/ Compare \/ SendToKafka
    \/ CompleteAndFinish \/ CommitBlock

Next ==
    \/ \E fs \in SUBSET Fields : LeaderMine(fs)
    \/ Boot
    \/ InitImporter
    \/ \E n \in 0..MaxHead - 1 : SetExternalCurrent(n)
    \/ HeardExpires
    \/ FetcherNext
    \/ PostProcessFails
    \/ WorkerNext
    \/ \E t \in Tasks : TaskShutdown(t)
    \/ ImportFails
    \/ CancelRuntime
    \/ Crash
    \/ UpdateHealth

Spec == Init /\ [][Next]_vars

\* The tasks run; the leader answers polls and block requests (both are retried forever); a
\* process that boots starts its importer.
Fairness ==
    /\ WF_vars(Boot)
    /\ WF_vars(leader # <<>> /\ SetExternalCurrent(Len(leader) - 1))
    /\ WF_vars(FetchBatch)
    /\ \A i \in 1..Parallel : WF_vars(FetchBlock(i))
    /\ WF_vars(PassOn)
    /\ WF_vars(WorkerNext)
    /\ \A t \in Tasks : WF_vars(TaskShutdown(t))
    /\ WF_vars(UpdateHealth)

FairSpec == Spec /\ Fairness

(***************************************************************************)
(* Properties                                                              *)
(***************************************************************************)
Height == Cardinality(DOMAIN blocks)

\* The follower's chain, from block 0 on.
Chain == [i \in 1..Height |-> IF i - 1 \in DOMAIN blocks THEN blocks[i - 1] ELSE Unset]

\* The follower implements Replica: its chain is a prefix of the leader's and grows one block
\* at a time, across failed imports, cancelled importers and crashes.
ReplicaOfLeader == INSTANCE Replica WITH Content <- SUBSET Fields, replica <- Chain
ImplementsReplica == ReplicaOfLeader!Spec

\* After each commit the account is the one the leader had after that block: fields a block
\* left alone are filled in from the block's own pre-state, although the fetcher ran ahead.
AccountMatches == account = LeaderAccount(Height)

\* No block is committed before its events were delivered: Kafka sees every block.
EventsBeforeCommit == setup.kafka => \A n \in DOMAIN blocks : \E i \in DOMAIN events : events[i] = n

\* The block the worker is about to commit is the one the storage expects next: no history of
\* failures, cancellations and restarts leads to a MinedNumberConflict.
CommitAccepted == pc = "commit" => SaveBlockAccepts(item.number)

BeyondTarget(n) == boot.stopAt # Unset /\ n > boot.stopAt

\* Only the worker is gone: an import error or a failed fetch ended it.
Stalled == "worker" \notin alive /\ "numbers" \in alive

\* Every block of the leader up to the target is eventually imported, also when the follower
\* crashes, unless an import error ends the worker for good.
CatchesUp ==
    \A n \in 0..MaxHead - 1 :
        (n < Len(leader)) ~> (n \in DOMAIN blocks \/ BeyondTarget(n) \/ Stalled)

\* A follower whose worker has ended stops serving once the leader is too far ahead.
StalledUnhealthy ==
    (Stalled /\ Len(leader) > mined + 1 + MaxAllowedLag) ~> (~healthy \/ ~Stalled)
=============================================================================
