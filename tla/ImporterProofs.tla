--------------------------- MODULE ImporterProofs ---------------------------
(***************************************************************************)
(* A follower implements Replica, for every kind of follower, size of the  *)
(* batches and of the channel, and any number of failures, cancellations   *)
(* and crashes, as long as the importer resumes at the first block that is *)
(* not in the database.                                                    *)
(***************************************************************************)
EXTENDS Importer, SequenceTheorems, FiniteSetTheorems, TLAPS

\* An operator who restarts the importer with stratus_initImporter finds the pending block one
\* ahead of the database if the worker was stopped between finish_pending_block and the end of
\* save_block: re-execution awaits Kafka there, and a failed write ends a replicating worker
\* there.  A process that boots again computes the pending block from the database.
Resumable ==
    Reinit => ~CommitErrors /\ \A b \in Boots : b.mode = "reexecution" => ~b.kafka

\* The first block that is not in the database.
NextBlock == IF DOMAIN blocks = {} THEN 0 ELSE mined + 1

Importing == pc \notin {"idle", "recv"}

\* The first block the worker has not taken from the channel.
Base == IF Importing THEN NextBlock + 1 ELSE NextBlock

Items == [number : Nat, changes : [Fields -> Nat \cup {Unset}]]
Fetches == [number : Nat, done : BOOLEAN]
Reinitialised == [mode |-> "reexecution", kafka |-> FALSE, stopAt |-> Unset]

Types ==
    /\ leader \in Seq(SUBSET Fields)
    /\ known \in Nat /\ next \in Nat /\ pending \in Nat /\ mined \in Nat
    /\ alive \subseteq Tasks
    /\ boot \in Boots
    /\ setup \in {boot, Reinitialised}
    /\ tasks \in Seq(Fetches)
    /\ backlog \in Seq(Items)
    /\ item \in Items
    /\ pc \in {"idle", "recv", "execute", "mine", "compare", "kafka", "complete", "commit"}

\* The database holds the leader's blocks up to the mined number, without a gap.
Prefix ==
    /\ DOMAIN blocks = {} \/ DOMAIN blocks = 0..mined
    /\ DOMAIN blocks = {} => mined = 0
    /\ \A n \in DOMAIN blocks : n < Len(leader) /\ blocks[n] = leader[n + 1]

\* What the channel and the fetcher hold are consecutive blocks, from the first one the worker
\* has not taken, and those that were fetched exist.
InChannel(base) ==
    \A i \in DOMAIN backlog : backlog[i].number = base + i - 1 /\ backlog[i].number < Len(leader)

InFetcher(base) ==
    /\ next = base + Len(tasks)
    /\ \A i \in DOMAIN tasks : /\ tasks[i].number = base + i - 1
                               /\ tasks[i].done => tasks[i].number < Len(leader)

\* The worker imports the first block that is missing; a shutdown ends every task, and nothing
\* else ends the number fetcher.
Pipeline ==
    /\ pc # "idle" <=> "worker" \in alive
    /\ ~shutdown => alive = {} \/ "numbers" \in alive
    /\ Importing => item.number = NextBlock /\ item.number < Len(leader)
    /\ pc # "idle" => InChannel(Base)
    /\ pc # "idle" /\ "fetcher" \in alive => InFetcher(Base + Len(backlog))

\* Where the importer would resume.
Resumes ==
    /\ alive = {} /\ ~shutdown => pending = NextBlock
    /\ pc = "complete" => setup.mode = "replication"
    /\ pc \in {"execute", "mine"} => setup.mode # "replication"
    /\ pc = "compare" => setup.mode = "fake"
    /\ pc = "mine" => pending = item.number
    /\ pc \in {"compare", "commit"} => pending = item.number + 1
    /\ pc = "kafka" /\ setup.mode # "replication" => pending = item.number + 1
    /\ Reinit /\ boot.mode # "fake" =>
         /\ ~Importing => pending = NextBlock
         /\ pc = "kafka" /\ setup.mode = "replication" => pending = NextBlock
         /\ pc = "complete" => pending = NextBlock

ReplicaInv == Types /\ Prefix /\ Pipeline /\ Resumes

(***************************************************************************)
(* The inductive invariant.                                                *)
(***************************************************************************)
\* The numbers the invariant speaks of are natural numbers.
LEMMA Numbers ==
    ASSUME Types
    PROVE  NextBlock \in Nat /\ Base \in Nat /\ Len(leader) \in Nat
BY DEF Types, NextBlock, Base

\* A process that has just opened an empty database.
LEMMA InitReplica == Init => ReplicaInv
<1> SUFFICES ASSUME Init PROVE ReplicaInv
  BY Zenon
<1>1. item \in Items
  BY Zenon DEF Init, NoItem, Items
<1>2. Types
  BY <1>1 DEF Init, Types, Tasks
<1>3. DOMAIN blocks = {} /\ mined = 0 /\ pending = 0 /\ pc = "idle" /\ alive = {} /\ setup = boot
  BY Zenon DEF Init
<1>4. QED
  BY <1>2, <1>3, Zenon DEF ReplicaInv, Prefix, Pipeline, Resumes, NextBlock, Importing

\* The block put behind the database's last one, if save_block accepts it.
LEMMA SaveExtends ==
    ASSUME Types, Prefix, item.number = NextBlock, item.number < Len(leader), CommitBlock
    PROVE  /\ Prefix' /\ NextBlock' = NextBlock + 1
           /\ mined' = NextBlock /\ DOMAIN blocks' = 0..NextBlock
<1>1. NextBlock \in Nat
  BY Numbers, Zenon
<1>2. /\ DOMAIN blocks' = DOMAIN blocks \cup {NextBlock} /\ mined' = NextBlock
      /\ blocks'[NextBlock] = leader[NextBlock + 1]
      /\ \A n \in DOMAIN blocks : n # NextBlock => blocks'[n] = blocks[n]
      /\ UNCHANGED leader
  BY Zenon DEF CommitBlock, Block, netVars
<1>3. DOMAIN blocks' = 0..NextBlock
  <2>1. CASE DOMAIN blocks = {}
    BY <1>2, <2>1 DEF NextBlock
  <2>2. CASE DOMAIN blocks # {}
    BY <1>2, <2>2 DEF NextBlock, Prefix, Types
  <2>3. QED
    BY <2>1, <2>2, Zenon
<1>4. DOMAIN blocks' # {} /\ NextBlock' = NextBlock + 1
  BY <1>1, <1>2, <1>3, Zenon DEF NextBlock
<1>5. \A n \in DOMAIN blocks' : n < Len(leader) /\ blocks'[n] = leader[n + 1]
  BY <1>2, Zenon DEF Prefix
<1>6. QED
  BY <1>2, <1>3, <1>4, <1>5, Zenon DEF Prefix

\* buffered() yields the first task, and the rest stays.
LEMMA TasksPassed ==
    ASSUME NEW S, NEW s \in Seq(S), s # <<>>
    PROVE  SubSeq(s, 1, 0) \o SubSeq(s, 2, Len(s)) = Tail(s)
<1>1. Len(s) \in Nat /\ Len(s) > 0
  OBVIOUS
<1>2. SubSeq(s, 1, 0) = <<>>
  BY <1>1
<1>3. SubSeq(s, 2, Len(s)) = Tail(s)
  BY TailIsSubSeq, Zenon
<1>4. <<>> \o Tail(s) = Tail(s)
  BY <1>1, HeadTailProperties
<1>5. QED
  BY <1>2, <1>3, <1>4, Zenon

\* An empty batch and an empty channel.
LEMMA NoneSeqs == <<>> \in Seq(Fetches) /\ <<>> \in Seq(Items)
OBVIOUS

\* What the fetcher hands to the worker is an item.
LEMMA PostProcessType ==
    ASSUME NEW n \in Nat
    PROVE  PostProcess(n) \in Items /\ PostProcess(n).number = n
BY DEF PostProcess, Items

\* Every step keeps the types.
LEMMA TypesStep == ReplicaInv /\ [Next]_vars => Types'
<1> SUFFICES ASSUME ReplicaInv, [Next]_vars
             PROVE  Types'
  BY Zenon
<1> USE DEF ReplicaInv
<1>1. ASSUME NEW fs \in SUBSET Fields, LeaderMine(fs)
      PROVE  Types'
  BY <1>1 DEF LeaderMine, Types, setupVars, fetchVars, workVars, tempVars, permVars
<1>2. ASSUME Boot \/ InitImporter
      PROVE  Types'
  <2>1. Start(boot) \/ Start(Reinitialised)
    BY <1>2, Zenon DEF Boot, InitImporter, Reinitialised
  <2>2. alive' \subseteq Tasks /\ pc' = "recv" /\ next' = pending /\ tasks' = <<>> /\ backlog' = <<>>
    BY <2>1, Zenon DEF Start, ResumeFrom
  <2>3. UNCHANGED <<leader, known, boot, item, pending, mined>> /\ setup' \in {boot, Reinitialised}
    BY <2>1, Zenon DEF Start, netVars, tempVars, permVars
  <2>4. QED
    BY <2>2, <2>3 DEF Types
<1>3. ASSUME \/ \E n \in 0..MaxHead - 1 : SetExternalCurrent(n)
             \/ HeardExpires
             \/ UpdateHealth
             \/ UNCHANGED vars
      PROVE  Types'
  BY <1>3 DEF SetExternalCurrent, HeardExpires, UpdateHealth, vars, Types, netVars, setupVars,
     fetchVars, workVars, tempVars, permVars
<1>4. ASSUME FetchBatch
      PROVE  Types'
  <2>1. BlocksToFetch \in Nat
    BY <1>4, ImporterAssumption DEF FetchBatch, BlocksToFetch, Types
  <2>2. \A i \in 1..BlocksToFetch : [number |-> next + i - 1, done |-> FALSE] \in Fetches
    BY <2>1 DEF Types, Fetches
  <2>3. tasks' \in Seq(Fetches)
    BY <1>4, <2>1, <2>2 DEF FetchBatch
  <2>4. next' \in Nat
    BY <1>4, <2>1 DEF FetchBatch, Types
  <2>5. QED
    BY <1>4, <2>3, <2>4, Zenon DEF FetchBatch, Types, netVars, setupVars, workVars, tempVars,
       permVars
<1>5. ASSUME NEW i \in 1..Parallel, FetchBlock(i)
      PROVE  Types'
  <2> DEFINE e == [tasks[i] EXCEPT !.done = TRUE]
  <2>1. tasks \in Seq(Fetches) /\ i \in 1..Len(tasks) /\ tasks' = [tasks EXCEPT ![i] = e]
    BY <1>5 DEF FetchBlock, Types
  <2>2. e \in Fetches
    <3>1. tasks[i] \in Fetches
      BY <2>1
    <3>2. QED
      BY <3>1, Zenon DEF Fetches
  <2>3. tasks' \in Seq(Fetches)
    BY <2>1, <2>2, ExceptSeq, Zenon
  <2>4. QED
    BY <1>5, <2>3, Zenon DEF FetchBlock, Types, netVars, setupVars, workVars, tempVars, permVars
<1>6. ASSUME PassOn
      PROVE  Types'
  <2>1. /\ tasks # <<>> /\ tasks[1] \in Fetches
        /\ \/ /\ backlog' = Append(backlog, PostProcess(tasks[1].number))
              /\ tasks' = SubSeq(tasks, 1, 0) \o SubSeq(tasks, 2, Len(tasks))
              /\ UNCHANGED alive
           \/ /\ alive' = alive \ {"fetcher"}
              /\ tasks' = <<>>
              /\ UNCHANGED backlog
    BY <1>6 DEF PassOn, NextFetched, Types
  <2>2. tasks' \in Seq(Fetches)
    <3>1. tasks \in Seq(Fetches) /\ Tail(tasks) \in Seq(Fetches)
      BY <2>1, HeadTailProperties, Zenon DEF Types
    <3>2. SubSeq(tasks, 1, 0) \o SubSeq(tasks, 2, Len(tasks)) = Tail(tasks)
      BY <2>1, <3>1, TasksPassed, Zenon
    <3>3. QED
      BY <2>1, <3>1, <3>2, NoneSeqs, Zenon
  <2>3. backlog' \in Seq(Items)
    <3>1. PostProcess(tasks[1].number) \in Items
      BY <2>1, PostProcessType, Zenon DEF Fetches
    <3>2. backlog \in Seq(Items)
      BY Zenon DEF Types
    <3>3. Append(backlog, PostProcess(tasks[1].number)) \in Seq(Items)
      BY <3>1, <3>2, AppendProperties, Zenon
    <3>4. QED
      BY <2>1, <3>2, <3>3, Zenon
  <2>4. QED
    BY <1>6, <2>1, <2>2, <2>3, Zenon DEF PassOn, Types, netVars, setupVars, workVars, tempVars,
       permVars
<1>7. ASSUME PostProcessFails \/ ChannelClosed \/ CancelRuntime \/ \E t \in Tasks : TaskShutdown(t)
      PROVE  Types'
  <2>1. /\ alive' \subseteq alive
        /\ tasks' = tasks \/ tasks' = <<>>
        /\ backlog' = backlog \/ backlog' = <<>>
        /\ pc' = pc \/ pc' = "idle"
        /\ UNCHANGED <<leader, known, next, pending, mined, boot, setup, item>>
    BY <1>7, Zenon DEF PostProcessFails, ChannelClosed, CancelRuntime, TaskShutdown, WorkerEnds,
       netVars, setupVars, fetchVars, workVars, tempVars, permVars
  <2>2. tasks' \in Seq(Fetches) /\ backlog' \in Seq(Items)
    BY <2>1, NoneSeqs, Zenon DEF Types
  <2>3. QED
    BY <2>1, <2>2, Zenon DEF Types
<1>8. ASSUME Receive
      PROVE  Types'
  <2>1. backlog \in Seq(Items) /\ backlog # <<>>
    BY <1>8, Zenon DEF Receive, Types
  <2>2. Head(backlog) \in Items /\ Tail(backlog) \in Seq(Items)
    BY <2>1
  <2>3. QED
    <3>1. /\ alive' \subseteq alive
          /\ item' = item \/ item' = Head(backlog)
          /\ backlog' = Tail(backlog) \/ backlog' = <<>>
          /\ pc' \in {"idle", "kafka", "execute"}
          /\ UNCHANGED <<leader, known, next, pending, mined, boot, setup, tasks>>
      BY <1>8, Zenon DEF Receive, WorkerEnds, netVars, setupVars, fetchVars, tempVars, permVars
    <3>2. item' \in Items /\ backlog' \in Seq(Items)
      BY <2>2, <3>1, NoneSeqs, Zenon DEF Types
    <3>3. QED
      BY <3>1, <3>2, Zenon DEF Types
<1>9. ASSUME ExecuteBlock \/ MineBlock \/ Compare \/ SendToKafka \/ CompleteAndFinish \/ CommitBlock
      PROVE  Types'
  <2>1. UNCHANGED <<leader, known, next, alive, boot, setup, tasks, backlog, item>>
    BY <1>9, Zenon DEF ExecuteBlock, MineBlock, Compare, SendToKafka, CompleteAndFinish,
       CommitBlock,
       netVars, setupVars, fetchVars
  <2>2. /\ pending' \in {pending, pending + 1, item.number, item.number + 1}
        /\ mined' \in {mined, item.number}
        /\ pc' \in {"recv", "mine", "compare", "kafka", "complete", "commit"}
    BY <1>9, Zenon DEF ExecuteBlock, MineBlock, Compare, SendToKafka, CompleteAndFinish,
       CommitBlock,
       tempVars, permVars
  <2>3. item.number \in Nat
    BY Zenon DEF Types, Items
  <2>4. pending' \in Nat /\ mined' \in Nat
    BY <2>2, <2>3 DEF Types
  <2>5. QED
    BY <2>1, <2>2, <2>4, Zenon DEF Types
<1>10. ASSUME Reopen
      PROVE  Types'
  <2>1. mined' \in Nat
    <3>1. \A m \in Nat : DOMAIN blocks = 0..m =>
            (CHOOSE n \in DOMAIN blocks : \A k \in DOMAIN blocks : k <= n) \in DOMAIN blocks
      OBVIOUS
    <3>2. /\ DOMAIN blocks = {} \/ DOMAIN blocks = 0..mined
          /\ mined \in Nat /\ DOMAIN blocks \subseteq Nat
      BY DEF Prefix, Types
    <3>3. mined' = IF DOMAIN blocks = {} THEN 0
                   ELSE CHOOSE n \in DOMAIN blocks : \A k \in DOMAIN blocks : k <= n
      BY <1>10, Zenon DEF Reopen
    <3>4. CASE DOMAIN blocks = {}
      BY <3>3, <3>4, Zenon
    <3>5. CASE DOMAIN blocks # {}
      <4>1. mined' \in DOMAIN blocks
        BY <3>1, <3>2, <3>3, <3>5, Zenon
      <4>2. QED
        BY <3>2, <4>1, Zenon
    <3>6. QED
      BY <3>4, <3>5, Zenon
  <2>2. pending' \in Nat
    BY <1>10, <2>1 DEF Reopen, FirstPending
  <2>3. item' \in Items
    BY <1>10, Zenon DEF Reopen, NoItem, Items
  <2>4. QED
    BY <1>10, <2>1, <2>2, <2>3 DEF Reopen, Types, setupVars, Tasks
<1>11. ASSUME Crash \/ ImportFails
      PROVE  Types'
  <2>1. \/ Reopen
        \/ /\ alive' \subseteq alive /\ pc' = "idle" /\ backlog' = <<>>
           /\ UNCHANGED <<leader, known, next, pending, mined, boot, setup, tasks, item>>
    BY <1>11, Zenon DEF Crash, ImportFails, WorkerEnds, netVars, setupVars, fetchVars, tempVars,
       permVars
  <2>2. CASE ~Reopen
    BY <2>1, <2>2, NoneSeqs, Zenon DEF Types
  <2>3. QED
    BY <1>10, <2>2, Zenon
<1>12. QED
  BY <1>1, <1>2, <1>3, <1>4, <1>5, <1>6, <1>7, <1>8, <1>9, <1>11, Zenon DEF Next, FetcherNext,
     WorkerNext

\* Every step but three leaves the leader's chain and the follower's alone.
LEMMA ChainsKept ==
    ASSUME [Next]_vars
    PROVE  \/ UNCHANGED <<leader, blocks, mined>>
           \/ \E fs \in SUBSET Fields : LeaderMine(fs)
           \/ CommitBlock
           \/ Reopen
BY Zenon DEF Next, Boot, InitImporter, Start, SetExternalCurrent, HeardExpires, FetcherNext,
   FetchBatch,
   FetchBlock, PassOn, PostProcessFails, WorkerNext, Receive, ChannelClosed, ExecuteBlock, MineBlock,
   Compare, SendToKafka, CompleteAndFinish, TaskShutdown, ImportFails, CancelRuntime, Crash,
   UpdateHealth, vars, netVars, permVars

\* The leader's chain only grows.
LEMMA LeaderGrows ==
    ASSUME Types, NEW fs \in SUBSET Fields, LeaderMine(fs)
    PROVE  /\ Len(leader') = Len(leader) + 1
           /\ \A i \in 1..Len(leader) : leader'[i] = leader[i]
BY AppendProperties DEF Types, LeaderMine

\* Opening the database finds the mined number again.
LEMMA ReopenFinds ==
    ASSUME Types, Prefix, Reopen
    PROVE  /\ UNCHANGED <<leader, blocks, mined>> /\ pending' = NextBlock
<1>1. UNCHANGED <<leader, blocks>>
  BY Zenon DEF Reopen
<1>2. mined' = mined
  <2>1. CASE DOMAIN blocks = {}
    BY <2>1, Zenon DEF Reopen, Prefix
  <2>2. CASE DOMAIN blocks # {}
    <3>1. DOMAIN blocks = 0..mined /\ mined \in Nat
      BY <2>2, Zenon DEF Prefix, Types
    <3>2. ASSUME NEW n \in 0..mined, \A m \in 0..mined : m <= n
          PROVE  n = mined
      BY <3>1, <3>2
    <3>3. mined \in 0..mined /\ \A m \in 0..mined : m <= mined
      BY <3>1
    <3>4. (CHOOSE n \in 0..mined : \A m \in 0..mined : m <= n) = mined
      BY <3>2, <3>3, Zenon
    <3>5. QED
      BY <2>2, <3>1, <3>4, Zenon DEF Reopen
  <2>3. QED
    BY <2>1, <2>2, Zenon
<1>3. QED
  BY <1>1, <1>2, Zenon DEF Reopen, FirstPending, NextBlock

\* Every step keeps the database a prefix of the leader's chain.
LEMMA PrefixStep == ReplicaInv /\ [Next]_vars => Prefix'
<1> SUFFICES ASSUME ReplicaInv, [Next]_vars
             PROVE  Prefix'
  BY Zenon
<1> USE DEF ReplicaInv
<1>1. CASE UNCHANGED <<leader, blocks, mined>>
  BY <1>1, Zenon DEF Prefix
<1>2. ASSUME NEW fs \in SUBSET Fields, LeaderMine(fs)
      PROVE  Prefix'
  <2>1. UNCHANGED <<blocks, mined>>
    BY <1>2, Zenon DEF LeaderMine, permVars
  <2>2. /\ Len(leader') = Len(leader) + 1 /\ Len(leader) \in Nat
        /\ \A i \in 1..Len(leader) : leader'[i] = leader[i]
    BY <1>2, LeaderGrows DEF Types
  <2>3. \A n \in DOMAIN blocks : n \in Nat
    BY DEF Prefix
  <2>4. QED
    BY <2>1, <2>2, <2>3 DEF Prefix
<1>3. CASE CommitBlock
  <2>1. pc = "commit"
    BY <1>3, Zenon DEF CommitBlock
  <2>2. item.number = NextBlock /\ item.number < Len(leader)
    BY <2>1, Zenon DEF Pipeline, Importing
  <2>3. QED
    BY <1>3, <2>2, SaveExtends, Zenon
<1>4. CASE Reopen
  BY <1>1, <1>4, ReopenFinds, Zenon
<1>5. QED
  BY <1>1, <1>2, <1>3, <1>4, ChainsKept, Zenon

(***************************************************************************)
(* The pipeline.                                                           *)
(***************************************************************************)

\* The tasks that are alive, in every step.
LEMMA AliveStep ==
    ReplicaInv /\ [Next]_vars => /\ (pc # "idle" <=> "worker" \in alive)'
                                 /\ (~shutdown => alive = {} \/ "numbers" \in alive)'
<1> SUFFICES ASSUME ReplicaInv, [Next]_vars
             PROVE  /\ (pc # "idle" <=> "worker" \in alive)'
                    /\ (~shutdown => alive = {} \/ "numbers" \in alive)'
  BY Zenon
<1> USE DEF ReplicaInv, Pipeline
<1>1. ASSUME UNCHANGED <<pc, alive, shutdown>>
      PROVE  /\ (pc # "idle" <=> "worker" \in alive)'
             /\ (~shutdown => alive = {} \/ "numbers" \in alive)'
  BY <1>1, Zenon
<1>2. ASSUME \/ \E fs \in SUBSET Fields : LeaderMine(fs)
             \/ \E n \in 0..MaxHead - 1 : SetExternalCurrent(n)
             \/ HeardExpires \/ FetchBatch \/ UpdateHealth \/ UNCHANGED vars
             \/ \E i \in 1..Parallel : FetchBlock(i)
      PROVE  UNCHANGED <<pc, alive, shutdown>>
  BY <1>2, Zenon DEF LeaderMine, SetExternalCurrent, HeardExpires, FetchBatch, FetchBlock,
     UpdateHealth,
     vars, workVars
<1>3. ASSUME \/ ExecuteBlock \/ MineBlock \/ Compare \/ SendToKafka \/ CompleteAndFinish \/ CommitBlock
      PROVE  UNCHANGED <<alive, shutdown>> /\ pc # "idle" /\ pc' # "idle"
  BY <1>3, Zenon DEF ExecuteBlock, MineBlock, Compare, SendToKafka, CompleteAndFinish, CommitBlock
<1>4. ASSUME Boot \/ InitImporter
      PROVE  alive' = Tasks /\ pc' = "recv"
  BY <1>4, Zenon DEF Boot, InitImporter, Start
<1>5. ASSUME PassOn \/ PostProcessFails
      PROVE  UNCHANGED <<pc, shutdown>> /\ (alive' = alive \/ alive' = alive \ {"fetcher"})
  BY <1>5, Zenon DEF PassOn, PostProcessFails, workVars
<1>6. ASSUME Receive \/ ChannelClosed \/ ImportFails
      PROVE  \/ UNCHANGED <<alive, shutdown>> /\ pc # "idle" /\ pc' # "idle"
             \/ pc' = "idle" /\ alive' = alive \ {"worker"} /\ (shutdown' \/ shutdown' = shutdown)
             \/ Reopen
  BY <1>6, Zenon DEF Receive, ChannelClosed, ImportFails, WorkerEnds
<1>7. ASSUME NEW t \in Tasks, TaskShutdown(t)
      PROVE  /\ shutdown' /\ alive' = alive \ {t}
             /\ pc' = IF t = "worker" THEN "idle" ELSE pc
  BY <1>7, Zenon DEF TaskShutdown
<1>8. ASSUME CancelRuntime \/ Reopen
      PROVE  alive' = {} /\ pc' = "idle"
  BY <1>8, Zenon DEF CancelRuntime, Reopen
<1>9. QED
  <2>1. CASE \/ Boot \/ InitImporter \/ CancelRuntime \/ Reopen
    BY <1>4, <1>8, <2>1, Zenon DEF Tasks
  <2>2. CASE Receive \/ ChannelClosed \/ ImportFails \/ PassOn \/ PostProcessFails
    BY <1>5, <1>6, <1>8, <2>2, Zenon
  <2>3. CASE \E t \in Tasks : TaskShutdown(t)
    BY <1>7, <2>3, Zenon
  <2>4. CASE \/ ExecuteBlock \/ MineBlock \/ Compare \/ SendToKafka \/ CompleteAndFinish \/ CommitBlock
    BY <1>3, <2>4, Zenon
  <2>5. QED
    BY <1>1, <1>2, <2>1, <2>2, <2>3, <2>4, Zenon DEF Next, FetcherNext, WorkerNext, Crash

\* What a running worker depends on.
Work ==
    /\ Importing => item.number = NextBlock /\ item.number < Len(leader)
    /\ pc # "idle" => InChannel(Base)
    /\ pc # "idle" /\ "fetcher" \in alive => InFetcher(Base + Len(backlog))

\* The tasks of a batch and the items of the channel carry numbers.
LEMMA HeldNumbers ==
    ASSUME Types
    PROVE  /\ \A i \in DOMAIN tasks : tasks[i].number \in Nat
           /\ \A i \in DOMAIN backlog : backlog[i].number \in Nat
<1>1. tasks \in Seq(Fetches) /\ backlog \in Seq(Items)
  BY Zenon DEF Types
<1>2. \A i \in DOMAIN tasks : tasks[i] \in Fetches
  BY <1>1, ElementOfSeq
<1>3. \A i \in DOMAIN backlog : backlog[i] \in Items
  BY <1>1, ElementOfSeq
<1>4. QED
  BY <1>2, <1>3, Zenon DEF Fetches, Items

\* A step that leaves the pipeline alone, in the same phase of an import.
LEMMA WorkFrame ==
    ASSUME Work, Types, UNCHANGED <<blocks, mined, item, backlog, tasks, next>>,
           Len(leader') \in Nat, Len(leader') >= Len(leader),
           "fetcher" \in alive' => "fetcher" \in alive,
           Importing' <=> Importing, pc # "idle" \/ pc' = "idle"
    PROVE  Work'
<1>1. NextBlock' = NextBlock /\ Base' = Base
  BY Zenon DEF NextBlock, Base
<1>2. Len(leader) \in Nat /\ item.number \in Nat
  BY DEF Types, Items
<1>3. (Importing => item.number = NextBlock /\ item.number < Len(leader))'
  BY <1>1, <1>2 DEF Work
<1>4. InChannel(Base) => InChannel(Base)'
  <2>1. \A i \in DOMAIN backlog : backlog[i].number \in Nat
    BY HeldNumbers, Zenon
  <2>2. QED
    BY <1>1, <1>2, <2>1 DEF InChannel
<1>5. InFetcher(Base + Len(backlog)) => InFetcher(Base + Len(backlog))'
  <2>1. \A i \in DOMAIN tasks : tasks[i].number \in Nat
    BY HeldNumbers, Zenon
  <2>2. QED
    BY <1>1, <1>2, <2>1 DEF InFetcher
<1>6. QED
  BY <1>3, <1>4, <1>5, Zenon DEF Work, Importing

\* The worker takes the first block of the channel.
LEMMA ReceiveWork ==
    ASSUME Types, Work, pc = "recv", backlog # <<>>, item' = Head(backlog), backlog' = Tail(backlog),
           UNCHANGED <<leader, blocks, mined, tasks, next, alive>>, Importing'
    PROVE  Work'
<1>1. /\ backlog \in Seq(Items) /\ Len(backlog) \in Nat /\ Len(backlog) > 0
      /\ NextBlock \in Nat /\ Base = NextBlock
  BY Numbers DEF Types, Base, Importing
<1>2. NextBlock' = NextBlock /\ Base' = NextBlock + 1
  BY Zenon DEF NextBlock, Base
<1>3. Len(backlog') = Len(backlog) - 1 /\ \A i \in 1..Len(backlog') : backlog'[i] = backlog[i + 1]
  BY <1>1, HeadTailProperties, Zenon
<1>4. InChannel(NextBlock)
  BY <1>1, Zenon DEF Work
<1>5. item' = backlog[1] /\ 1 \in DOMAIN backlog
  BY <1>1
<1>6. item'.number = NextBlock /\ item'.number < Len(leader)
  BY <1>1, <1>4, <1>5 DEF InChannel
<1>7. DOMAIN backlog' = 1..Len(backlog') /\ \A i \in DOMAIN backlog' : i \in Nat /\ i + 1 \in DOMAIN backlog
  <2>1. backlog' \in Seq(Items)
    BY <1>1, HeadTailProperties, Zenon
  <2>2. QED
    BY <1>1, <1>3, <2>1
<1>8. InChannel(Base)'
  BY <1>1, <1>2, <1>3, <1>4, <1>7 DEF InChannel
<1>9. ("fetcher" \in alive => InFetcher(Base + Len(backlog)))'
  <2>1. (Base + Len(backlog))' = Base + Len(backlog)
    BY <1>1, <1>2, <1>3
  <2>2. InFetcher(Base + Len(backlog)) => InFetcher(Base + Len(backlog))'
    BY <2>1, Zenon DEF InFetcher
  <2>3. QED
    BY <2>2, Zenon DEF Work
<1>10. QED
  BY <1>2, <1>6, <1>8, <1>9, Zenon DEF Work

\* A block that was fetched moves to the end of the channel.
LEMMA PassOnWork ==
    ASSUME Types, Work, tasks # <<>>, tasks[1].done,
           backlog' = Append(backlog, PostProcess(tasks[1].number)), tasks' = Tail(tasks),
           UNCHANGED <<leader, blocks, mined, item, next, alive, pc>>, pc # "idle", "fetcher" \in alive
    PROVE  Work'
<1>1. NextBlock' = NextBlock /\ Base' = Base /\ Base \in Nat /\ Len(leader) \in Nat
  BY Numbers, Zenon DEF NextBlock, Base, Importing
<1>2. /\ tasks \in Seq(Fetches) /\ Len(tasks) \in Nat /\ Len(tasks) > 0 /\ 1 \in DOMAIN tasks
      /\ tasks[1].number \in Nat
  <2>1. tasks \in Seq(Fetches)
    BY Zenon DEF Types
  <2>2. Len(tasks) \in Nat /\ Len(tasks) > 0 /\ 1 \in DOMAIN tasks
    BY <2>1
  <2>3. QED
    BY <2>1, <2>2, HeldNumbers, Zenon
<1>3. backlog \in Seq(Items) /\ PostProcess(tasks[1].number) \in Items
  BY <1>2, PostProcessType, Zenon DEF Types
<1>4. /\ Len(backlog) \in Nat /\ Len(backlog') = Len(backlog) + 1 /\ backlog' \in Seq(Items)
      /\ \A i \in 1..Len(backlog) : backlog'[i] = backlog[i]
      /\ backlog'[Len(backlog) + 1] = PostProcess(tasks[1].number)
  BY <1>3, AppendProperties
<1>5. /\ Len(tasks') = Len(tasks) - 1 /\ tasks' \in Seq(Fetches)
      /\ \A i \in 1..Len(tasks') : tasks'[i] = tasks[i + 1]
  BY <1>2, HeadTailProperties, Zenon
<1>6. InChannel(Base) /\ InFetcher(Base + Len(backlog))
  BY Zenon DEF Work
<1>7. tasks[1].number = Base + Len(backlog) /\ tasks[1].number < Len(leader)
  <2>1. tasks[1].number = (Base + Len(backlog)) + 1 - 1 /\ tasks[1].number < Len(leader)
    BY <1>2, <1>6, Zenon DEF InFetcher
  <2>2. QED
    BY <1>1, <1>4, <2>1
<1>8. backlog'[Len(backlog) + 1].number = Base + Len(backlog)
  BY <1>2, <1>4, <1>7, PostProcessType, Zenon
<1>9. InChannel(Base)'
  <2>1. ASSUME NEW i \in DOMAIN backlog'
        PROVE  backlog'[i].number = Base + i - 1 /\ backlog'[i].number < Len(leader)
    <3>1. i \in 1..Len(backlog) \/ i = Len(backlog) + 1
      BY <1>4, <2>1
    <3>2. CASE i \in 1..Len(backlog)
      BY <1>3, <1>4, <1>6, <3>2 DEF InChannel
    <3>3. CASE i = Len(backlog) + 1
      BY <1>1, <1>4, <1>7, <1>8, <3>3
    <3>4. QED
      BY <3>1, <3>2, <3>3, Zenon
  <2>2. QED
    BY <1>1, <2>1, Zenon DEF InChannel
<1>10. InFetcher(Base + Len(backlog))'
  <2>1. DOMAIN tasks' = 1..Len(tasks') /\ \A i \in DOMAIN tasks' : i \in Nat /\ i + 1 \in DOMAIN tasks
    BY <1>2, <1>5
  <2>2. next = (Base + Len(backlog'))+ Len(tasks')
    BY <1>1, <1>2, <1>4, <1>5, <1>6 DEF InFetcher
  <2>3. \A i \in DOMAIN tasks' : /\ tasks'[i].number = (Base + Len(backlog')) + i - 1
                                 /\ tasks'[i].done => tasks'[i].number < Len(leader)
    BY <1>1, <1>4, <1>5, <1>6, <2>1 DEF InFetcher
  <2>4. QED
    BY <1>1, <2>2, <2>3, Zenon DEF InFetcher
<1>11. QED
  BY <1>1, <1>9, <1>10, Zenon DEF Work, Importing

\* A new batch begins where the last one ended.
LEMMA FetchWork ==
    ASSUME Types, Work, FetchBatch
    PROVE  Work'
<1>1. /\ UNCHANGED <<leader, blocks, mined, item, backlog, alive, pc>> /\ tasks = <<>>
      /\ "fetcher" \in alive /\ next' = next + BlocksToFetch
      /\ tasks' = [i \in 1..BlocksToFetch |-> [number |-> next + i - 1, done |-> FALSE]]
  BY Zenon DEF FetchBatch, netVars, permVars, workVars
<1>2. BlocksToFetch \in Nat /\ Base \in Nat /\ next \in Nat /\ Len(backlog) \in Nat
  BY Numbers, ImporterAssumption DEF FetchBatch, BlocksToFetch, Types
<1>3. NextBlock' = NextBlock /\ Base' = Base /\ Importing' = Importing
  BY <1>1, Zenon DEF NextBlock, Base, Importing
<1>4. InChannel(Base) => InChannel(Base)'
  BY <1>1, <1>3, Zenon DEF InChannel
<1>5. Len(tasks') = BlocksToFetch /\ DOMAIN tasks' = 1..BlocksToFetch
  BY <1>1, <1>2
<1>6. InFetcher(Base + Len(backlog)) => next = Base + Len(backlog)
  BY <1>1, <1>2 DEF InFetcher
<1>7. InFetcher(Base + Len(backlog)) => InFetcher(Base + Len(backlog))'
  <2>1. \A i \in DOMAIN tasks' : tasks'[i].number = next + i - 1 /\ ~tasks'[i].done
    BY <1>1, <1>5, Zenon
  <2>2. QED
    BY <1>1, <1>2, <1>3, <1>5, <1>6, <2>1, Zenon DEF InFetcher
<1>8. QED
  BY <1>1, <1>3, <1>4, <1>7, Zenon DEF Work

\* A block that arrives is one of the leader's.
LEMMA FetchedWork ==
    ASSUME Types, Work, NEW k \in 1..Parallel, FetchBlock(k)
    PROVE  Work'
<1>1. /\ UNCHANGED <<leader, blocks, mined, item, backlog, alive, pc, next>> /\ k \in DOMAIN tasks
      /\ tasks[k].number < Len(leader)
      /\ tasks' = [tasks EXCEPT ![k].done = TRUE]
  BY Zenon DEF FetchBlock, netVars, permVars, workVars
<1>2. NextBlock' = NextBlock /\ Base' = Base /\ Importing' = Importing
  BY <1>1, Zenon DEF NextBlock, Base, Importing
<1>3. InChannel(Base) => InChannel(Base)'
  BY <1>1, <1>2, Zenon DEF InChannel
<1>4. /\ Len(tasks') = Len(tasks) /\ DOMAIN tasks' = DOMAIN tasks
      /\ \A i \in DOMAIN tasks : tasks'[i].number = tasks[i].number
      /\ \A i \in DOMAIN tasks : i # k => tasks'[i].done = tasks[i].done
  <2>1. tasks \in Seq(Fetches)
    BY Zenon DEF Types
  <2>2. \A i \in DOMAIN tasks : tasks[i] \in Fetches
    BY <2>1
  <2>3. QED
    BY <1>1, <2>1, <2>2 DEF Fetches
<1>5. InFetcher(Base + Len(backlog)) => InFetcher(Base + Len(backlog))'
  BY <1>1, <1>2, <1>4, Zenon DEF InFetcher
<1>6. QED
  BY <1>1, <1>2, <1>3, <1>5, Zenon DEF Work

\* Every step keeps what the worker depends on.
LEMMA WorkStep == ReplicaInv /\ [Next]_vars => Work'
<1> SUFFICES ASSUME Types, Prefix, Pipeline, Resumes, Work, [Next]_vars
             PROVE  Work'
  BY Zenon DEF ReplicaInv, Pipeline, Work
<1>0. Len(leader) \in Nat
  BY Numbers, Zenon
<1>1. ASSUME pc' = "idle"
      PROVE  Work'
  BY <1>1, Zenon DEF Work, Importing
<1>2. ASSUME NEW fs \in SUBSET Fields, LeaderMine(fs)
      PROVE  Work'
  <2>1. /\ UNCHANGED <<blocks, mined, item, backlog, tasks, next, alive, pc>>
        /\ Len(leader') = Len(leader) + 1
    BY <1>2, LeaderGrows, Zenon DEF LeaderMine, permVars, workVars, fetchVars
  <2>2. QED
    BY <1>0, <2>1, WorkFrame, <1>1 DEF Importing
<1>3. ASSUME \/ \E n \in 0..MaxHead - 1 : SetExternalCurrent(n)
             \/ HeardExpires \/ UpdateHealth \/ UNCHANGED vars
      PROVE  Work'
  <2>1. UNCHANGED <<leader, blocks, mined, item, backlog, tasks, next, alive, pc>>
    BY <1>3, Zenon DEF SetExternalCurrent, HeardExpires, UpdateHealth, vars, netVars, permVars,
       workVars,
       fetchVars
  <2>2. QED
    BY <1>0, <2>1, WorkFrame, <1>1 DEF Importing
<1>4. ASSUME Boot \/ InitImporter
      PROVE  Work'
  <2>1. /\ alive = {} /\ pc = "idle" /\ pc' = "recv" /\ next' = pending /\ tasks' = <<>>
        /\ backlog' = <<>> /\ UNCHANGED <<leader, blocks, mined>>
        /\ ~shutdown \/ (Reinit /\ boot.mode # "fake")
    BY <1>4, Zenon DEF Boot, InitImporter, Start, ResumeFrom, netVars, permVars
  <2>2. pending = NextBlock
    BY <2>1, Zenon DEF Resumes, Importing
  <2>3. ~Importing' /\ Base' = NextBlock /\ NextBlock \in Nat
    BY <2>1, Numbers, Zenon DEF Importing, Base, NextBlock
  <2>4. Len(tasks') = 0 /\ Len(backlog') = 0 /\ DOMAIN tasks' = {} /\ DOMAIN backlog' = {}
    BY <2>1
  <2>5. InChannel(Base)' /\ InFetcher(Base + Len(backlog))'
    BY <2>1, <2>2, <2>3, <2>4 DEF InChannel, InFetcher
  <2>6. QED
    BY <2>3, <2>5, Zenon DEF Work
<1>5. ASSUME PassOn
      PROVE  Work'
  <2>1. /\ tasks # <<>> /\ tasks[1].done /\ "fetcher" \in alive
        /\ UNCHANGED <<leader, blocks, mined, item, next, pc>>
        /\ \/ /\ "worker" \in alive
              /\ backlog' = Append(backlog, PostProcess(tasks[1].number))
              /\ tasks' = SubSeq(tasks, 1, 0) \o SubSeq(tasks, 2, Len(tasks))
              /\ UNCHANGED alive
           \/ "worker" \notin alive
    BY <1>5 DEF PassOn, NextFetched, netVars, permVars, workVars
  <2>2. SubSeq(tasks, 1, 0) \o SubSeq(tasks, 2, Len(tasks)) = Tail(tasks)
    BY <2>1, TasksPassed, Zenon DEF Types
  <2>3. CASE "worker" \in alive
    BY <2>1, <2>2, <2>3, PassOnWork, Zenon DEF Pipeline
  <2>4. CASE "worker" \notin alive
    BY <1>1, <2>1, <2>4, Zenon DEF Pipeline
  <2>5. QED
    BY <2>3, <2>4, Zenon
<1>6. ASSUME PostProcessFails
      PROVE  Work'
  <2>1. UNCHANGED <<leader, blocks, mined, item, backlog, next, pc>> /\ "fetcher" \notin alive'
    BY <1>6, Zenon DEF PostProcessFails, netVars, permVars, workVars
  <2>2. NextBlock' = NextBlock /\ Base' = Base /\ Importing' = Importing
    BY <2>1, Zenon DEF NextBlock, Base, Importing
  <2>3. InChannel(Base) => InChannel(Base)'
    BY <2>1, <2>2, Zenon DEF InChannel
  <2>4. QED
    BY <2>1, <2>2, <2>3, Zenon DEF Work
<1>7. ASSUME Receive
      PROVE  Work'
  <2>1. \/ pc' = "idle"
        \/ /\ pc = "recv" /\ backlog # <<>> /\ item' = Head(backlog) /\ backlog' = Tail(backlog)
           /\ UNCHANGED <<leader, blocks, mined, tasks, next, alive>> /\ pc' \in {"kafka", "execute"}
    BY <1>7, Zenon DEF Receive, WorkerEnds, netVars, permVars, fetchVars
  <2>2. QED
    BY <1>1, <2>1, ReceiveWork, Zenon DEF Importing
<1>8. ASSUME NEW t \in Tasks, TaskShutdown(t)
      PROVE  Work'
  <2>1. \/ pc' = "idle"
        \/ /\ UNCHANGED <<leader, blocks, mined, item, backlog, tasks, next, pc>>
           /\ alive' \subseteq alive
    BY <1>8, Zenon DEF TaskShutdown, netVars, permVars, fetchVars
  <2>2. QED
    BY <1>0, <1>1, <2>1, WorkFrame DEF Importing
<1>9. ASSUME ExecuteBlock \/ MineBlock \/ Compare \/ SendToKafka \/ CompleteAndFinish
      PROVE  Work'
  <2>1. /\ UNCHANGED <<leader, blocks, mined, item, backlog, tasks, next, alive>>
        /\ Importing /\ Importing' /\ pc # "idle"
    BY <1>9, Zenon DEF ExecuteBlock, MineBlock, Compare, SendToKafka, CompleteAndFinish, Importing,
       netVars, permVars, fetchVars
  <2>2. QED
    BY <1>0, <2>1, WorkFrame
<1>10. ASSUME CommitBlock
      PROVE  Work'
  <2>1. /\ pc = "commit" /\ pc' = "recv" /\ Importing /\ ~Importing'
        /\ UNCHANGED <<leader, item, backlog, tasks, next, alive>>
    BY <1>10, Zenon DEF CommitBlock, Importing, netVars, fetchVars
  <2>2. NextBlock' = NextBlock + 1
    BY <1>10, <2>1, SaveExtends, Zenon DEF Work
  <2>3. Base' = Base
    BY <2>1, <2>2, Zenon DEF Base
  <2>4. InChannel(Base) => InChannel(Base)'
    BY <2>1, <2>3, Zenon DEF InChannel
  <2>5. InFetcher(Base + Len(backlog)) => InFetcher(Base + Len(backlog))'
    BY <2>1, <2>3, Zenon DEF InFetcher
  <2>6. QED
    BY <2>1, <2>4, <2>5, Zenon DEF Work
<1>11. ASSUME ChannelClosed \/ ImportFails \/ CancelRuntime \/ Crash
      PROVE  pc' = "idle"
  BY <1>11, Zenon DEF ChannelClosed, ImportFails, CancelRuntime, Crash, Reopen, WorkerEnds
<1>12. QED
  BY <1>1, <1>2, <1>3, <1>4, <1>5, <1>6, <1>7, <1>8, <1>9, <1>10, <1>11, FetchWork, FetchedWork,
     Zenon
  DEF Next, FetcherNext, WorkerNext

(***************************************************************************)
(* Where the importer resumes.                                             *)
(***************************************************************************)
\* With the pending block one ahead of the item in hand, save_block accepts it.
LEMMA CommitAccepts ==
    ASSUME ReplicaInv, pc = "commit"
    PROVE  SaveBlockAccepts(item.number)
<1>1. item.number = NextBlock /\ pending = item.number + 1 /\ NextBlock \in Nat
  BY Numbers, Zenon DEF ReplicaInv, Pipeline, Resumes, Importing
<1>2. NextBlock \notin DOMAIN blocks
  BY DEF ReplicaInv, Types, Prefix, NextBlock
<1>3. NextBlock = 0 \/ NextBlock = mined + 1
  BY Zenon DEF NextBlock
<1>4. QED
  BY <1>1, <1>2, <1>3 DEF SaveBlockAccepts

\* Where a worker may stop for stratus_initImporter to start it again: not with a block that
\* is finished and not committed.
LEMMA StopsBeforeFinish ==
    ASSUME Resumable, ReplicaInv, Reinit, boot.mode # "fake",
           \/ pc \in {"idle", "recv"}
           \/ pc = "kafka" /\ setup.kafka
           \/ ImportFails /\ ~ShutsDown
    PROVE  pending = NextBlock
<1>1. boot \in Boots /\ setup \in {boot, Reinitialised}
  BY Zenon DEF ReplicaInv, Types
<1>2. boot.mode \in {"replication", "reexecution", "fake"}
  BY <1>1, ImporterAssumption, Zenon
<1>3. setup.mode \in {"replication", "reexecution"}
  BY <1>1, <1>2 DEF Reinitialised
<1>4. setup.kafka => setup.mode = "replication"
  <2>1. CASE setup = boot
    BY <1>1, <1>3, <2>1, Zenon DEF Resumable
  <2>2. CASE setup = Reinitialised
    BY <2>2, Zenon DEF Reinitialised
  <2>3. QED
    BY <1>1, <2>1, <2>2, Zenon
<1>5. CASE pc \in {"idle", "recv"}
  BY <1>5, Zenon DEF ReplicaInv, Resumes, Importing
<1>6. CASE pc = "kafka" /\ setup.kafka
  BY <1>4, <1>6, Zenon DEF ReplicaInv, Resumes
<1>7. CASE ImportFails /\ ~ShutsDown
  <2>1. ~CommitErrors
    BY Zenon DEF Resumable
  <2>2. \/ pc \in {"execute", "complete", "compare"}
        \/ pc = "kafka" /\ setup.kafka
        \/ pc = "commit" /\ ~SaveBlockAccepts(item.number)
    BY <1>7, <2>1, Zenon DEF ImportFails
  <2>3. pc # "commit"
    BY <2>2, CommitAccepts, Zenon
  <2>4. pc # "compare" /\ pc # "execute"
    BY <1>3, <1>7, Zenon DEF ReplicaInv, Resumes, ShutsDown
  <2>5. QED
    BY <1>6, <2>2, <2>3, <2>4, Zenon DEF ReplicaInv, Resumes
<1>8. QED
  BY <1>5, <1>6, <1>7, Zenon

\* Every step leaves the pending block where the importer may resume.
LEMMA ResumesStep == Resumable /\ ReplicaInv /\ [Next]_vars => Resumes'
<1> SUFFICES ASSUME Resumable, ReplicaInv, [Next]_vars
             PROVE  Resumes'
  BY Zenon
<1> USE DEF ReplicaInv
<1>1. ASSUME UNCHANGED <<pending, blocks, mined, item, pc, setup, boot>>,
             alive' = {} /\ ~shutdown' => alive = {} /\ ~shutdown
      PROVE  Resumes'
  BY <1>1, Zenon DEF Resumes, Importing, NextBlock
<1>2. ASSUME \/ \E fs \in SUBSET Fields : LeaderMine(fs)
             \/ \E n \in 0..MaxHead - 1 : SetExternalCurrent(n)
             \/ HeardExpires \/ FetchBatch \/ UpdateHealth \/ UNCHANGED vars
             \/ \E i \in 1..Parallel : FetchBlock(i)
      PROVE  Resumes'
  <2>1. UNCHANGED <<pending, blocks, mined, item, pc, setup, boot, alive, shutdown>>
    BY <1>2, Zenon DEF LeaderMine, SetExternalCurrent, HeardExpires, FetchBatch, FetchBlock,
       UpdateHealth,
       vars, workVars, tempVars, permVars, setupVars
  <2>2. QED
    BY <1>1, <2>1, Zenon
<1>3. ASSUME PassOn \/ PostProcessFails
      PROVE  Resumes'
  <2>1. /\ UNCHANGED <<pending, blocks, mined, item, pc, setup, boot, shutdown>>
        /\ "fetcher" \in alive /\ (alive' = alive \/ alive' = alive \ {"fetcher"})
    BY <1>3, Zenon DEF PassOn, PostProcessFails, workVars, tempVars, permVars, setupVars
  <2>2. ~shutdown => "numbers" \in alive'
    BY <2>1, Zenon DEF Pipeline
  <2>3. QED
    BY <1>1, <2>1, <2>2, Zenon
<1>4. ASSUME Boot \/ InitImporter
      PROVE  Resumes'
  <2>1. /\ UNCHANGED <<pending, blocks, mined, boot>>
        /\ alive' # {} /\ pc = "idle" /\ pc' = "recv"
    BY <1>4, Zenon DEF Boot, InitImporter, Start, Tasks, tempVars, permVars
  <2>2. NextBlock' = NextBlock
    BY <2>1, Zenon DEF NextBlock
  <2>3. Reinit /\ boot.mode # "fake" => pending = NextBlock
    BY <2>1, StopsBeforeFinish, Zenon
  <2>4. QED
    BY <2>1, <2>2, <2>3, Zenon DEF Resumes, Importing
<1>5. ASSUME pc' = "idle", UNCHANGED <<pending, blocks, mined, boot>>,
             shutdown' \/ (shutdown' = shutdown /\ alive' = alive \ {"worker"} /\ "worker" \in alive),
             Reinit /\ boot.mode # "fake" => pending = NextBlock
      PROVE  Resumes'
  <2>1. ~(alive' = {} /\ ~shutdown')
    BY <1>5 DEF Pipeline
  <2>2. NextBlock' = NextBlock
    BY <1>5, Zenon DEF NextBlock
  <2>3. QED
    BY <1>5, <2>1, <2>2, Zenon DEF Resumes, Importing
<1>6. ASSUME Receive
      PROVE  Resumes'
  <2>1. /\ UNCHANGED <<pending, blocks, mined, setup, boot>> /\ pc = "recv"
        /\ \/ pc' = "idle" /\ shutdown'
           \/ /\ pc' = IF setup.mode = "replication" THEN "kafka" ELSE "execute"
              /\ UNCHANGED <<alive, shutdown>>
    BY <1>6, Zenon DEF Receive, WorkerEnds, tempVars, permVars, setupVars
  <2>2. Reinit /\ boot.mode # "fake" => pending = NextBlock
    BY <2>1, StopsBeforeFinish, Zenon
  <2>3. NextBlock' = NextBlock /\ alive # {}
    BY <2>1, Zenon DEF NextBlock, Pipeline
  <2>4. CASE pc' = "idle" /\ shutdown'
    BY <1>5, <2>1, <2>2, <2>4, Zenon
  <2>5. CASE pc' = IF setup.mode = "replication" THEN "kafka" ELSE "execute"
    BY <2>1, <2>2, <2>3, <2>5, Zenon DEF Resumes, Importing
  <2>6. QED
    BY <2>1, <2>4, <2>5, Zenon
<1>7. ASSUME ChannelClosed
      PROVE  Resumes'
  <2>1. /\ UNCHANGED <<pending, blocks, mined, boot, shutdown>> /\ pc = "recv" /\ pc' = "idle"
        /\ alive' = alive \ {"worker"}
    BY <1>7, Zenon DEF ChannelClosed, WorkerEnds, tempVars, permVars, setupVars
  <2>2. QED
    BY <1>5, <2>1, StopsBeforeFinish, Zenon DEF Pipeline
<1>8. ASSUME NEW t \in Tasks, TaskShutdown(t)
      PROVE  Resumes'
  <2>1. /\ UNCHANGED <<pending, blocks, mined, item, setup, boot>> /\ shutdown'
        /\ pc' = pc \/ (pc' = "idle" /\ pc = "recv")
    BY <1>8, Zenon DEF TaskShutdown, tempVars, permVars, setupVars
  <2>2. CASE pc' = pc
    BY <1>1, <2>1, <2>2, Zenon
  <2>3. CASE pc' = "idle" /\ pc = "recv"
    BY <1>5, <2>1, <2>3, StopsBeforeFinish, Zenon
  <2>4. QED
    BY <2>1, <2>2, <2>3, Zenon
<1>9. ASSUME \/ ExecuteBlock \/ MineBlock \/ Compare \/ SendToKafka \/ CompleteAndFinish
      PROVE  Resumes'
  <2>1. /\ UNCHANGED <<blocks, mined, item, setup, boot, alive, shutdown>>
        /\ pc # "idle" /\ alive # {} /\ NextBlock' = NextBlock
    BY <1>9, Zenon DEF ExecuteBlock, MineBlock, Compare, SendToKafka, CompleteAndFinish, permVars,
       setupVars, NextBlock, Pipeline
  <2>2. item.number \in Nat
    BY Zenon DEF Types, Items
  <2>3. CASE ExecuteBlock
    BY <2>1, <2>3, Zenon DEF ExecuteBlock, Resumes, Importing
  <2>4. CASE MineBlock
    BY <2>1, <2>4, Zenon DEF MineBlock, Resumes, Importing
  <2>5. CASE Compare
    BY <2>1, <2>5, Zenon DEF Compare, tempVars, Resumes, Importing
  <2>6. CASE SendToKafka
    BY <2>1, <2>6, Zenon DEF SendToKafka, tempVars, Resumes, Importing
  <2>7. CASE CompleteAndFinish
    BY <2>1, <2>7, Zenon DEF CompleteAndFinish, Resumes, Importing
  <2>8. QED
    BY <1>9, <2>3, <2>4, <2>5, <2>6, <2>7, Zenon
<1>10. ASSUME CommitBlock
      PROVE  Resumes'
  <2>1. /\ UNCHANGED <<pending, item, setup, boot, alive, shutdown>> /\ pc = "commit" /\ pc' = "recv"
    BY <1>10, Zenon DEF CommitBlock, tempVars, setupVars
  <2>2. /\ alive # {} /\ pending = item.number + 1
        /\ item.number = NextBlock /\ item.number < Len(leader)
    BY <2>1, Zenon DEF Pipeline, Resumes, Importing
  <2>3. NextBlock' = NextBlock + 1
    BY <1>10, <2>2, SaveExtends, Zenon
  <2>4. QED
    BY <2>1, <2>2, <2>3, Zenon DEF Resumes, Importing
<1>11. ASSUME Reopen
      PROVE  Resumes'
  <2>1. pending' = NextBlock /\ NextBlock' = NextBlock /\ pc' = "idle"
    <3>1. UNCHANGED <<blocks, mined>> /\ pending' = NextBlock
      BY <1>11, ReopenFinds, Zenon
    <3>2. NextBlock' = NextBlock
      BY <3>1, Zenon DEF NextBlock
    <3>3. QED
      BY <1>11, <3>1, <3>2, Zenon DEF Reopen
  <2>2. QED
    BY <2>1, Zenon DEF Resumes, Importing
<1>12. ASSUME ImportFails
      PROVE  Resumes'
  <2>1. CASE ShutsDown
    BY <1>11, <1>12, <2>1, Zenon DEF ImportFails
  <2>2. CASE ~ShutsDown
    <3>1. /\ pc' = "idle" /\ UNCHANGED <<pending, blocks, mined, boot, shutdown>> /\ pc # "idle"
          /\ alive' = alive \ {"worker"}
      BY <1>12, <2>2, Zenon DEF ImportFails, WorkerEnds, tempVars, permVars, setupVars
    <3>2. QED
      BY <1>5, <1>12, <2>2, <3>1, StopsBeforeFinish, Zenon DEF Pipeline
  <2>3. QED
    BY <2>1, <2>2, Zenon
<1>13. ASSUME CancelRuntime
      PROVE  Resumes'
  <2>1. /\ pc' = "idle" /\ UNCHANGED <<pending, blocks, mined, boot>> /\ shutdown'
        /\ pc \in {"idle", "recv"} \/ (pc = "kafka" /\ setup.kafka)
    BY <1>13, Zenon DEF CancelRuntime, tempVars, permVars, setupVars
  <2>2. QED
    BY <1>5, <2>1, StopsBeforeFinish, Zenon
<1>14. QED
  BY <1>2, <1>3, <1>4, <1>6, <1>7, <1>8, <1>9, <1>10, <1>11, <1>12, <1>13, Zenon
  DEF Next, FetcherNext, WorkerNext, Crash

(***************************************************************************)
(* The refinement.                                                         *)
(***************************************************************************)
\* The number of blocks in the database is the number of the first one that is missing.
LEMMA HeightIs ==
    ASSUME Types, Prefix
    PROVE  Height = NextBlock
<1>1. CASE DOMAIN blocks = {}
  BY <1>1, FS_EmptySet, Zenon DEF Height, NextBlock
<1>2. CASE DOMAIN blocks # {}
  <2>1. DOMAIN blocks = 0..mined /\ mined \in Nat
    BY <1>2, Zenon DEF Types, Prefix
  <2>2. Cardinality(0..mined) = mined + 1
    BY <2>1, FS_Interval
  <2>3. QED
    BY <1>2, <2>1, <2>2, Zenon DEF Height, NextBlock
<1>3. QED
  BY <1>1, <1>2, Zenon

\* The follower's chain is the beginning of the leader's.
LEMMA ChainIs ==
    ASSUME Types, Prefix
    PROVE  Chain = [i \in 1..NextBlock |-> leader[i]] /\ NextBlock <= Len(leader)
<1>1. Height = NextBlock /\ NextBlock \in Nat
  BY HeightIs, Numbers, Zenon
<1>2. ASSUME NEW i \in 1..NextBlock
      PROVE  i - 1 \in DOMAIN blocks /\ blocks[i - 1] = leader[i]
  <2>1. i - 1 \in DOMAIN blocks
    BY <1>2 DEF Types, Prefix, NextBlock
  <2>2. blocks[i - 1] = leader[(i - 1) + 1] /\ (i - 1) + 1 = i
    BY <1>1, <1>2, <2>1 DEF Prefix
  <2>3. QED
    BY <2>1, <2>2, Zenon
<1>3. NextBlock <= Len(leader)
  <2>1. Len(leader) \in Nat
    BY Numbers, Zenon
  <2>2. CASE DOMAIN blocks = {}
    BY <2>1, <2>2 DEF NextBlock
  <2>3. CASE DOMAIN blocks # {}
    <3>1. mined \in Nat /\ mined \in DOMAIN blocks
      BY <2>3 DEF Types, Prefix
    <3>2. QED
      BY <2>1, <2>3, <3>1 DEF Prefix, NextBlock
  <2>4. QED
    BY <2>2, <2>3, Zenon
<1>4. Chain = [i \in 1..NextBlock |-> leader[i]]
  BY <1>1, <1>2, Zenon DEF Chain
<1>5. QED
  BY <1>3, <1>4, Zenon

\* ReplicaInv is an invariant, for every set of configurations and every bound.
THEOREM Replicates == ASSUME Resumable PROVE Spec => []ReplicaInv
<1>1. ReplicaInv /\ [Next]_vars => ReplicaInv'
  <2> SUFFICES ASSUME ReplicaInv, [Next]_vars PROVE ReplicaInv'
    BY Zenon
  <2>1. Types' /\ Prefix' /\ Resumes'
    BY TypesStep, PrefixStep, ResumesStep, Zenon
  <2>2. Pipeline'
    BY AliveStep, WorkStep, Zenon DEF Pipeline, Work
  <2>3. QED
    BY <2>1, <2>2, Zenon DEF ReplicaInv
<1>2. QED
  BY <1>1, InitReplica, PTL DEF Spec

\* The block the worker is about to commit is the one save_block expects, through failures,
\* cancellations and restarts, unless a worker is stopped between finishing a block and saving it
\* and stratus_initImporter starts the importer again, which is what Resumable excludes.
THEOREM CommitsAccepted == ASSUME Resumable PROVE Spec => []CommitAccepted
<1>1. ReplicaInv => CommitAccepted
  BY CommitAccepts, Zenon DEF CommitAccepted
<1>2. QED
  BY Replicates, <1>1, PTL

\* A step of the follower appends the leader's next block, or leaves its chain alone.
LEMMA ReplicaStep ==
    ReplicaInv /\ ReplicaInv' /\ [Next]_vars => [ReplicaOfLeader!Next]_<<leader, Chain>>
<1> SUFFICES ASSUME ReplicaInv, ReplicaInv', [Next]_vars
             PROVE  [ReplicaOfLeader!Next]_<<leader, Chain>>
  BY Zenon
<1>1. Types /\ Prefix /\ Types' /\ Prefix'
  BY Zenon DEF ReplicaInv
<1>2. ASSUME UNCHANGED <<blocks, mined>>
      PROVE  UNCHANGED Chain
  BY <1>2, Zenon DEF Chain, Height
<1>3. ASSUME NEW fs \in SUBSET Fields, LeaderMine(fs)
      PROVE  ReplicaOfLeader!Next
  <2>1. leader' = Append(leader, fs) /\ UNCHANGED <<blocks, mined>>
    BY <1>3, Zenon DEF LeaderMine, permVars
  <2>2. ReplicaOfLeader!Mine(fs)
    BY <1>2, <2>1, Zenon DEF ReplicaOfLeader!Mine
  <2>3. QED
    BY <2>2, Zenon DEF ReplicaOfLeader!Next
<1>4. ASSUME CommitBlock
      PROVE  ReplicaOfLeader!Next
  <2>1. item.number = NextBlock /\ item.number < Len(leader) /\ UNCHANGED leader
    BY <1>4, Zenon DEF CommitBlock, ReplicaInv, Pipeline, Importing, netVars
  <2>2. NextBlock' = NextBlock + 1 /\ NextBlock \in Nat
    BY <1>1, <1>4, <2>1, SaveExtends, Numbers, Zenon
  <2>3. Chain = [i \in 1..NextBlock |-> leader[i]]
    BY <1>1, ChainIs, Zenon
  <2>4. Chain' = [i \in 1..(NextBlock + 1) |-> leader[i]]
    <3>1. (Chain = [i \in 1..NextBlock |-> leader[i]])'
      BY <1>1, ChainIs, PTL
    <3>2. QED
      BY <2>1, <2>2, <3>1, Zenon
  <2>5. \A i \in 1..(NextBlock + 1) : leader[i] \in SUBSET Fields
    <3>1. leader \in Seq(SUBSET Fields) /\ Len(leader) \in Nat
      BY <1>1, Numbers, Zenon DEF Types
    <3>2. \A i \in 1..(NextBlock + 1) : i \in 1..Len(leader)
      BY <2>1, <2>2, <3>1
    <3>3. QED
      BY <3>1, <3>2, ElementOfSeq, Zenon
  <2>6. Chain \in Seq(SUBSET Fields) /\ Len(Chain) = NextBlock /\ leader[Len(Chain) + 1] \in SUBSET Fields
    BY <2>2, <2>3, <2>5
  <2>7. Chain' \in Seq(SUBSET Fields) /\ Len(Chain') = NextBlock + 1
    BY <2>2, <2>4, <2>5
  <2> DEFINE longer == Append(Chain, leader[Len(Chain) + 1])
  <2>8. /\ longer \in Seq(SUBSET Fields) /\ Len(longer) = NextBlock + 1
        /\ longer[NextBlock + 1] = leader[NextBlock + 1]
        /\ \A i \in 1..NextBlock : longer[i] = leader[i]
    BY <2>2, <2>3, <2>6, AppendProperties
  <2>9. \A i \in 1..(NextBlock + 1) : Chain'[i] = longer[i]
    <3> HIDE DEF longer
    <3>1. \A i \in 1..(NextBlock + 1) : i \in 1..NextBlock \/ i = NextBlock + 1
      BY <2>2
    <3>2. QED
      BY <2>4, <2>8, <3>1, Zenon
  <2>10. Chain' = longer
    <3> HIDE DEF longer
    <3>1. QED
      BY <2>7, <2>8, <2>9, SeqEqual, Zenon
  <2>11. ReplicaOfLeader!Import
    BY <2>1, <2>6, <2>10, Zenon DEF ReplicaOfLeader!Import
  <2>12. QED
    BY <2>11, Zenon DEF ReplicaOfLeader!Next
<1>5. ASSUME UNCHANGED <<leader, blocks, mined>> \/ Reopen
      PROVE  UNCHANGED <<leader, Chain>>
  BY <1>1, <1>2, <1>5, ReopenFinds, Zenon
<1>6. QED
  BY <1>3, <1>4, <1>5, ChainsKept, Zenon

\* A follower implements Replica: its chain is always a prefix of the leader's and grows by one
\* block at a time, whatever fails, is cancelled or crashes, for any number of blocks, any size
\* of the batches and of the channel, and all three kinds of follower.
THEOREM Refinement == ASSUME Resumable PROVE Spec => ImplementsReplica
<1>1. Init => ReplicaOfLeader!Init
  <2> SUFFICES ASSUME Init PROVE ReplicaOfLeader!Init
    BY Zenon
  <2>1. leader = <<>> /\ DOMAIN blocks = {}
    BY Zenon DEF Init
  <2>2. Height = 0
    BY <2>1, FS_EmptySet, Zenon DEF Height
  <2>3. Chain = <<>>
    BY <2>2 DEF Chain
  <2>4. QED
    BY <2>1, <2>3, Zenon DEF ReplicaOfLeader!Init
<1>2. QED
  BY <1>1, Replicates, ReplicaStep, PTL DEF Spec, ImplementsReplica, ReplicaOfLeader!Spec

(***************************************************************************)
(* The replicated account.                                                 *)
(***************************************************************************)
\* The account n blocks of a chain leave, and the item of block n of a chain.
Writers(chain, n, f) == {i \in 1..n : f \in chain[i]}
Last(S) == IF S = {} THEN 0 ELSE CHOOSE i \in S : \A j \in S : j <= i
Written(chain, n) == [f \in Fields |-> Last(Writers(chain, n, f))]

Received(chain, n) ==
    [number |-> n, changes |-> [f \in Fields |-> IF f \in chain[n + 1] THEN n + 1 ELSE Unset]]

\* The worker is between blocks as far as the account is concerned: nothing was finished that
\* is not committed.
Steady ==
    \/ alive = {} /\ ~shutdown
    \/ Reinit /\ boot.mode # "fake" /\ pc = "idle"
    \/ pc \in {"recv", "execute"}
    \/ pc \in {"kafka", "complete"} /\ setup.mode = "replication"

\* The worker holds the changes of the block in hand.
Changed == pc \in {"mine", "compare", "commit"} \/ (pc = "kafka" /\ setup.mode # "replication")

\* What the fetcher passed on is what the leader's block changed.
ItemsInv ==
    /\ pc # "idle" => \A i \in DOMAIN backlog : backlog[i] = Received(leader, backlog[i].number)
    /\ Importing => item = Received(leader, item.number)

AccountInv ==
    /\ account = Written(leader, NextBlock)
    /\ Steady => View = account
    /\ Changed => changes = Written(leader, NextBlock + 1)
    /\ Changed /\ pc # "mine" => latest \in {NoAccount, changes}

\* A block leaves its number in the fields it changes and the others alone.
LEMMA WrittenNext ==
    ASSUME NEW chain, NEW n \in Nat
    PROVE  Written(chain, n + 1) =
             [f \in Fields |-> IF f \in chain[n + 1] THEN n + 1 ELSE Written(chain, n)[f]]
<1>1. ASSUME NEW f \in Fields, f \in chain[n + 1] PROVE Last(Writers(chain, n + 1, f)) = n + 1
  <2> DEFINE S == Writers(chain, n + 1, f)
  <2>1. n + 1 \in S /\ \A j \in S : j \in Int /\ j <= n + 1
    BY <1>1 DEF Writers
  <2> HIDE DEF S
  <2>2. ASSUME NEW i \in S, \A j \in S : j <= i PROVE i = n + 1
    BY <2>1, <2>2
  <2>3. (CHOOSE i \in S : \A j \in S : j <= i) = n + 1
    BY <2>1, <2>2, Zenon
  <2>4. Last(S) = n + 1
    BY <2>1, <2>3, Zenon DEF Last
  <2> QED BY <2>4, Zenon DEF S
<1>2. ASSUME NEW f \in Fields, f \notin chain[n + 1]
      PROVE  Writers(chain, n + 1, f) = Writers(chain, n, f)
  BY <1>2 DEF Writers
<1> QED BY <1>1, <1>2, Zenon DEF Written

\* Two chains with the same first n blocks leave the same account.
LEMMA WrittenSame ==
    ASSUME NEW c, NEW d, NEW n \in Nat, \A i \in 1..n : c[i] = d[i]
    PROVE  Written(c, n) = Written(d, n)
<1>1. ASSUME NEW f PROVE Writers(c, n, f) = Writers(d, n, f)
  BY Zenon DEF Writers
<1> QED BY <1>1, Zenon DEF Written

\* A stopped worker that stratus_initImporter may start again left nothing finished behind.
LEMMA StopsSteady ==
    ASSUME Resumable, ReplicaInv, Reinit, boot.mode # "fake",
           \/ pc \in {"idle", "recv"}
           \/ pc = "kafka" /\ setup.kafka
           \/ ImportFails /\ ~ShutsDown
    PROVE  Steady
<1>1. boot \in Boots /\ setup \in {boot, Reinitialised}
  BY Zenon DEF ReplicaInv, Types
<1>2. boot.mode \in {"replication", "reexecution", "fake"}
  BY <1>1, ImporterAssumption, Zenon
<1>3. setup.mode \in {"replication", "reexecution"}
  BY <1>1, <1>2 DEF Reinitialised
<1>4. setup.kafka => setup.mode = "replication"
  <2>1. CASE setup = boot
    BY <1>1, <1>3, <2>1, Zenon DEF Resumable
  <2>2. CASE setup = Reinitialised
    BY <2>2, Zenon DEF Reinitialised
  <2> QED BY <1>1, <2>1, <2>2, Zenon
<1>5. CASE ImportFails /\ ~ShutsDown
  <2>1. \/ pc \in {"execute", "complete", "compare"}
        \/ pc = "kafka" /\ setup.kafka
        \/ pc = "commit" /\ ~SaveBlockAccepts(item.number)
    BY <1>5, Zenon DEF ImportFails, Resumable
  <2>2. pc # "commit"
    BY <2>1, CommitAccepts, Zenon
  <2>3. pc # "compare"
    BY <1>3, Zenon DEF ReplicaInv, Resumes
  <2> QED BY <1>4, <2>1, <2>2, <2>3, Zenon DEF Steady, ReplicaInv, Resumes
<1> QED BY <1>4, <1>5, Zenon DEF Steady

\* Only a commit and the opening of the database make the account steady again.
LEMMA SteadyStep ==
    ASSUME Resumable, ReplicaInv, [Next]_vars, ~CommitBlock, ~Reopen, Steady'
    PROVE  Steady
<1> USE DEF ReplicaInv
<1>1. CASE UNCHANGED <<pc, alive, shutdown, setup, boot>>
  BY <1>1, Zenon DEF Steady
<1>2. CASE \/ \E fs \in SUBSET Fields : LeaderMine(fs)
           \/ \E n \in 0..MaxHead - 1 : SetExternalCurrent(n)
           \/ HeardExpires \/ FetchBatch \/ UpdateHealth \/ UNCHANGED vars
           \/ \E i \in 1..Parallel : FetchBlock(i)
  <2>1. UNCHANGED <<pc, alive, shutdown, setup, boot>>
    BY <1>2, Zenon DEF LeaderMine, SetExternalCurrent, HeardExpires, FetchBatch, FetchBlock,
       UpdateHealth,
       vars, workVars, setupVars
  <2> QED BY <1>1, <2>1, Zenon
<1>3. CASE PassOn \/ PostProcessFails
  <2>1. /\ UNCHANGED <<pc, setup, boot, shutdown>>
        /\ "fetcher" \in alive /\ (alive' = alive \/ alive' = alive \ {"fetcher"})
    BY <1>3, Zenon DEF PassOn, PostProcessFails, workVars, setupVars
  <2>2. ~shutdown => "numbers" \in alive'
    BY <2>1, Zenon DEF Pipeline
  <2> QED BY <2>1, <2>2, Zenon DEF Steady
<1>4. CASE Boot \/ InitImporter
  BY <1>4, Zenon DEF Boot, InitImporter, Start, Steady
<1>5. CASE Receive
  BY <1>5, Zenon DEF Receive, Steady
<1>6. CASE ChannelClosed
  BY <1>6, Zenon DEF ChannelClosed, Steady
<1>7. ASSUME NEW t \in Tasks, TaskShutdown(t) PROVE Steady
  <2>1. UNCHANGED <<setup, boot>> /\ shutdown' = shutdown /\ shutdown /\ (pc' = pc \/ pc = "recv")
    BY <1>7, Zenon DEF TaskShutdown, setupVars
  <2> QED BY <2>1, Zenon DEF Steady
<1>8. CASE ExecuteBlock \/ MineBlock \/ Compare \/ CompleteAndFinish
  <2>1. /\ UNCHANGED <<alive, shutdown, setup, boot>> /\ pc # "idle"
        /\ pc' \in {"mine", "compare", "commit"} \/ (pc' = "kafka" /\ pc = "mine")
    BY <1>8, Zenon DEF ExecuteBlock, MineBlock, Compare, CompleteAndFinish, setupVars
  <2>2. alive # {} /\ (pc = "mine" => setup.mode # "replication")
    BY <2>1, Zenon DEF Pipeline, Resumes
  <2> QED BY <2>1, <2>2, Zenon DEF Steady
<1>9. CASE SendToKafka
  <2>1. /\ UNCHANGED <<alive, shutdown, setup, boot>> /\ pc = "kafka"
        /\ pc' = IF setup.mode = "replication" THEN "complete" ELSE "commit"
    BY <1>9, Zenon DEF SendToKafka, setupVars
  <2>2. alive # {}
    BY <2>1, Zenon DEF Pipeline
  <2> QED BY <2>1, <2>2, Zenon DEF Steady
<1>10. CASE ImportFails
  <2>1. /\ ~ShutsDown /\ pc # "idle" /\ pc' = "idle" /\ UNCHANGED <<shutdown, setup, boot>>
        /\ alive' = alive \ {"worker"}
    BY <1>10, Zenon DEF ImportFails, WorkerEnds, setupVars
  <2>2. ~(alive' = {} /\ ~shutdown')
    BY <2>1 DEF Pipeline
  <2>3. Reinit /\ boot.mode # "fake"
    BY <2>1, <2>2, Zenon DEF Steady
  <2> QED BY <1>10, <2>1, <2>3, StopsSteady, Zenon
<1>11. CASE CancelRuntime
  <2>1. /\ pc' = "idle" /\ shutdown' /\ UNCHANGED boot
        /\ pc \in {"idle", "recv"} \/ (pc = "kafka" /\ setup.kafka)
    BY <1>11, Zenon DEF CancelRuntime, setupVars
  <2>2. Reinit /\ boot.mode # "fake"
    BY <2>1, Zenon DEF Steady
  <2> QED BY <2>1, <2>2, StopsSteady, Zenon
<1> QED
  BY <1>2, <1>3, <1>4, <1>5, <1>6, <1>7, <1>8, <1>9, <1>10, <1>11, Zenon
  DEF Next, FetcherNext, WorkerNext, Crash

\* The leader appends a block: what was read of its chain stays as it was.
LEMMA ItemsStep == ReplicaInv /\ ItemsInv /\ [Next]_vars => ItemsInv'
<1> SUFFICES ASSUME ReplicaInv, ItemsInv, [Next]_vars PROVE ItemsInv'
  BY Zenon
<1> USE DEF ReplicaInv
<1>1. ASSUME NEW fs \in SUBSET Fields, LeaderMine(fs) PROVE ItemsInv'
  <2>1. UNCHANGED <<pc, item, backlog>>
    BY <1>1, Zenon DEF LeaderMine, workVars
  <2>2. ASSUME NEW n \in Nat, n < Len(leader) PROVE Received(leader', n) = Received(leader, n)
    <3>1. leader'[n + 1] = leader[n + 1]
      BY <1>1, <2>2, LeaderGrows, Numbers
    <3> QED BY <3>1, Zenon DEF Received
  <2>3. ASSUME pc # "idle", NEW i \in DOMAIN backlog
        PROVE  backlog[i] = Received(leader', backlog[i].number)
    <3>1. backlog[i].number \in Nat /\ backlog[i].number < Len(leader)
      BY <2>3, HeldNumbers, Zenon DEF Pipeline, InChannel
    <3> QED BY <2>2, <2>3, <3>1, Zenon DEF ItemsInv
  <2>4. ASSUME Importing PROVE item = Received(leader', item.number)
    <3>1. item.number \in Nat /\ item.number < Len(leader)
      BY <2>4, Zenon DEF Pipeline, Types, Items
    <3> QED BY <2>2, <2>4, <3>1, Zenon DEF ItemsInv
  <2> QED BY <2>1, <2>3, <2>4, Zenon DEF ItemsInv, Importing
<1>2. ASSUME UNCHANGED <<leader, item>>, backlog' = <<>>, ~Importing' PROVE ItemsInv'
  BY <1>2 DEF ItemsInv
<1>3. ASSUME UNCHANGED <<leader, item, backlog>>, pc # "idle", Importing' => Importing PROVE ItemsInv'
  BY <1>3, Zenon DEF ItemsInv, Importing
<1>4. CASE UNCHANGED <<leader, item, backlog, pc>>
  BY <1>4, Zenon DEF ItemsInv, Importing
<1>5. CASE PassOn
  <2>1. CASE "worker" \in alive
    <3>1. /\ tasks # <<>> /\ tasks[1] \in Fetches /\ UNCHANGED <<leader, item, pc>>
          /\ backlog' = Append(backlog, PostProcess(tasks[1].number))
      BY <1>5, <2>1 DEF PassOn, NextFetched, Types, netVars, workVars
    <3>2. PostProcess(tasks[1].number) = Received(leader, tasks[1].number)
      BY Zenon DEF PostProcess, Received, Block
    <3>3. /\ backlog \in Seq(Items) /\ Len(backlog) \in Nat
          /\ PostProcess(tasks[1].number) \in Items
          /\ PostProcess(tasks[1].number).number = tasks[1].number
      BY <3>1, PostProcessType DEF Types, Fetches
    <3>4. /\ DOMAIN backlog = 1..Len(backlog) /\ DOMAIN backlog' = 1..(Len(backlog) + 1)
          /\ \A i \in 1..Len(backlog) : backlog'[i] = backlog[i]
          /\ backlog'[Len(backlog) + 1] = PostProcess(tasks[1].number)
      BY <3>1, <3>3, AppendProperties
    <3>5. \A i \in DOMAIN backlog' : i \in DOMAIN backlog \/ i = Len(backlog) + 1
      BY <3>3, <3>4
    <3>6. pc # "idle"
      BY <2>1, Zenon DEF Pipeline
    <3> QED BY <3>1, <3>2, <3>3, <3>4, <3>5, <3>6, Zenon DEF ItemsInv, Importing
  <2>2. CASE "worker" \notin alive
    BY <1>4, <1>5, <2>2, Zenon DEF PassOn, netVars, workVars
  <2> QED BY <2>1, <2>2, Zenon
<1>6. CASE Receive
  <2>1. CASE PastTarget(Head(backlog).number)
    <3>1. UNCHANGED <<leader, item>> /\ backlog' = <<>> /\ pc' = "idle"
      BY <1>6, <2>1, Zenon DEF Receive, WorkerEnds, netVars
    <3> QED BY <1>2, <3>1, Zenon DEF Importing
  <2>2. CASE ~PastTarget(Head(backlog).number)
    <3>1. /\ UNCHANGED leader /\ item' = Head(backlog) /\ backlog' = Tail(backlog) /\ backlog # <<>>
          /\ pc = "recv"
      BY <1>6, <2>2, Zenon DEF Receive, netVars
    <3>2. backlog \in Seq(Items) /\ Len(backlog) \in Nat /\ Len(backlog) > 0
      BY <3>1 DEF Types
    <3>3. /\ Len(backlog') = Len(backlog) - 1 /\ backlog' \in Seq(Items)
          /\ \A i \in 1..Len(backlog') : backlog'[i] = backlog[i + 1]
      BY <3>1, <3>2, HeadTailProperties, Zenon
    <3>4. item' = backlog[1] /\ 1 \in DOMAIN backlog
      BY <3>1, <3>2
    <3>5. \A i \in DOMAIN backlog' : i \in 1..Len(backlog') /\ i + 1 \in DOMAIN backlog
      BY <3>2, <3>3
    <3> QED BY <3>1, <3>3, <3>4, <3>5, Zenon DEF ItemsInv
  <2> QED BY <2>1, <2>2, Zenon
<1>7. CASE Reopen \/ CancelRuntime \/ Boot \/ InitImporter
  <2>1. /\ leader' = leader /\ backlog' = <<>> /\ pc' \in {"idle", "recv"}
    BY <1>7, Zenon DEF Reopen, CancelRuntime, Boot, InitImporter, Start, netVars
  <2> QED BY <2>1 DEF ItemsInv, Importing
<1>8. CASE ChannelClosed \/ ImportFails
  <2>1. CASE Reopen
    BY <1>7, <2>1, Zenon
  <2>2. CASE ~Reopen
    <3>1. UNCHANGED <<leader, item>> /\ backlog' = <<>> /\ pc' = "idle"
      BY <1>8, <2>2, Zenon DEF ChannelClosed, ImportFails, WorkerEnds, netVars
    <3> QED BY <1>2, <3>1, Zenon DEF Importing
  <2> QED BY <2>1, <2>2, Zenon
<1>9. ASSUME NEW t \in Tasks, TaskShutdown(t) PROVE ItemsInv'
  <2>1. CASE t = "worker"
    <3>1. UNCHANGED <<leader, item>> /\ backlog' = <<>> /\ pc' = "idle"
      BY <1>9, <2>1, Zenon DEF TaskShutdown, netVars
    <3> QED BY <1>2, <3>1, Zenon DEF Importing
  <2>2. CASE t # "worker"
    BY <1>4, <1>9, <2>2, Zenon DEF TaskShutdown, netVars
  <2> QED BY <2>1, <2>2, Zenon
<1>10. CASE ExecuteBlock \/ MineBlock \/ Compare \/ SendToKafka \/ CompleteAndFinish \/ CommitBlock
  <2>1. UNCHANGED <<leader, item, backlog>> /\ pc \notin {"idle", "recv"}
    BY <1>10, Zenon DEF ExecuteBlock, MineBlock, Compare, SendToKafka, CompleteAndFinish,
       CommitBlock,
       netVars
  <2> QED BY <1>3, <2>1, Zenon DEF Importing
<1>11. CASE \/ \E n \in 0..MaxHead - 1 : SetExternalCurrent(n)
            \/ HeardExpires \/ FetchBatch \/ UpdateHealth \/ UNCHANGED vars \/ PostProcessFails
            \/ \E i \in 1..Parallel : FetchBlock(i)
  BY <1>4, <1>11, Zenon DEF SetExternalCurrent, HeardExpires, FetchBatch, FetchBlock, UpdateHealth,
     PostProcessFails, vars, netVars, workVars
<1> QED
  BY <1>1, <1>5, <1>6, <1>7, <1>8, <1>9, <1>10, <1>11, Zenon DEF Next, FetcherNext, WorkerNext,
     Crash

\* What a transaction executed on the follower reads when the temporary storage holds nothing.
LEMMA ViewOfDatabase ==
    ASSUME NEW chain, NEW n, NEW a, a = Written(chain, n)
    PROVE  [f \in Fields |-> IF f \in DOMAIN NoAccount THEN NoAccount[f] ELSE a[f]] = a
BY Zenon DEF NoAccount, Written

\* The database's account is the leader's after the blocks it holds.
LEMMA AccountStep ==
    Resumable /\ ReplicaInv /\ ItemsInv /\ AccountInv /\ [Next]_vars => AccountInv'
<1> SUFFICES ASSUME Resumable, ReplicaInv, ItemsInv, AccountInv, [Next]_vars PROVE AccountInv'
  BY Zenon
<1> USE DEF ReplicaInv
<1>1. NextBlock \in Nat /\ Len(leader) \in Nat /\ NextBlock <= Len(leader)
  BY Numbers, ChainIs, Zenon
<1>2. Changed => Importing
  BY Zenon DEF Changed, Importing
<1>3. ASSUME UNCHANGED <<leader, blocks, mined, account, latest>>, ~CommitBlock, ~Reopen,
             Changed' => Changed /\ UNCHANGED changes /\ (pc' # "mine" => pc # "mine")
      PROVE  AccountInv'
  <2>1. NextBlock' = NextBlock /\ View' = View
    BY <1>3, Zenon DEF NextBlock, View
  <2>2. Steady' => Steady
    BY <1>3, SteadyStep, Zenon
  <2> QED BY <1>3, <2>1, <2>2, Zenon DEF AccountInv
<1>4. ASSUME NEW fs \in SUBSET Fields, LeaderMine(fs) PROVE AccountInv'
  <2>1. UNCHANGED <<blocks, mined, account, latest, changes, pc, alive, shutdown, setup, boot>>
    BY <1>4, Zenon DEF LeaderMine, workVars, tempVars, permVars, setupVars
  <2>2. /\ NextBlock' = NextBlock /\ View' = View
        /\ Steady' <=> Steady
        /\ Changed' <=> Changed
    BY <2>1, Zenon DEF NextBlock, View, Steady, Changed
  <2>3. ASSUME NEW n \in Nat, n <= Len(leader) PROVE Written(leader', n) = Written(leader, n)
    <3>1. \A i \in 1..n : leader'[i] = leader[i]
      BY <1>1, <1>4, <2>3, LeaderGrows
    <3> QED BY <3>1, WrittenSame, Zenon
  <2>4. Written(leader', NextBlock) = Written(leader, NextBlock)
    BY <1>1, <2>3, Zenon
  <2>5. Changed => Written(leader', NextBlock + 1) = Written(leader, NextBlock + 1)
    <3>1. Changed => NextBlock + 1 \in Nat /\ NextBlock + 1 <= Len(leader)
      BY <1>1, <1>2 DEF Pipeline
    <3> QED BY <2>3, <3>1, Zenon
  <2> QED BY <2>1, <2>2, <2>4, <2>5, Zenon DEF AccountInv
<1>5. CASE ExecuteBlock
  <2>1. /\ UNCHANGED <<leader, blocks, mined, account, latest, setup, boot, alive, shutdown>>
        /\ pc = "execute" /\ pc' = "mine"
        /\ changes' = [f \in Fields |-> IF f \in leader[item.number + 1] THEN item.number + 1 ELSE View[f]]
    BY <1>5, Zenon DEF ExecuteBlock, netVars, permVars, setupVars, Block
  <2>2. item.number = NextBlock /\ View = Written(leader, NextBlock) /\ alive # {}
    BY <2>1, Zenon DEF Pipeline, Importing, AccountInv, Steady
  <2>3. changes' = Written(leader, NextBlock + 1)
    BY <1>1, <2>1, <2>2, WrittenNext
  <2>4. NextBlock' = NextBlock /\ ~Steady'
    BY <2>1, <2>2, Zenon DEF NextBlock, Steady
  <2> QED BY <2>1, <2>3, <2>4, Zenon DEF AccountInv
<1>6. CASE MineBlock
  <2>1. /\ UNCHANGED <<leader, blocks, mined, account, changes, setup, boot, alive, shutdown>>
        /\ pc = "mine" /\ pc' \in {"compare", "kafka"} /\ latest' = changes
    BY <1>6, Zenon DEF MineBlock, netVars, permVars, setupVars
  <2>2. setup.mode # "replication" /\ alive # {}
    BY <2>1, Zenon DEF Resumes, Pipeline
  <2>3. NextBlock' = NextBlock /\ ~Steady'
    BY <2>1, <2>2, Zenon DEF NextBlock, Steady
  <2>4. Changed
    BY <2>1, Zenon DEF Changed
  <2> QED BY <2>1, <2>3, <2>4, Zenon DEF AccountInv
<1>7. CASE CompleteAndFinish
  <2>1. /\ UNCHANGED <<leader, blocks, mined, account, setup, boot, alive, shutdown>>
        /\ pc = "complete" /\ pc' = "commit" /\ latest' = NoAccount
        /\ changes' = [f \in Fields |-> IF item.changes[f] = Unset THEN account[f] ELSE item.changes[f]]
    BY <1>7, Zenon DEF CompleteAndFinish, netVars, permVars, setupVars
  <2>2. item.number = NextBlock /\ item = Received(leader, NextBlock) /\ alive # {}
    BY <2>1, Zenon DEF Pipeline, Importing, ItemsInv
  <2>3. \A f \in Fields : item.changes[f] = IF f \in leader[NextBlock + 1] THEN NextBlock + 1 ELSE Unset
    BY <2>2 DEF Received
  <2>4. account = Written(leader, NextBlock)
    BY Zenon DEF AccountInv
  <2>5. changes' = Written(leader, NextBlock + 1)
    <3>1. Written(leader, NextBlock + 1) =
            [f \in Fields |-> IF f \in leader[NextBlock + 1] THEN NextBlock + 1 ELSE account[f]]
      <4>1. Written(leader, NextBlock + 1) =
              [f \in Fields |-> IF f \in leader[NextBlock + 1] THEN NextBlock + 1
                                ELSE Written(leader, NextBlock)[f]]
        BY <1>1, WrittenNext, Zenon
      <4>2. QED
        BY <2>4, <4>1, Zenon
    <3>2. NextBlock + 1 # Unset
      BY <1>1, ImporterAssumption
    <3> QED BY <2>1, <2>3, <3>1, <3>2, Zenon
  <2>6. NextBlock' = NextBlock /\ ~Steady'
    BY <2>1, <2>2, Zenon DEF NextBlock, Steady
  <2> QED BY <2>1, <2>4, <2>5, <2>6, Zenon DEF AccountInv
<1>8. CASE CommitBlock
  <2>1. /\ UNCHANGED <<leader, latest, setup, boot, alive, shutdown>> /\ pc = "commit" /\ pc' = "recv"
        /\ account' = IF leader[item.number + 1] = {} THEN account ELSE changes
    BY <1>8, Zenon DEF CommitBlock, netVars, tempVars, setupVars, Block
  <2>2. item.number = NextBlock /\ item.number < Len(leader)
    BY <2>1, Zenon DEF Pipeline, Importing
  <2>3. NextBlock' = NextBlock + 1
    BY <1>8, <2>2, SaveExtends, Zenon
  <2>4. /\ account = Written(leader, NextBlock) /\ changes = Written(leader, NextBlock + 1)
        /\ latest \in {NoAccount, changes}
    BY <2>1, Zenon DEF AccountInv, Changed
  <2>5. leader[NextBlock + 1] = {} => Written(leader, NextBlock + 1) = account
    <3>1. Written(leader, NextBlock + 1) =
            [f \in Fields |-> IF f \in leader[NextBlock + 1] THEN NextBlock + 1 ELSE account[f]]
      <4>1. Written(leader, NextBlock + 1) =
              [f \in Fields |-> IF f \in leader[NextBlock + 1] THEN NextBlock + 1
                                ELSE Written(leader, NextBlock)[f]]
        BY <1>1, WrittenNext, Zenon
      <4>2. QED
        BY <2>4, <4>1, Zenon
    <3>2. account = [f \in Fields |-> account[f]]
      BY <2>4, Zenon DEF Written
    <3> QED BY <3>1, <3>2, Zenon
  <2>6. account' = Written(leader, NextBlock + 1)
    BY <2>1, <2>2, <2>4, <2>5, Zenon
  <2>7. View' = account'
    <3>1. View' = [f \in Fields |-> IF f \in DOMAIN latest THEN latest[f] ELSE account'[f]]
      BY <2>1, Zenon DEF View
    <3>2. CASE latest = NoAccount
      BY <2>6, <3>1, <3>2, ViewOfDatabase, Zenon
    <3>3. CASE latest = changes
      <4>1. latest = Written(leader, NextBlock + 1)
        BY <2>4, <3>3, Zenon
      <4>2. View' = latest
        <5>1. DOMAIN latest = Fields /\ latest = [f \in Fields |-> latest[f]]
          BY <4>1, Zenon DEF Written
        <5> QED BY <3>1, <5>1, Zenon
      <4> QED BY <2>6, <4>1, <4>2, Zenon
    <3> QED BY <2>4, <3>2, <3>3, Zenon
  <2>8. ~Changed'
    BY <2>1, Zenon DEF Changed
  <2> QED BY <2>1, <2>3, <2>6, <2>7, <2>8, Zenon DEF AccountInv
<1>9. CASE Reopen
  <2>1. UNCHANGED <<leader, blocks, mined>>
    BY <1>9, ReopenFinds, Zenon
  <2>2. account' = account /\ latest' = NoAccount /\ pc' = "idle"
    BY <1>9, Zenon DEF Reopen
  <2>3. NextBlock' = NextBlock /\ ~Changed'
    BY <2>1, <2>2, Zenon DEF NextBlock, Changed
  <2>4. account = Written(leader, NextBlock)
    BY Zenon DEF AccountInv
  <2>5. View' = account
    <3>1. View' = [f \in Fields |-> IF f \in DOMAIN NoAccount THEN NoAccount[f] ELSE account[f]]
      BY <2>2, Zenon DEF View
    <3> QED BY <2>4, <3>1, ViewOfDatabase, Zenon
  <2> QED BY <2>1, <2>2, <2>3, <2>4, <2>5, Zenon DEF AccountInv
<1>10. CASE ~CommitBlock /\ ~Reopen /\ (Compare \/ SendToKafka)
  <2>1. /\ UNCHANGED <<leader, blocks, mined, account, latest, changes, setup>>
        /\ pc # "mine"
        /\ \/ pc = "compare" /\ pc' = "commit"
           \/ pc = "kafka" /\ pc' = IF setup.mode = "replication" THEN "complete" ELSE "commit"
    BY <1>10, Zenon DEF Compare, SendToKafka, netVars, permVars, tempVars, setupVars
  <2>2. Changed' => Changed
    BY <2>1, Zenon DEF Changed
  <2> QED BY <1>3, <1>10, <2>1, <2>2, Zenon
<1>11. CASE /\ ~CommitBlock /\ ~Reopen
            /\ \/ Boot \/ InitImporter \/ Receive \/ ChannelClosed \/ ImportFails \/ CancelRuntime
               \/ \E t \in Tasks : TaskShutdown(t)
  <2>1. /\ UNCHANGED <<leader, blocks, mined, account, latest>>
        /\ \/ pc' \in {"idle", "recv", "execute"} \/ (pc' = "kafka" /\ setup'.mode = "replication")
           \/ UNCHANGED <<pc, changes, setup>>
    BY <1>11, Zenon DEF Boot, InitImporter, Start, Receive, ChannelClosed, ImportFails,
       CancelRuntime,
       WorkerEnds, TaskShutdown, netVars, permVars, tempVars, setupVars
  <2>2. Changed' => Changed /\ UNCHANGED <<changes, pc>>
    BY <2>1, Zenon DEF Changed
  <2> QED BY <1>3, <1>11, <2>1, <2>2, Zenon
<1>12. CASE /\ ~CommitBlock /\ ~Reopen
            /\ \/ \E n \in 0..MaxHead - 1 : SetExternalCurrent(n)
               \/ HeardExpires \/ FetchBatch \/ UpdateHealth \/ UNCHANGED vars
               \/ PassOn \/ PostProcessFails
               \/ \E i \in 1..Parallel : FetchBlock(i)
  <2>1. UNCHANGED <<leader, blocks, mined, account, latest, changes, pc, setup>>
    BY <1>12, Zenon DEF SetExternalCurrent, HeardExpires, FetchBatch, FetchBlock, UpdateHealth,
       PassOn,
       PostProcessFails, vars, netVars, permVars, tempVars, setupVars, workVars
  <2> QED BY <1>3, <1>12, <2>1, Zenon DEF Changed
<1> QED
  BY <1>4, <1>5, <1>6, <1>7, <1>8, <1>9, <1>10, <1>11, <1>12, Zenon
  DEF Next, FetcherNext, WorkerNext, Crash

\* The follower starts with an empty database, which is the leader's before its first block.
LEMMA InitAccount == Init => ItemsInv /\ AccountInv
<1> SUFFICES ASSUME Init PROVE ItemsInv /\ AccountInv
  BY Zenon
<1>1. /\ leader = <<>> /\ DOMAIN blocks = {} /\ pc = "idle" /\ latest = NoAccount
      /\ account = [f \in Fields |-> 0]
  BY Zenon DEF Init
<1>2. NextBlock = 0 /\ ~Changed /\ ~Importing
  BY <1>1, Zenon DEF NextBlock, Changed, Importing
<1>3. account = Written(leader, 0)
  <2>1. \A f \in Fields : Last(Writers(leader, 0, f)) = 0
    BY DEF Last, Writers
  <2> QED BY <1>1, <2>1, Zenon DEF Written
<1>4. View = account
  BY <1>1, <1>3, ViewOfDatabase, Zenon DEF View
<1> QED BY <1>1, <1>2, <1>3, <1>4, Zenon DEF ItemsInv, AccountInv

\* After every commit the follower's account is the one the leader had after that block, for all
\* three kinds of follower, any number of fields and blocks, and whatever fails, is cancelled or
\* crashes (State::complete, execute_external_block, commit_block).
THEOREM Accounts == ASSUME Resumable PROVE Spec => []AccountMatches
<1>1. ReplicaInv /\ ItemsInv /\ AccountInv /\ [Next]_vars => ItemsInv' /\ AccountInv'
  BY ItemsStep, AccountStep, Zenon
<1>2. ReplicaInv /\ AccountInv => AccountMatches
  <2> SUFFICES ASSUME ReplicaInv, AccountInv PROVE AccountMatches
    BY Zenon
  <2>1. Height = NextBlock /\ account = Written(leader, NextBlock)
    BY HeightIs, Zenon DEF ReplicaInv, AccountInv
  <2>2. LeaderAccount(Height) = Written(leader, Height)
    BY Zenon DEF LeaderAccount, Written, Writers, Last
  <2> QED BY <2>1, <2>2, Zenon DEF AccountMatches
<1> QED BY <1>1, <1>2, InitAccount, Replicates, PTL DEF Spec

(***************************************************************************)
(* Kafka.                                                                  *)
(***************************************************************************)
\* Every block is sent by the process that commits it: no importer was started again without
\* the connector, and the fake leader, which sends nothing, has none.
Connected == ~Reinit /\ \A b \in Boots : b.mode = "fake" => ~b.kafka

Holds(es, n) == \E i \in DOMAIN es : es[i] = n

EventsInv ==
    /\ setup = boot
    /\ events \in Seq(Nat)
    /\ setup.kafka => /\ \A n \in DOMAIN blocks : Holds(events, n)
                      /\ pc \in {"complete", "commit"} => Holds(events, item.number)

\* Kafka forgets nothing.
LEMMA HoldsStays ==
    ASSUME NEW es \in Seq(Nat), NEW n \in Nat
    PROVE  /\ Append(es, n) \in Seq(Nat)
           /\ Holds(Append(es, n), n)
           /\ \A m : Holds(es, m) => Holds(Append(es, n), m)
<1>1. /\ Append(es, n) \in Seq(Nat) /\ Len(es) \in Nat
      /\ DOMAIN es = 1..Len(es) /\ DOMAIN Append(es, n) = 1..(Len(es) + 1)
      /\ \A i \in 1..Len(es) : Append(es, n)[i] = es[i]
      /\ Append(es, n)[Len(es) + 1] = n
  BY AppendProperties
<1>2. Len(es) + 1 \in DOMAIN Append(es, n) /\ \A i \in DOMAIN es : i \in DOMAIN Append(es, n)
  BY <1>1
<1> QED BY <1>1, <1>2, Zenon DEF Holds

\* A block reaches the commit, or the step before it, only after its events were delivered.
LEMMA EventsStep == Connected /\ ReplicaInv /\ EventsInv /\ [Next]_vars => EventsInv'
<1> SUFFICES ASSUME Connected, ReplicaInv, EventsInv, [Next]_vars PROVE EventsInv'
  BY Zenon
<1> USE DEF ReplicaInv
<1>1. item.number \in Nat /\ events \in Seq(Nat)
  BY Zenon DEF Types, Items, EventsInv
<1>2. ASSUME UNCHANGED <<setup, boot, blocks>>, pc' \notin {"complete", "commit"},
             events' = events \/ events' = Append(events, item.number)
      PROVE  EventsInv'
  <2>1. events' \in Seq(Nat) /\ \A n : Holds(events, n) => Holds(events', n)
    BY <1>1, <1>2, HoldsStays, Zenon
  <2> QED BY <1>2, <2>1, Zenon DEF EventsInv
<1>3. ASSUME UNCHANGED <<setup, boot, blocks, events, pc, item>> PROVE EventsInv'
  BY <1>3, Zenon DEF EventsInv, Holds
<1>4. CASE Boot
  <2>1. setup' = boot /\ boot' = boot /\ UNCHANGED <<blocks, events>> /\ pc' = "recv"
    BY <1>4, Zenon DEF Boot, Start, permVars
  <2>2. setup' = setup
    BY <2>1, Zenon DEF EventsInv
  <2> QED BY <1>2, <2>1, <2>2, Zenon
<1>5. CASE InitImporter
  BY <1>5, Zenon DEF InitImporter, Connected
<1>6. CASE Reopen /\ (events' = events \/ events' = Append(events, item.number))
  <2>1. UNCHANGED <<setup, boot, blocks>> /\ pc' = "idle"
    BY <1>6, Zenon DEF Reopen, setupVars
  <2> QED BY <1>2, <1>6, <2>1, Zenon
<1>7. CASE Receive \/ ChannelClosed \/ ExecuteBlock \/ MineBlock
  <2>1. UNCHANGED <<setup, boot, blocks, events>> /\ pc' \in {"idle", "kafka", "execute", "mine", "compare"}
    BY <1>7, Zenon DEF Receive, ChannelClosed, WorkerEnds, ExecuteBlock, MineBlock, setupVars,
       permVars
  <2> QED BY <1>2, <2>1, Zenon
<1>8. CASE Compare
  <2>1. UNCHANGED <<setup, boot, blocks, events>> /\ pc = "compare"
    BY <1>8, Zenon DEF Compare, setupVars, permVars
  <2>2. ~setup.kafka
    BY <2>1, Zenon DEF Resumes, Types, EventsInv, Connected
  <2> QED BY <2>1, <2>2, Zenon DEF EventsInv
<1>9. CASE SendToKafka
  <2>1. /\ UNCHANGED <<setup, boot, blocks, item>>
        /\ events' = IF setup.kafka THEN Append(events, item.number) ELSE events
    BY <1>9, Zenon DEF SendToKafka, setupVars, permVars
  <2>2. events' \in Seq(Nat)
    BY <1>1, <2>1, HoldsStays, Zenon
  <2>3. setup.kafka => Holds(events', item.number) /\ \A n : Holds(events, n) => Holds(events', n)
    BY <1>1, <2>1, HoldsStays, Zenon
  <2> QED BY <2>1, <2>2, <2>3, Zenon DEF EventsInv
<1>10. CASE CompleteAndFinish
  <2>1. UNCHANGED <<setup, boot, blocks, events, item>> /\ pc = "complete"
    BY <1>10, Zenon DEF CompleteAndFinish, setupVars, permVars
  <2> QED BY <2>1, Zenon DEF EventsInv, Holds
<1>11. CASE CommitBlock
  <2>1. /\ UNCHANGED <<setup, boot, events, item>> /\ pc = "commit" /\ pc' = "recv"
        /\ DOMAIN blocks' = DOMAIN blocks \cup {item.number}
    BY <1>11, Zenon DEF CommitBlock, setupVars
  <2> QED BY <2>1, Zenon DEF EventsInv, Holds
<1>12. CASE ImportFails \/ CancelRuntime \/ Crash
  <2>1. events' = events \/ events' = Append(events, item.number)
    BY <1>12, Zenon DEF ImportFails, CancelRuntime, Crash, MaybeDelivered
  <2>2. Reopen \/ (UNCHANGED <<setup, boot, blocks>> /\ pc' = "idle")
    BY <1>12, Zenon DEF ImportFails, CancelRuntime, Crash, WorkerEnds, setupVars, permVars
  <2> QED BY <1>2, <1>6, <2>1, <2>2, Zenon
<1>13. ASSUME NEW t \in Tasks, TaskShutdown(t) PROVE EventsInv'
  <2>1. UNCHANGED <<setup, boot, blocks, events, item>> /\ (pc' = pc \/ pc' = "idle")
    BY <1>13, Zenon DEF TaskShutdown, setupVars, permVars
  <2> QED BY <1>2, <1>3, <2>1, Zenon
<1>14. CASE \/ \E fs \in SUBSET Fields : LeaderMine(fs)
            \/ \E n \in 0..MaxHead - 1 : SetExternalCurrent(n)
            \/ HeardExpires \/ FetchBatch \/ UpdateHealth \/ UNCHANGED vars
            \/ PassOn \/ PostProcessFails
            \/ \E i \in 1..Parallel : FetchBlock(i)
  <2>1. UNCHANGED <<setup, boot, blocks, events, pc, item>>
    BY <1>14, Zenon DEF LeaderMine, SetExternalCurrent, HeardExpires, FetchBatch, FetchBlock,
       UpdateHealth, PassOn, PostProcessFails, vars, setupVars, permVars, workVars
  <2> QED BY <1>3, <2>1, Zenon
<1> QED
  BY <1>4, <1>5, <1>7, <1>8, <1>9, <1>10, <1>11, <1>12, <1>13, <1>14, Zenon
  DEF Next, FetcherNext, WorkerNext

\* No block is committed before its events were delivered, whatever fails, crashes or is retried:
\* send_block_to_kafka is awaited before the commit.
THEOREM EventsFirst == ASSUME Connected PROVE Spec => []EventsBeforeCommit
<1>1. Resumable
  BY Zenon DEF Connected, Resumable
<1>2. Init => EventsInv
  BY DEF Init, EventsInv
<1>3. ReplicaInv /\ EventsInv /\ [Next]_vars => EventsInv'
  BY EventsStep, Zenon
<1>4. EventsInv => EventsBeforeCommit
  BY Zenon DEF EventsInv, EventsBeforeCommit, Holds
<1>5. Spec => []ReplicaInv
  BY <1>1, Replicates, Zenon
<1> QED BY <1>2, <1>3, <1>4, <1>5, PTL DEF Spec
=============================================================================
