--------------------------- MODULE NodeModeProofs ---------------------------
(***************************************************************************)
(* Proofs about NodeMode, for every number of administrators and clients:  *)
(* a node never imports next to its own miner, block numbers follow across *)
(* mode changes, and a follower has drained what it accepted as a leader.  *)
(***************************************************************************)
EXTENDS NodeMode, TLAPS

(***************************************************************************)
(* The inductive invariant.                                                *)
(***************************************************************************)
ShutdownSteps == {"shutdown", "take_runtime", "signal", "join"}
LeaderSteps == {"wait", "interval", "start_miner", "set_leader"}
FollowerSteps == {"check_pending", "external", "stop_miner", "join_miner", "set_follower", "init",
                  "start", "set_importer", "set_runtime"}

Types ==
    /\ nodeMode \in {"leader", "follower"}
    /\ change \in Admins \cup {None}
    /\ pc \in [Admins -> {"idle"} \cup ShutdownSteps \cup LeaderSteps \cup FollowerSteps]
    /\ call \in [Admins -> {"none", "leader", "follower", "shutdown"}]
    /\ shutdown \in BOOLEAN
    /\ tasks \in {"none", "spawned", "running"}
    /\ worker \in {"idle", "check", "wait", "mine", "commit"}
    /\ minerMode \in {"interval", "external"}
    /\ miner \in {"none", "idle", "mine", "commit"}
    /\ {next, mined} \subseteq Nat
    /\ pending \in [number : Nat, txs : SUBSET Clients, stale : SUBSET Clients]
    /\ {finished, late} \subseteq SUBSET Clients
    /\ reply \in [Clients -> {"new", "enabled", "disabled", "local", "forwarded", "unavailable", "ok"}]

\* Whether an administrator's call is one that changes the mode.
Changing(a) == pc[a] # "idle" /\ call[a] # "shutdown"

\* The permit of MODE_CHANGE_SEMAPHORE is held by the one call that changes the mode, and
\* every call is at a step of its own handler.
PermitInv ==
    \A a \in Admins :
        /\ Changing(a) <=> change = a
        /\ pc[a] \in ShutdownSteps => call[a] \in {"leader", "shutdown"}
        /\ pc[a] \in LeaderSteps => call[a] = "leader"
        /\ pc[a] \in FollowerSteps => call[a] = "follower"

\* What the modes say of the importer's tasks and of the miner's thread.
ModeInv ==
    /\ nodeMode = "leader" => tasks = "none" /\ shutdown
    /\ tasks # "none" => minerMode = "external"
    /\ minerMode = "external" => miner = "none"
    /\ worker # "idle" => tasks = "running"

\* What the call that changes the mode has established at each of its steps.
ChangeInv(a) ==
    /\ pc[a] \in {"check_pending", "external", "stop_miner", "join_miner", "set_follower"}
         => nodeMode = "leader"
    /\ pc[a] \in {"start_miner", "set_follower", "init", "start"} => minerMode = "external"
    /\ pc[a] \in {"init", "start"} => nodeMode = "follower" /\ tasks = "none"
    /\ pc[a] = "init" => shutdown
    /\ Changing(a) /\ call[a] = "leader" => nodeMode = "follower" /\ tasks # "spawned"
    /\ Changing(a) /\ pc[a] \in {"join"} \cup LeaderSteps => shutdown
    /\ pc[a] \in {"interval", "start_miner", "set_leader"} => tasks = "none"

\* Where a transaction answered "ok" is, and that those in the pending block of a node
\* whose miner is external are late.
DrainInv ==
    /\ pending.stale \subseteq pending.txs
    /\ PastPendingChecks => pending.txs \subseteq late
    /\ miner # "commit" => finished \subseteq late
    /\ \A c \in Clients : reply[c] = "ok" => c \in late \cup pending.txs \cup finished \cup committed

\* NumbersFollow, and the worker's next block at its other steps.
NumbersInv ==
    late = {} => /\ worker # "idle" => next = mined + 1
                 /\ pending.number = mined + (IF "commit" \in {worker, miner} THEN 2 ELSE 1)

Inv == Types /\ PermitInv /\ ModeInv /\ (\A a \in Admins : ChangeInv(a)) /\ DrainInv /\ NumbersInv

\* Everything an administrator's call does.
AdminAction(a) ==
    \/ \E to \in {"leader", "follower"} : BeginChange(a, to)
    \/ BeginShutdown(a) \/ InitFails(a) \/ AdminStep(a)

-----------------------------------------------------------------------------
(***************************************************************************)
(* Type correctness.                                                       *)
(***************************************************************************)
LEMMA AdminTypes == ASSUME NEW a \in Admins, Types, AdminStep(a) PROVE Types'
<1> USE DEF Types, Goto, Return, AfterShutdown, ShutdownSteps, LeaderSteps, FollowerSteps,
            importVars, taskVars, minerVars, chainVars, clientVars
<1>1. CASE ShutdownImporter(a) BY <1>1 DEF ShutdownImporter
<1>2. CASE TakeRuntime(a) BY <1>2 DEF TakeRuntime
<1>3. CASE SignalShutdown(a) BY <1>3 DEF SignalShutdown
<1>4. CASE JoinRuntime(a) BY <1>4 DEF JoinRuntime
<1>5. CASE WaitForImporter(a) BY <1>5 DEF WaitForImporter
<1>6. CASE CheckInterval(a) BY <1>6 DEF CheckInterval
<1>7. CASE StartIntervalMining(a) BY <1>7, Zenon DEF StartIntervalMining
<1>8. CASE SetLeader(a) BY <1>8 DEF SetLeader
<1>9. CASE CheckPending(a) BY <1>9 DEF CheckPending
<1>10. CASE CheckExternal(a) BY <1>10 DEF CheckExternal
<1>11. CASE CancelMiner(a) BY <1>11 DEF CancelMiner
<1>12. CASE SwitchToExternal(a) BY <1>12 DEF SwitchToExternal
<1>13. CASE SetFollower(a) BY <1>13 DEF SetFollower
<1>14. CASE InitImporter(a)
  <2>1. CASE shutdown BY <1>14, <2>1, Zenon DEF InitImporter
  <2>2. CASE ~shutdown BY <1>14, <2>2, Zenon DEF InitImporter
  <2> QED BY <2>1, <2>2, Zenon
<1>15. CASE StartImporter(a) BY <1>15, Zenon DEF StartImporter
<1>16. CASE SetImporter(a) BY <1>16 DEF SetImporter
<1>17. CASE SetRuntime(a) BY <1>17 DEF SetRuntime
<1> QED BY <1>1, <1>2, <1>3, <1>4, <1>5, <1>6, <1>7, <1>8, <1>9, <1>10, <1>11, <1>12, <1>13,
     <1>14, <1>15, <1>16, <1>17, Zenon DEF AdminStep

\* A call that arrives, and one that fails to start the importer.
LEMMA BeginTypes ==
    ASSUME NEW a \in Admins, Types,
           \/ \E to \in {"leader", "follower"} : BeginChange(a, to)
           \/ BeginShutdown(a) \/ InitFails(a)
    PROVE  Types'
<1> USE DEF Types, Return, ShutdownSteps, LeaderSteps, FollowerSteps, importVars, taskVars,
            minerVars, chainVars, clientVars
<1>1. ASSUME NEW to \in {"leader", "follower"}, BeginChange(a, to) PROVE Types'
  BY <1>1 DEF BeginChange
<1>2. CASE BeginShutdown(a) BY <1>2 DEF BeginShutdown
<1>3. CASE InitFails(a) BY <1>3 DEF InitFails
<1> QED BY <1>1, <1>2, <1>3, Zenon

\* The importer's worker.
LEMMA ImporterTypes == ASSUME Types, ImporterStep PROVE Types'
<1> USE DEF Types, NewPending, importRest, ShutdownSteps, LeaderSteps, FollowerSteps, adminVars,
            importVars, taskVars, minerVars, chainVars, clientVars
<1>1. CASE AcquirePermits BY <1>1, Zenon DEF AcquirePermits
<1>2. CASE TasksEnd BY <1>2, Zenon DEF TasksEnd
<1>3. CASE ReceiveBlock BY <1>3, Zenon DEF ReceiveBlock
<1>4. CASE ReceiveTimeout BY <1>4, Zenon DEF ReceiveTimeout
<1>5. CASE ExecuteExternal BY <1>5, Zenon DEF ExecuteExternal
<1>6. CASE MineExternal BY <1>6 DEF MineExternal
<1>7. CASE CommitExternal BY <1>7 DEF CommitExternal
<1> QED BY <1>1, <1>2, <1>3, <1>4, <1>5, <1>6, <1>7, Zenon DEF ImporterStep

\* The interval miner.
LEMMA MinerTypes == ASSUME Types, MinerStep PROVE Types'
<1> USE DEF Types, NewPending, minerRest, ShutdownSteps, LeaderSteps, FollowerSteps, adminVars,
            importVars, taskVars, minerVars, chainVars, clientVars
<1>1. CASE Tick BY <1>1 DEF Tick
<1>2. CASE MineLocal BY <1>2 DEF MineLocal
<1>3. CASE CommitLocal BY <1>3 DEF CommitLocal
<1>4. CASE MinerEnds BY <1>4 DEF MinerEnds
<1> QED BY <1>1, <1>2, <1>3, <1>4, Zenon DEF MinerStep

\* A client's transaction.
LEMMA ClientTypes == ASSUME NEW c \in Clients, Types, ClientStep(c) PROVE Types'
<1> USE DEF Types, clientRest, ShutdownSteps, LeaderSteps, FollowerSteps, adminVars, importVars,
            taskVars, minerVars, chainVars, clientVars
<1>1. CASE CheckEnabled(c) BY <1>1 DEF CheckEnabled
<1>2. CASE CheckMode(c) BY <1>2 DEF CheckMode
<1>3. CASE ExecuteLocal(c) BY <1>3 DEF ExecuteLocal
<1> QED BY <1>1, <1>2, <1>3, Zenon DEF ClientStep

\* The administrators' switches.
LEMMA SwitchTypes ==
    ASSUME NEW b \in BOOLEAN, Types, SetTransactionsEnabled(b) \/ SetPaused(b) PROVE Types'
BY DEF SetTransactionsEnabled, SetPaused, Types, ShutdownSteps, LeaderSteps, FollowerSteps,
       adminVars, importVars, taskVars, minerVars, chainVars, clientVars

(***************************************************************************)
(* One mode change at a time, and what it has established.                 *)
(***************************************************************************)
LEMMA AdminPermit == ASSUME NEW a \in Admins, Types, PermitInv, AdminStep(a) PROVE PermitInv'
<1> USE NodeModeAssumption DEF Types, PermitInv, Changing, Goto, Return, AfterShutdown,
            ShutdownSteps, LeaderSteps, FollowerSteps
<1>1. CASE ShutdownImporter(a) BY <1>1 DEF ShutdownImporter
<1>2. CASE TakeRuntime(a) BY <1>2 DEF TakeRuntime
<1>3. CASE SignalShutdown(a) BY <1>3 DEF SignalShutdown
<1>4. CASE JoinRuntime(a) BY <1>4 DEF JoinRuntime
<1>5. CASE WaitForImporter(a) BY <1>5 DEF WaitForImporter
<1>6. CASE CheckInterval(a) BY <1>6 DEF CheckInterval
<1>7. CASE StartIntervalMining(a) BY <1>7 DEF StartIntervalMining
<1>8. CASE SetLeader(a) BY <1>8 DEF SetLeader
<1>9. CASE CheckPending(a) BY <1>9 DEF CheckPending
<1>10. CASE CheckExternal(a) BY <1>10 DEF CheckExternal
<1>11. CASE CancelMiner(a) BY <1>11 DEF CancelMiner
<1>12. CASE SwitchToExternal(a) BY <1>12 DEF SwitchToExternal
<1>13. CASE SetFollower(a) BY <1>13 DEF SetFollower
<1>14. CASE InitImporter(a) BY <1>14 DEF InitImporter
<1>15. CASE StartImporter(a) BY <1>15 DEF StartImporter
<1>16. CASE SetImporter(a) BY <1>16 DEF SetImporter
<1>17. CASE SetRuntime(a) BY <1>17 DEF SetRuntime
<1> QED BY <1>1, <1>2, <1>3, <1>4, <1>5, <1>6, <1>7, <1>8, <1>9, <1>10, <1>11, <1>12, <1>13,
     <1>14, <1>15, <1>16, <1>17, Zenon DEF AdminStep

\* The steps of a mode change keep the importer's tasks and the miner's thread apart.
LEMMA AdminMode ==
    ASSUME NEW a \in Admins, Types, PermitInv, ModeInv, ChangeInv(a), AdminStep(a)
    PROVE  ModeInv'
<1> USE DEF Types, PermitInv, ModeInv, ChangeInv, Changing, Goto, Return, AfterShutdown,
            PermitsFree, ShutdownSteps, LeaderSteps, FollowerSteps, importVars, taskVars,
            minerVars, chainVars, clientVars
<1>1. CASE ShutdownImporter(a) BY <1>1, Zenon DEF ShutdownImporter
<1>2. CASE TakeRuntime(a) BY <1>2, Zenon DEF TakeRuntime
<1>3. CASE SignalShutdown(a) BY <1>3, Zenon DEF SignalShutdown
<1>4. CASE JoinRuntime(a) BY <1>4, Zenon DEF JoinRuntime
<1>5. CASE WaitForImporter(a) BY <1>5, Zenon DEF WaitForImporter
<1>6. CASE CheckInterval(a) BY <1>6, Zenon DEF CheckInterval
<1>7. CASE StartIntervalMining(a) BY <1>7, Zenon DEF StartIntervalMining
<1>8. CASE SetLeader(a) BY <1>8, Zenon DEF SetLeader
<1>9. CASE CheckPending(a) BY <1>9, Zenon DEF CheckPending
<1>10. CASE CheckExternal(a) BY <1>10, Zenon DEF CheckExternal
<1>11. CASE CancelMiner(a) BY <1>11, Zenon DEF CancelMiner
<1>12. CASE SwitchToExternal(a) BY <1>12, Zenon DEF SwitchToExternal
<1>13. CASE SetFollower(a) BY <1>13, Zenon DEF SetFollower
<1>14. CASE InitImporter(a) BY <1>14, Zenon DEF InitImporter
<1>15. CASE StartImporter(a) BY <1>15, Zenon DEF StartImporter
<1>16. CASE SetImporter(a) BY <1>16, Zenon DEF SetImporter
<1>17. CASE SetRuntime(a) BY <1>17, Zenon DEF SetRuntime
<1> QED BY <1>1, <1>2, <1>3, <1>4, <1>5, <1>6, <1>7, <1>8, <1>9, <1>10, <1>11, <1>12, <1>13,
     <1>14, <1>15, <1>16, <1>17, Zenon DEF AdminStep

\* A step of one call leaves what another has established: they exclude each other.
LEMMA AdminChange ==
    ASSUME NEW a \in Admins, NEW b \in Admins, Types, PermitInv, ModeInv, ChangeInv(a), ChangeInv(b),
           AdminStep(a), PermitInv'
    PROVE  ChangeInv(b)'
<1> USE NodeModeAssumption DEF Types, PermitInv, ModeInv, ChangeInv, Changing, Goto, Return,
            AfterShutdown, PermitsFree, ShutdownSteps, LeaderSteps, FollowerSteps, importVars,
            taskVars, minerVars, chainVars, clientVars
<1>1. CASE ShutdownImporter(a) BY <1>1 DEF ShutdownImporter
<1>2. CASE TakeRuntime(a) BY <1>2 DEF TakeRuntime
<1>3. CASE SignalShutdown(a) BY <1>3 DEF SignalShutdown
<1>4. CASE JoinRuntime(a) BY <1>4 DEF JoinRuntime
<1>5. CASE WaitForImporter(a) BY <1>5 DEF WaitForImporter
<1>6. CASE CheckInterval(a) BY <1>6 DEF CheckInterval
<1>7. CASE StartIntervalMining(a) BY <1>7 DEF StartIntervalMining
<1>8. CASE SetLeader(a) BY <1>8 DEF SetLeader
<1>9. CASE CheckPending(a) BY <1>9 DEF CheckPending
<1>10. CASE CheckExternal(a) BY <1>10 DEF CheckExternal
<1>11. CASE CancelMiner(a) BY <1>11 DEF CancelMiner
<1>12. CASE SwitchToExternal(a) BY <1>12 DEF SwitchToExternal
<1>13. CASE SetFollower(a) BY <1>13 DEF SetFollower
<1>14. CASE InitImporter(a) BY <1>14 DEF InitImporter
<1>15. CASE StartImporter(a) BY <1>15 DEF StartImporter
<1>16. CASE SetImporter(a) BY <1>16 DEF SetImporter
<1>17. CASE SetRuntime(a) BY <1>17 DEF SetRuntime
<1> QED BY <1>1, <1>2, <1>3, <1>4, <1>5, <1>6, <1>7, <1>8, <1>9, <1>10, <1>11, <1>12, <1>13,
     <1>14, <1>15, <1>16, <1>17, Zenon DEF AdminStep

\* Only a call that got the permit begins to change the mode.
LEMMA BeginInv ==
    ASSUME NEW a \in Admins, Types, PermitInv, ModeInv, \A b \in Admins : ChangeInv(b),
           \/ \E to \in {"leader", "follower"} : BeginChange(a, to)
           \/ BeginShutdown(a) \/ InitFails(a)
    PROVE  PermitInv' /\ ModeInv' /\ (\A b \in Admins : ChangeInv(b))'
<1> USE NodeModeAssumption DEF Types, PermitInv, ModeInv, ChangeInv, Changing, Return, Settled,
            ShutdownSteps, LeaderSteps, FollowerSteps, importVars, taskVars, minerVars,
            chainVars, clientVars
<1>1. ASSUME NEW to \in {"leader", "follower"}, BeginChange(a, to)
      PROVE  PermitInv' /\ ModeInv' /\ (\A b \in Admins : ChangeInv(b))'
  <2>1. PermitInv' BY <1>1 DEF BeginChange
  <2>2. ModeInv' BY <1>1, Zenon DEF BeginChange
  <2>3. ChangeInv(a)' BY <1>1, <2>1 DEF BeginChange
  <2>4. ASSUME NEW b \in Admins \ {a} PROVE ChangeInv(b)'
    <3>1. pc'[b] = pc[b] /\ ~Changing(b)' BY <1>1, <2>1 DEF BeginChange
    <3> QED BY <2>1, <3>1, Zenon
  <2> HIDE DEF PermitInv, ModeInv, ChangeInv
  <2> QED BY <2>1, <2>2, <2>3, <2>4, Zenon
<1>2. CASE BeginShutdown(a)
  <2>1. PermitInv' BY <1>2 DEF BeginShutdown
  <2>2. ModeInv' BY <1>2, Zenon DEF BeginShutdown
  <2>3. ASSUME NEW b \in Admins PROVE ChangeInv(b)' BY <1>2, <2>1 DEF BeginShutdown
  <2> HIDE DEF PermitInv, ModeInv, ChangeInv
  <2> QED BY <2>1, <2>2, <2>3, Zenon
<1>3. CASE InitFails(a)
  <2>1. PermitInv' BY <1>3 DEF InitFails
  <2>2. ModeInv' BY <1>3, Zenon DEF InitFails
  <2>3. ASSUME NEW b \in Admins PROVE ChangeInv(b)'
    <3>1. b # a => pc'[b] = pc[b] BY <1>3 DEF InitFails
    <3>2. pc'[a] = "idle" /\ ~Changing(b)' BY <1>3, <2>1 DEF InitFails
    <3> QED BY <2>1, <3>1, <3>2, Zenon
  <2> HIDE DEF PermitInv, ModeInv, ChangeInv
  <2> QED BY <2>1, <2>2, <2>3, Zenon
<1> HIDE DEF PermitInv, ModeInv, ChangeInv
<1> QED BY <1>1, <1>2, <1>3, Zenon

\* The importer, the miner, the clients and the switches change no mode, and the importer's
\* tasks only start to run or end.
LEMMA OthersFrame ==
    ASSUME Types,
           \/ ImporterStep \/ MinerStep \/ \E c \in Clients : ClientStep(c)
           \/ \E b \in BOOLEAN : SetTransactionsEnabled(b) \/ SetPaused(b)
           \/ UNCHANGED vars
    PROVE  /\ UNCHANGED <<pc, call, change, nodeMode, shutdown, minerMode>>
           /\ tasks' \in {tasks, "none"} \/ (tasks = "spawned" /\ tasks' = "running")
<1> USE DEF adminVars, importVars, taskVars, minerVars, chainVars, clientVars, importRest,
            minerRest, clientRest
<1>1. CASE ImporterStep
  BY <1>1, Zenon DEF ImporterStep, AcquirePermits, TasksEnd, ReceiveBlock, ReceiveTimeout,
     ExecuteExternal, MineExternal, CommitExternal
<1>2. CASE MinerStep
  BY <1>2, Zenon DEF MinerStep, Tick, MineLocal, CommitLocal, MinerEnds
<1>3. CASE \E c \in Clients : ClientStep(c)
  BY <1>3, Zenon DEF ClientStep, CheckEnabled, CheckMode, ExecuteLocal
<1>4. CASE \E b \in BOOLEAN : SetTransactionsEnabled(b) \/ SetPaused(b)
  BY <1>4, Zenon DEF SetTransactionsEnabled, SetPaused
<1>5. CASE UNCHANGED vars
  BY <1>5, Zenon DEF vars
<1> QED BY <1>1, <1>2, <1>3, <1>4, <1>5, Zenon

\* The importer, the miner and the clients disturb no mode change.
LEMMA OthersInv ==
    ASSUME Types, PermitInv, ModeInv, \A b \in Admins : ChangeInv(b),
           \/ ImporterStep \/ MinerStep \/ \E c \in Clients : ClientStep(c)
           \/ \E b \in BOOLEAN : SetTransactionsEnabled(b) \/ SetPaused(b)
           \/ UNCHANGED vars
    PROVE  PermitInv' /\ ModeInv' /\ (\A b \in Admins : ChangeInv(b))'
<1>1. /\ UNCHANGED <<pc, call, change, nodeMode, shutdown, minerMode>>
      /\ tasks' \in {tasks, "none"} \/ (tasks = "spawned" /\ tasks' = "running")
  BY OthersFrame, Zenon
<1>2. PermitInv'
  BY <1>1, Zenon DEF PermitInv, Changing
<1>3. ASSUME NEW b \in Admins PROVE ChangeInv(b)'
  BY <1>1, Zenon DEF Types, ChangeInv, Changing, LeaderSteps
<1>4. ModeInv'
  <2> USE <1>1 DEF Types, ModeInv, adminVars, importVars, taskVars, minerVars, chainVars,
              clientVars, importRest, minerRest, clientRest
  <2>1. CASE ImporterStep
    <3>1. CASE AcquirePermits BY <3>1, Zenon DEF AcquirePermits
    <3>2. CASE TasksEnd BY <3>2, Zenon DEF TasksEnd
    <3>3. CASE ReceiveBlock BY <3>3, Zenon DEF ReceiveBlock
    <3>4. CASE ReceiveTimeout BY <3>4, Zenon DEF ReceiveTimeout
    <3>5. CASE ExecuteExternal BY <3>5, Zenon DEF ExecuteExternal
    <3>6. CASE MineExternal BY <3>6, Zenon DEF MineExternal
    <3>7. CASE CommitExternal BY <3>7, Zenon DEF CommitExternal
    <3> QED BY <2>1, <3>1, <3>2, <3>3, <3>4, <3>5, <3>6, <3>7, Zenon DEF ImporterStep
  <2>2. CASE MinerStep
    <3>1. CASE Tick BY <3>1 DEF Tick
    <3>2. CASE MineLocal BY <3>2 DEF MineLocal
    <3>3. CASE CommitLocal BY <3>3 DEF CommitLocal
    <3>4. CASE MinerEnds BY <3>4 DEF MinerEnds
    <3> QED BY <2>2, <3>1, <3>2, <3>3, <3>4, Zenon DEF MinerStep
  <2>3. CASE \E c \in Clients : ClientStep(c)
    BY <2>3, Zenon DEF ClientStep, CheckEnabled, CheckMode, ExecuteLocal
  <2>4. CASE \E b \in BOOLEAN : SetTransactionsEnabled(b) \/ SetPaused(b)
    BY <2>4, Zenon DEF SetTransactionsEnabled, SetPaused
  <2>5. CASE UNCHANGED vars
    <3>1. UNCHANGED <<tasks, miner, worker>> BY <2>5, Zenon DEF vars
    <3> QED BY <3>1, Zenon
  <2> QED BY <2>1, <2>2, <2>3, <2>4, <2>5, Zenon
<1> QED BY <1>2, <1>3, <1>4, Zenon

(***************************************************************************)
(* Transactions that were answered, and block numbers.                     *)
(***************************************************************************)
\* Administrators touch neither the chain nor the clients.
LEMMA AdminFrame ==
    ASSUME NEW a \in Admins, AdminAction(a)
    PROVE  UNCHANGED <<pending, finished, mined, committed, reply, late, next>>
<1> USE DEF importVars, taskVars, minerVars, chainVars, clientVars
<1>1. CASE AdminStep(a)
  <2>1. CASE ShutdownImporter(a) BY <2>1, Zenon DEF ShutdownImporter
  <2>2. CASE TakeRuntime(a) BY <2>2, Zenon DEF TakeRuntime
  <2>3. CASE SignalShutdown(a) BY <2>3, Zenon DEF SignalShutdown
  <2>4. CASE JoinRuntime(a) BY <2>4, Zenon DEF JoinRuntime
  <2>5. CASE WaitForImporter(a) BY <2>5, Zenon DEF WaitForImporter
  <2>6. CASE CheckInterval(a) BY <2>6, Zenon DEF CheckInterval
  <2>7. CASE StartIntervalMining(a) BY <2>7, Zenon DEF StartIntervalMining
  <2>8. CASE SetLeader(a) BY <2>8, Zenon DEF SetLeader
  <2>9. CASE CheckPending(a) BY <2>9, Zenon DEF CheckPending
  <2>10. CASE CheckExternal(a) BY <2>10, Zenon DEF CheckExternal
  <2>11. CASE CancelMiner(a) BY <2>11, Zenon DEF CancelMiner
  <2>12. CASE SwitchToExternal(a) BY <2>12, Zenon DEF SwitchToExternal
  <2>13. CASE SetFollower(a) BY <2>13, Zenon DEF SetFollower
  <2>14. CASE InitImporter(a) BY <2>14, Zenon DEF InitImporter
  <2>15. CASE StartImporter(a) BY <2>15, Zenon DEF StartImporter
  <2>16. CASE SetImporter(a) BY <2>16, Zenon DEF SetImporter
  <2>17. CASE SetRuntime(a) BY <2>17, Zenon DEF SetRuntime
  <2> QED BY <1>1, <2>1, <2>2, <2>3, <2>4, <2>5, <2>6, <2>7, <2>8, <2>9, <2>10, <2>11, <2>12,
       <2>13, <2>14, <2>15, <2>16, <2>17, Zenon DEF AdminStep
<1> QED BY <1>1, Zenon DEF AdminAction, BeginChange, BeginShutdown, InitFails

\* The two checks of the pending transactions and what comes between them.
LEMMA AdminDrain ==
    ASSUME NEW a \in Admins, Types, Types', PermitInv, ModeInv, ModeInv', ChangeInv(a), DrainInv, AdminAction(a)
    PROVE  DrainInv'
<1>1. UNCHANGED <<pending, finished, mined, committed, reply, late, next>>
  BY AdminFrame, Zenon
<1>2. miner' = miner \/ (miner = "none" /\ miner' = "idle")
  <2> USE DEF Types, ModeInv, ChangeInv, AdminAction, AdminStep, importVars, taskVars,
              minerVars, chainVars, clientVars
  <2>1. CASE StartIntervalMining(a)
    BY <2>1, Zenon DEF StartIntervalMining
  <2>2. CASE ~StartIntervalMining(a)
    BY <2>2, Zenon DEF BeginChange, BeginShutdown, InitFails, ShutdownImporter, TakeRuntime,
       SignalShutdown, JoinRuntime, WaitForImporter, CheckInterval, SetLeader, CheckPending,
       CheckExternal, CancelMiner, SwitchToExternal, SetFollower, InitImporter, StartImporter,
       SetImporter, SetRuntime
  <2> QED BY <2>1, <2>2, Zenon
<1>3. PastPendingChecks' => PastPendingChecks \/ NoPending
  <2> USE DEF Types, ChangeInv, PastPendingChecks, Goto, Return, AfterShutdown, importVars,
              taskVars, minerVars, chainVars, clientVars
  <2>1. CASE AdminStep(a)
    <3>1. CASE ShutdownImporter(a) BY <3>1 DEF ShutdownImporter
    <3>2. CASE TakeRuntime(a) BY <3>2, Zenon DEF TakeRuntime
    <3>3. CASE SignalShutdown(a) BY <3>3 DEF SignalShutdown
    <3>4. CASE JoinRuntime(a) BY <3>4 DEF JoinRuntime
    <3>5. CASE WaitForImporter(a) BY <3>5, Zenon DEF WaitForImporter
    <3>6. CASE CheckInterval(a) BY <3>6 DEF CheckInterval
    <3>7. CASE StartIntervalMining(a) BY <3>7, Zenon DEF StartIntervalMining
    <3>8. CASE SetLeader(a) BY <3>8, Zenon DEF SetLeader
    <3>9. CASE CheckPending(a) BY <3>9 DEF CheckPending
    <3>10. CASE CheckExternal(a) BY <3>10 DEF CheckExternal
    <3>11. CASE CancelMiner(a) BY <3>11, Zenon DEF CancelMiner
    <3>12. CASE SwitchToExternal(a) BY <3>12, Zenon DEF SwitchToExternal
    <3>13. CASE SetFollower(a) BY <3>13, Zenon DEF SetFollower
    <3>14. CASE InitImporter(a) BY <3>14, Zenon DEF InitImporter
    <3>15. CASE StartImporter(a) BY <3>15, Zenon DEF StartImporter
    <3>16. CASE SetImporter(a) BY <3>16, Zenon DEF SetImporter
    <3>17. CASE SetRuntime(a) BY <3>17, Zenon DEF SetRuntime
    <3> QED BY <2>1, <3>1, <3>2, <3>3, <3>4, <3>5, <3>6, <3>7, <3>8, <3>9, <3>10, <3>11, <3>12,
         <3>13, <3>14, <3>15, <3>16, <3>17, Zenon DEF AdminStep
  <2>2. CASE InitFails(a)
    BY <2>2, Zenon DEF InitFails
  <2>3. CASE BeginShutdown(a) \/ \E to \in {"leader", "follower"} : BeginChange(a, to)
    BY <2>3 DEF BeginShutdown, BeginChange
  <2> QED BY <2>1, <2>2, <2>3, Zenon DEF AdminAction
<1> QED BY <1>1, <1>2, <1>3, Zenon DEF DrainInv, NoPending

\* A transaction that comes after the checks is a late one; the others are committed.
LEMMA OthersDrain ==
    ASSUME Types, Types', ModeInv, ModeInv', DrainInv,
           \/ ImporterStep \/ MinerStep \/ \E c \in Clients : ClientStep(c)
           \/ \E b \in BOOLEAN : SetTransactionsEnabled(b) \/ SetPaused(b)
           \/ UNCHANGED vars
    PROVE  DrainInv'
<1>1. UNCHANGED <<pc, minerMode>>
  BY OthersFrame, Zenon
<1>2. PastPendingChecks' <=> PastPendingChecks
  BY <1>1, Zenon DEF PastPendingChecks
<1>3. CASE ImporterStep
  <2>1. miner' = miner /\ late' = late /\ reply' = reply /\ committed' = committed
    BY <1>3, Zenon DEF ImporterStep, AcquirePermits, TasksEnd, ReceiveBlock, ReceiveTimeout,
       ExecuteExternal, MineExternal, CommitExternal, importRest, minerVars, clientVars, chainVars
  <2>2. CASE UNCHANGED <<pending, finished>>
    BY <1>2, <2>1, <2>2, Zenon DEF DrainInv
  <2>3. CASE ExecuteExternal
    BY <1>2, <2>1, <2>3, Zenon DEF ExecuteExternal, Types, DrainInv
  <2>4. CASE MineExternal
    <3>1. PastPendingChecks /\ miner # "commit"
      BY <2>4, Zenon DEF MineExternal, ModeInv, PastPendingChecks
    <3>2. pending'.stale = {} /\ pending'.txs = {} /\ finished' = pending.txs
      BY <2>4, Zenon DEF MineExternal, NewPending
    <3> QED BY <2>1, <3>1, <3>2, Zenon DEF DrainInv
  <2>5. CASE CommitExternal
    <3>1. miner # "commit" /\ finished' = {} /\ pending' = pending
      BY <2>5, Zenon DEF CommitExternal, ModeInv
    <3> QED BY <1>2, <2>1, <3>1, Zenon DEF DrainInv
  <2> QED
    BY <1>3, <2>2, <2>3, <2>4, <2>5, Zenon DEF ImporterStep, AcquirePermits, TasksEnd, ReceiveBlock,
       ReceiveTimeout, chainVars
<1>4. CASE MinerStep
  <2> USE <1>2 DEF DrainInv, minerRest, clientVars
  <2>1. CASE Tick BY <2>1, Zenon DEF Tick
  <2>2. CASE MineLocal BY <2>2, Zenon DEF MineLocal, NewPending
  <2>3. CASE CommitLocal BY <2>3, Zenon DEF CommitLocal
  <2>4. CASE MinerEnds BY <2>4, Zenon DEF MinerEnds
  <2> QED BY <1>4, <2>1, <2>2, <2>3, <2>4, Zenon DEF MinerStep
<1>5. ASSUME NEW c \in Clients, ClientStep(c) PROVE DrainInv'
  <2> USE DEF Types, DrainInv, clientRest, minerVars
  <2>1. CASE CheckEnabled(c) BY <1>2, <2>1 DEF CheckEnabled
  <2>2. CASE CheckMode(c) BY <1>2, <2>2 DEF CheckMode
  <2>3. CASE ExecuteLocal(c)
    <3>1. pending'.txs = pending.txs \cup {c} /\ pending'.stale = pending.stale
      BY <2>3, Zenon DEF ExecuteLocal
    <3>2. \A d \in Clients : reply'[d] = IF d = c THEN "ok" ELSE reply[d]
      BY <2>3 DEF ExecuteLocal
    <3>3. late \subseteq late' /\ (PastPendingChecks => c \in late')
      BY <2>3, Zenon DEF ExecuteLocal
    <3> QED BY <1>2, <2>3, <3>1, <3>2, <3>3 DEF ExecuteLocal
  <2> QED BY <1>5, <2>1, <2>2, <2>3, Zenon DEF ClientStep
<1>6. CASE UNCHANGED <<pending, finished, late, committed, reply, miner>>
  BY <1>2, <1>6, Zenon DEF DrainInv
<1> QED
  BY <1>3, <1>4, <1>5, <1>6, Zenon DEF vars, SetTransactionsEnabled, SetPaused, minerVars,
     chainVars,
     clientVars

\* A mode change begins and ends between two blocks of the miner.
LEMMA AdminNumbers ==
    ASSUME NEW a \in Admins, Types, ModeInv, ChangeInv(a), NumbersInv, AdminAction(a)
    PROVE  NumbersInv'
<1>1. UNCHANGED <<pending, finished, mined, committed, reply, late, next>>
  BY AdminFrame, Zenon
<1>2. /\ worker' = worker
      /\ miner' = miner \/ (miner = "none" /\ miner' = "idle")
  <2> USE DEF Types, ModeInv, ChangeInv, AdminAction, AdminStep, importVars, taskVars,
              minerVars, chainVars, clientVars
  <2>1. CASE StartIntervalMining(a)
    BY <2>1, Zenon DEF StartIntervalMining
  <2>2. CASE StartImporter(a)
    BY <2>2, Zenon DEF StartImporter
  <2>3. CASE ~StartIntervalMining(a) /\ ~StartImporter(a)
    BY <2>3, Zenon DEF BeginChange, BeginShutdown, InitFails, ShutdownImporter, TakeRuntime,
       SignalShutdown, JoinRuntime, WaitForImporter, CheckInterval, SetLeader, CheckPending,
       CheckExternal, CancelMiner, SwitchToExternal, SetFollower, InitImporter, SetImporter,
       SetRuntime
  <2> QED BY <2>1, <2>2, <2>3, Zenon
<1> QED BY <1>1, <1>2, Zenon DEF NumbersInv

\* The miner and the importer each commit the number after the last one.
LEMMA OthersNumbers ==
    ASSUME Types, Types', ModeInv, DrainInv, NumbersInv,
           \/ ImporterStep \/ MinerStep \/ \E c \in Clients : ClientStep(c)
           \/ \E b \in BOOLEAN : SetTransactionsEnabled(b) \/ SetPaused(b)
           \/ UNCHANGED vars
    PROVE  NumbersInv'
<1>1. CASE ImporterStep
  <2> USE DEF Types, ModeInv, NumbersInv, importRest, minerVars, chainVars, clientVars
  <2>1. CASE AcquirePermits BY <2>1, Zenon DEF AcquirePermits
  <2>2. CASE TasksEnd BY <2>2, Zenon DEF TasksEnd
  <2>3. CASE ReceiveBlock BY <2>3, Zenon DEF ReceiveBlock
  <2>4. CASE ReceiveTimeout BY <2>4, Zenon DEF ReceiveTimeout
  <2>5. CASE ExecuteExternal BY <2>5, Zenon DEF ExecuteExternal
  <2>6. CASE MineExternal
    <3>1. late = {} => pending.stale = {}
      BY <2>6, Zenon DEF MineExternal, DrainInv, PastPendingChecks
    <3>2. pending'.number = pending.number + 1
      BY <2>6, Zenon DEF MineExternal, NewPending
    <3> QED BY <2>6, <3>1, <3>2 DEF MineExternal
  <2>7. CASE CommitExternal BY <2>7 DEF CommitExternal
  <2> QED BY <1>1, <2>1, <2>2, <2>3, <2>4, <2>5, <2>6, <2>7, Zenon DEF ImporterStep
<1>2. CASE MinerStep
  <2>2. CASE MineLocal
    <3>1. /\ miner = "mine" /\ miner' = "commit" /\ pending' = NewPending(pending.number + 1)
          /\ UNCHANGED <<worker, next, mined, late>>
      BY <2>2, Zenon DEF MineLocal, minerRest, importVars, taskVars, clientVars
    <3>2. worker = "idle"
      BY <3>1, Zenon DEF ModeInv, Types
    <3>3. pending'.number = pending.number + 1
      BY <3>1, Zenon DEF NewPending
    <3>4. mined \in Nat /\ (late = {} => pending.number = mined + 1)
      BY <3>1, <3>2, Zenon DEF Types, NumbersInv
    <3> QED BY <3>1, <3>2, <3>3, <3>4 DEF NumbersInv
  <2> USE DEF Types, ModeInv, NumbersInv, NewPending, minerRest, importVars, taskVars,
              clientVars
  <2>1. CASE Tick BY <2>1, Zenon DEF Tick
  <2>3. CASE CommitLocal BY <2>3 DEF CommitLocal
  <2>4. CASE MinerEnds BY <2>4, Zenon DEF MinerEnds
  <2> QED BY <1>2, <2>1, <2>2, <2>3, <2>4, Zenon DEF MinerStep
<1>3. ASSUME NEW c \in Clients, ClientStep(c) PROVE NumbersInv'
  <2>1. UNCHANGED <<worker, miner, next, mined>> /\ pending'.number = pending.number
    BY <1>3, Zenon DEF ClientStep, CheckEnabled, CheckMode, ExecuteLocal, clientRest, importVars,
       taskVars,
       minerVars, Types
  <2>2. late' = {} => late = {}
    BY <1>3, Zenon DEF ClientStep, CheckEnabled, CheckMode, ExecuteLocal
  <2> QED BY <2>1, <2>2, Zenon DEF NumbersInv
<1>4. CASE UNCHANGED <<worker, miner, next, mined, pending, late>>
  BY <1>4, Zenon DEF NumbersInv
<1> QED
  BY <1>1, <1>2, <1>3, <1>4, Zenon DEF vars, SetTransactionsEnabled, SetPaused, importVars,
     taskVars,
     minerVars, chainVars, clientVars

(***************************************************************************)
(* The theorems.                                                           *)
(***************************************************************************)
LEMMA InitInv == Init => Inv
<1> SUFFICES ASSUME Init PROVE Inv
  BY Zenon
<1> USE NodeModeAssumption DEF Init, NewPending
<1>1. Types BY DEF Types, ShutdownSteps, LeaderSteps, FollowerSteps
<1>2. PermitInv BY Zenon DEF PermitInv, Changing, ShutdownSteps, LeaderSteps, FollowerSteps
<1>3. ModeInv BY Zenon DEF ModeInv
<1>4. ASSUME NEW a \in Admins PROVE ChangeInv(a) BY Zenon DEF ChangeInv, Changing, LeaderSteps
<1>5. DrainInv BY Zenon DEF DrainInv
<1>6. NumbersInv BY DEF NumbersInv
<1> QED BY <1>1, <1>2, <1>3, <1>4, <1>5, <1>6, Zenon DEF Inv

\* Every step preserves the invariant.
LEMMA StepInv == Inv /\ [Next]_vars => Inv'
<1> SUFFICES ASSUME Inv, [Next]_vars PROVE Inv'
  BY Zenon
<1>1. ASSUME NEW a \in Admins, AdminAction(a) PROVE Inv'
  <2>1. Types'
    BY <1>1, AdminTypes, BeginTypes, Zenon DEF AdminAction, Inv
  <2>2. PermitInv' /\ ModeInv' /\ (\A b \in Admins : ChangeInv(b))'
    <3>1. CASE AdminStep(a)
      <4>1. PermitInv' /\ ModeInv'
        BY <3>1, AdminPermit, AdminMode, Zenon DEF Inv
      <4>2. ASSUME NEW b \in Admins PROVE ChangeInv(b)'
        BY <3>1, <4>1, AdminChange, Zenon DEF Inv
      <4> QED BY <4>1, <4>2, Zenon
    <3> QED BY <1>1, <3>1, BeginInv, Zenon DEF AdminAction, Inv
  <2>3. DrainInv'
    BY <1>1, <2>1, <2>2, AdminDrain, Zenon DEF Inv
  <2>4. NumbersInv'
    BY <1>1, AdminNumbers, Zenon DEF Inv
  <2> QED BY <2>1, <2>2, <2>3, <2>4, Zenon DEF Inv
<1>2. ASSUME \/ ImporterStep \/ MinerStep \/ \E c \in Clients : ClientStep(c)
             \/ \E b \in BOOLEAN : SetTransactionsEnabled(b) \/ SetPaused(b)
             \/ UNCHANGED vars
      PROVE  Inv'
  <2>1. Types'
    <3>1. CASE UNCHANGED vars
      BY <3>1 DEF Inv, Types, vars, adminVars, importVars, taskVars, minerVars, chainVars,
         clientVars
    <3> QED BY <1>2, <3>1, ImporterTypes, MinerTypes, ClientTypes, SwitchTypes, Zenon DEF Inv
  <2>2. PermitInv' /\ ModeInv' /\ (\A b \in Admins : ChangeInv(b))'
    BY <1>2, OthersInv, Zenon DEF Inv
  <2>3. DrainInv'
    BY <1>2, <2>1, <2>2, OthersDrain, Zenon DEF Inv
  <2>4. NumbersInv'
    BY <1>2, <2>1, OthersNumbers, Zenon DEF Inv
  <2> QED BY <2>1, <2>2, <2>3, <2>4, Zenon DEF Inv
<1> QED BY <1>1, <1>2, Zenon DEF Next, AdminAction

\* The invariant holds in every state, for any administrators and clients.
THEOREM InvHolds == Spec => []Inv
BY InitInv, StepInv, PTL DEF Spec

\* For any number of administrators, clients and calls, a node never imports a block while
\* its own miner's thread lives, and starts neither of them next to an importer's tasks
\* (stratus_change_to_leader, change_miner_mode, globals.rs).
THEOREM SingleProducerHolds == Spec => []SingleProducer
<1>1. Inv => SingleProducer
  BY Zenon DEF Inv, Types, ModeInv, ChangeInv, SingleProducer
<1> QED BY <1>1, InvHolds, PTL

\* Through any sequence of mode changes the next producer's block has the number that
\* save_block takes, unless a transaction was saved after the checks for pending ones.
THEOREM NumbersFollowHolds == Spec => []NumbersFollow
<1>1. Inv => NumbersFollow
  BY Zenon DEF Inv, NumbersInv, NumbersFollow
<1> QED BY <1>1, InvHolds, PTL

\* A node that follows has committed every transaction it answered "ok" before the checks
\* for pending ones of change_miner_mode(External).
THEOREM DrainedHolds == Spec => []DrainedBeforeFollowing
<1>1. Inv => DrainedBeforeFollowing
  <2> SUFFICES ASSUME Inv, minerMode = "external", NEW c \in Clients \ late, reply[c] = "ok"
               PROVE  c \in committed
    BY Zenon DEF DrainedBeforeFollowing
  <2>1. pending.txs \subseteq late /\ finished \subseteq late
    BY Zenon DEF Inv, ModeInv, DrainInv, PastPendingChecks
  <2> QED BY <2>1, Zenon DEF Inv, DrainInv
<1> QED BY <1>1, InvHolds, PTL
=============================================================================
