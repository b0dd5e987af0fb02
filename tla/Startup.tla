------------------------------ MODULE Startup -------------------------------
(***************************************************************************)
(* The start of the process (main.rs, GlobalServices::init and             *)
(* initialize_node_mode of globals.rs, and the init of every service), up  *)
(* to the RPC server and the end of the process.                           *)
(*                                                                         *)
(* Any step that asks the system for something may fail: threads, the      *)
(* database, the broker's client, the leader.                              *)
(***************************************************************************)
EXTENDS Config

CONSTANTS
    Argvs,         \* command lines
    FileSystems    \* what the paths of configuration files hold

VARIABLES
    argv, files,       \* the process's surroundings
    phase,             \* the step of main it is at, or how it ended
    config,            \* StratusConfig, None until it is loaded
    nodeMode,          \* NODE_MODE
    importerShutdown,  \* IMPORTER_SHUTDOWN
    unknownClients,    \* UNKNOWN_CLIENT_ENABLED
    blockedClients,    \* BLOCKED_CLIENTS
    shutdown,          \* STRATUS_SHUTDOWN_SIGNAL
    storage,           \* whether the database is open
    miner,             \* the miner's mode, and whether its interval thread was spawned
    kafka,             \* the protocol of the Kafka connector, None without one
    importer,          \* the mode of the importer started
    exporter           \* whether the exporter runtime is there

globals == <<nodeMode, importerShutdown, unknownClients, blockedClients>>
services == <<storage, miner, kafka, importer, exporter>>
vars == <<argv, files, phase, config, globals, shutdown, services>>

\* The statics of globals.rs before main.
Init ==
    /\ argv \in Argvs
    /\ files \in FileSystems
    /\ phase = "load"
    /\ config = None
    /\ nodeMode = "follower"
    /\ importerShutdown = TRUE
    /\ unknownClients = TRUE
    /\ blockedClients = {}
    /\ shutdown = FALSE
    /\ storage = FALSE
    /\ miner = None
    /\ kafka = None
    /\ importer = None
    /\ exporter = FALSE

\* The process ends: what it holds goes with it, the database last.
Ends(how) ==
    /\ phase' = how
    /\ storage' = FALSE
    /\ miner' = None
    /\ kafka' = None
    /\ importer' = None
    /\ exporter' = FALSE

Fails == Ends("failed") /\ UNCHANGED <<argv, files, config, globals, shutdown>>

\* load_config, and set_unknown_client_enabled and init_blocked_clients behind it: a name
\* that is empty names no client.
LoadConfig ==
    /\ phase = "load"
    /\ LET loaded == Load(argv, files)
       IN  /\ config' = loaded.config
           /\ \/ loaded.config = None /\ Ends("failed") /\ UNCHANGED globals
              \/ /\ loaded.config # None
                 /\ loaded.validate
                 /\ Ends(IF IsValid(loaded.config) THEN "valid" ELSE "invalid")
                 /\ UNCHANGED globals
              \/ /\ loaded.config # None
                 /\ ~loaded.validate
                 /\ phase' = "services"
                 /\ unknownClients' = loaded.config.unknownClients
                 /\ blockedClients' = ToSet(loaded.config.blockedClients) \ {""}
                 /\ UNCHANGED <<nodeMode, importerShutdown, services>>
    /\ UNCHANGED <<argv, files, shutdown>>

\* The rest of GlobalServices::init: the Tokio runtime, tracing, metrics, Sentry and the
\* signal handler, each expected to start.  Then initialize_node_mode.
InitGlobalServices ==
    /\ phase = "services"
    /\ phase' = "storage"
    /\ nodeMode' = config.mode
    /\ importerShutdown' = (config.mode = "leader")
    /\ UNCHANGED <<argv, files, config, unknownClients, blockedClients, shutdown, services>>

InitGlobalServicesFails == phase = "services" /\ Fails

\* StorageConfig::init: an empty path prefix is refused, a database may not open.
InitStorage ==
    /\ phase = "storage"
    /\ config.pathPrefix # <<"">>
    /\ phase' = "miner"
    /\ storage' = TRUE
    /\ UNCHANGED <<argv, files, config, globals, shutdown, miner, kafka, importer, exporter>>

InitStorageFails == phase = "storage" /\ Fails

\* Mutant of MinerModeOf: the configured mode, whatever the node mode.
MinerModeOfConfigured(mode, c) == c.blockMode

\* MinerConfig::init: a follower's miner is external whatever is configured.
MinerModeOf(mode, c) == IF mode = "leader" THEN c.blockMode ELSE <<"external">>

\* init_with_mode: a mode other than the two names is an interval, with a thread.
InitMiner ==
    /\ phase = "miner"
    /\ phase' = "executor"
    /\ LET mode == MinerModeOf(nodeMode, config)
       IN  miner' = [mode |-> mode, thread |-> mode \notin {<<"automine">>, <<"external">>}]
    /\ UNCHANGED <<argv, files, config, globals, shutdown, storage, kafka, importer, exporter>>

\* ExecutorConfig::init does not fail; run then goes by whether there is an importer section.
InitExecutor ==
    /\ phase = "executor"
    /\ phase' = IF config.importer = None THEN "exporter" ELSE "kafka"
    /\ UNCHANGED <<argv, files, config, globals, shutdown, services>>

\* KafkaConfig::init, when there is a section: KafkaConnector::new validates it first.
InitKafka ==
    /\ phase = "kafka"
    /\ config.kafka # None => MissingKafkaFields(config.kafka) = {}
    /\ phase' = "importer"
    /\ kafka' = IF config.kafka = None THEN None ELSE config.kafka.protocol
    /\ UNCHANGED <<argv, files, config, globals, shutdown, storage, miner, importer, exporter>>

InitKafkaFails == phase = "kafka" /\ config.kafka # None /\ Fails

\* ImporterConfig::init.
ImporterModeOf(mode, c) ==
    CASE mode = "leader" -> None
      [] mode = "follower" -> IF c.importer.changes THEN "BlockWithChanges" ELSE "ReexecutionFollower"
      [] mode = "fake_leader" -> "FakeLeader"

InitImporter ==
    /\ phase = "importer"
    /\ phase' = "exporter"
    /\ importer' = ImporterModeOf(nodeMode, config)
    /\ UNCHANGED <<argv, files, config, globals, shutdown, storage, miner, kafka, exporter>>

\* The leader does not answer the health check, or the runtime does not start.
InitImporterFails == phase = "importer" /\ nodeMode # "leader" /\ Fails

\* ExporterConfig::init waits until the runtime's thread has answered.
InitExporter ==
    /\ phase = "exporter"
    /\ phase' = "serving"
    /\ exporter' = TRUE
    /\ UNCHANGED <<argv, files, config, globals, shutdown, storage, miner, kafka, importer>>

InitExporterFails == phase = "exporter" /\ Fails

\* A signal, or a component that gives up: the steps above do not look, the server does.
Shutdown ==
    /\ phase \notin {"load", "services", "failed", "valid", "invalid", "stopped"}
    /\ ~shutdown
    /\ shutdown' = TRUE
    /\ UNCHANGED <<argv, files, phase, config, globals, services>>

\* Server::serve returns once the shutdown is signalled; run drops the storage.
ServeEnds ==
    /\ phase = "serving"
    /\ shutdown
    /\ Ends("stopped")
    /\ UNCHANGED <<argv, files, config, globals, shutdown>>

ServeFails == phase = "serving" /\ Fails

Next ==
    \/ LoadConfig
    \/ InitGlobalServices \/ InitGlobalServicesFails
    \/ InitStorage \/ InitStorageFails
    \/ InitMiner
    \/ InitExecutor
    \/ InitKafka \/ InitKafkaFails
    \/ InitImporter \/ InitImporterFails
    \/ InitExporter \/ InitExporterFails
    \/ Shutdown
    \/ ServeEnds \/ ServeFails

Spec == Init /\ [][Next]_vars

-----------------------------------------------------------------------------
(***************************************************************************)
(* What each argument should be, said without tokens: the command line's   *)
(* last value, all of them for a list; else the file's.                    *)
(***************************************************************************)
Given(a) == {i \in DOMAIN BeforeDashes(argv) : argv[i].flag = a}

GivenValue(i) ==
    CASE argv[i].value # None -> argv[i].value
      [] argv[i].value = None /\ argv[i].flag \notin SetTrue /\ i < Len(argv) /\ argv[i + 1].flag = None ->
            argv[i + 1].value
      [] OTHER -> <<"true">>

LastGiven(a) == GivenValue(CHOOSE i \in Given(a) : \A j \in Given(a) : j <= i)

ExpectedPath ==
    IF Given("config_path") # {} THEN LastGiven("config_path")
    ELSE IF Given("common.env") # {} THEN LastGiven("common.env") ELSE <<"local">>

Expected(a) ==
    LET inFile == FileValue(files[ExpectedPath].table, a)
    IN  IF Given(a) # {}
        THEN IF a \in Lists
             THEN FlattenSeq([k \in 1..Cardinality(Given(a)) |->
                    GivenValue(CHOOSE i \in Given(a) : Cardinality({j \in Given(a) : j < i}) = k - 1)])
             ELSE LastGiven(a)
        ELSE IF a \in NODE_MODE_ARGUMENTS /\ \E b \in NODE_MODE_ARGUMENTS : Given(b) # {} THEN None
        ELSE IF a \in SetTrue /\ inFile # <<"true">> THEN None ELSE inFile

\* The command line wins over the file, for every argument, and the file is the one the
\* command line names: scanning the command line for it agrees with clap (load, load_from).
CliWins ==
    config # None =>
        config = IgnoreFollowerSections(FromArgMatches([a \in Arguments |-> Expected(a)]))

\* A node that serves is what it was configured as: no configuration the validation calls
\* invalid serves, an importer runs exactly beside an external miner that is not a leader's,
\* the switch that lets one be started is off, and a configured broker is connected.
ServesAsConfigured ==
    phase = "serving" =>
        /\ IsValid(config)
        /\ storage /\ exporter
        /\ nodeMode = config.mode
        /\ importerShutdown <=> importer = None
        /\ importer = None <=> nodeMode = "leader"
        /\ importer # None => miner = [mode |-> <<"external">>, thread |-> FALSE]
        /\ kafka # None <=> config.kafka # None

\* A field the file is warned about as unknown is ignored: without it the file loads alike
\* (load_from).
UnknownFieldsIgnored ==
    LET known(file) ==
          [file EXCEPT !.table = [p \in DOMAIN file.table \ UnknownFields(file.table) |-> file.table[p]]]
    IN  phase # "load" => Load(argv, files) = Load(argv, [p \in DOMAIN files |-> known(files[p])])
=============================================================================
