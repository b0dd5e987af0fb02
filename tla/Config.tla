------------------------------- MODULE Config -------------------------------
(***************************************************************************)
(* Loading the configuration (config/loader.rs, config/mod.rs) and the     *)
(* static checks on it (config/validate/mod.rs, KafkaConfig::validate):    *)
(* the values of a TOML file become command line tokens in front of the    *)
(* command line, and one parse of both gives the configuration.            *)
(*                                                                         *)
(* A token is `--flag`, `--flag=value`, a word or `--`; short flags and    *)
(* aliases are the argument they stand for.  A value is the sequence of    *)
(* its comma-separated parts.  A file is missing, unreadable, malformed,   *)
(* or a table from the dotted paths of its leaves to TOML values.  One or  *)
(* two arguments stand for every group of arguments treated alike.         *)
(***************************************************************************)
EXTENDS Naturals, Sequences, FiniteSets, FiniteSetsExt, SequencesExt, TLC

CONSTANT None

NODE_MODE_ARGUMENTS == {"leader", "follower", "fake_leader"}
CLI_ONLY_ARGUMENTS == {"config_path", "validate_config"}

\* What KafkaConfig::validate asks for, whatever the protocol and for each one.
KafkaAlways == {"kafka.bootstrap_servers", "kafka.topic", "kafka.client_id"}
KafkaRequired == [
    none |-> KafkaAlways,
    sasl |-> KafkaAlways \cup {"kafka.sasl_mechanisms", "kafka.sasl_username", "kafka.sasl_password"},
    ssl  |-> KafkaAlways \cup {"kafka.ssl_ca_location", "kafka.ssl_certificate_location", "kafka.ssl_key_location"}]
KafkaFields == UNION {KafkaRequired[p] : p \in DOMAIN KafkaRequired}
KafkaArguments == KafkaFields \cup {"kafka.security_protocol"}

ImporterArguments == {"importer.external_rpc", "importer.enable_block_changes_replication"}

(***************************************************************************)
(* The arguments by the action clap takes on them.                         *)
(***************************************************************************)
SetTrue == NODE_MODE_ARGUMENTS \cup {"validate_config", "importer.enable_block_changes_replication"}
Lists == {"common.blocked_clients"}                   \* Append
OptionalValue == {"common.unknown_client_enabled"}   \* Set, with num_args = 0..=1
SetValue ==
    KafkaArguments \cup OptionalValue \cup
    {"config_path", "common.env", "executor.chain_id", "miner.block_mode",
     "importer.external_rpc", "storage.permanent.path_prefix"}
Arguments == SetTrue \cup Lists \cup SetValue

(***************************************************************************)
(* The value parsers of the arguments.                                     *)
(***************************************************************************)
\* Environment::from_str.
Environments == [local |-> "local", staging |-> "staging", test |-> "staging",
                 production |-> "production", prod |-> "production", canary |-> "canary"]

NonEmpty == {"importer.external_rpc"} \cup KafkaAlways

\* Whether the parser of argument a takes value v.
Accepts(a, v) ==
    /\ a = "common.env" => v[1] \in DOMAIN Environments
    /\ a = "executor.chain_id" => v \notin {<<"0">>, <<"">>}
    /\ a = "kafka.security_protocol" => v[1] \in DOMAIN KafkaRequired
    /\ a \in OptionalValue => v[1] \in {"true", "false"}
    /\ a \in NonEmpty => v # <<"">>

(***************************************************************************)
(* The command line.                                                       *)
(***************************************************************************)
Dashes == [flag |-> "--", value |-> None]

\* take_while(|token| token != "--")
BeforeDashes(argv) ==
    LET ends == {i \in DOMAIN argv : argv[i] = Dashes}
    IN  IF ends = {} THEN argv ELSE SubSeq(argv, 1, (CHOOSE i \in ends : \A j \in ends : i <= j) - 1)

\* flag_value: the last value of the flag.  The token behind a bare flag is taken off as
\* its value, and left to clap when it looks like a flag.
FlagValue(argv, flag) ==
    LET Step(s, t) ==
          IF s.bare THEN [bare |-> FALSE, value |-> IF t.flag = None THEN t.value ELSE s.value]
          ELSE IF t.flag # flag THEN s
          ELSE IF t.value = None THEN [s EXCEPT !.bare = TRUE]
          ELSE [s EXCEPT !.value = t.value]
    IN  FoldLeft(Step, [bare |-> FALSE, value |-> None], BeforeDashes(argv)).value

\* cli_provides.
CliProvides(argv, a) == \E i \in DOMAIN BeforeDashes(argv) : argv[i].flag = a

(***************************************************************************)
(* The file.                                                               *)
(***************************************************************************)
\* resolve_config_path: None when the file `--config` names does not exist.
ResolveConfigPath(argv, files) ==
    LET given == FlagValue(argv, "config_path")
        env == FlagValue(argv, "common.env")
    IN  IF given = None THEN (IF env = None THEN <<"local">> ELSE env)
        ELSE IF files[given].state = "missing" THEN None ELSE given

\* table_lookup: the value at a dotted path, if the table has it.
TableLookup(table, path) == IF path \in DOMAIN table THEN table[path] ELSE None

\* toml_value_as_string: an empty array, a table and a date give no value.
TomlValueAsString(v) ==
    CASE v.type = "array" -> IF v.value = <<>> THEN None ELSE v.value
      [] v.type = "table" -> None
      [] OTHER -> v.value

\* Mutant of Superseded: a list of the file stays in front of the command line's.
SupersededMode(argv, a) ==
    /\ a \in NODE_MODE_ARGUMENTS
    /\ \E b \in NODE_MODE_ARGUMENTS : CliProvides(argv, b)

\* The file's node mode gives way to one of the command line, its list to the same one.
Superseded(argv, a) ==
    \/ /\ a \in NODE_MODE_ARGUMENTS
       /\ \E b \in NODE_MODE_ARGUMENTS : CliProvides(argv, b)
    \/ a \in Lists /\ CliProvides(argv, a)

FileValue(table, a) ==
    LET v == TableLookup(table, a) IN IF v = None THEN None ELSE TomlValueAsString(v)

\* file_config_tokens.
FileConfigTokens(table, argv) ==
    LET used == {a \in Arguments :
                    /\ FileValue(table, a) # None
                    /\ ~Superseded(argv, a)
                    /\ a \in SetTrue => FileValue(table, a) = <<"true">>}
        Token(a) == [flag |-> a, value |-> IF a \in SetTrue THEN None ELSE FileValue(table, a)]
    IN  FoldSet(LAMBDA a, tokens : Append(tokens, Token(a)), <<>>, used)

\* unknown_fields: what a file sets that is no field of the configuration; it is only warned
\* about.
UnknownFields(table) == DOMAIN table \ (Arguments \ CLI_ONLY_ARGUMENTS)

(***************************************************************************)
(* clap, as load_from uses it: args_override_self lets a later occurrence  *)
(* replace an earlier one, but lists grow, and every occurrence's value is *)
(* parsed, replaced or not.  No argument is positional.                    *)
(***************************************************************************)
Rejected == [ok |-> FALSE]

Occurrence(s, a, v) ==
    IF ~Accepts(a, v) THEN Rejected
    ELSE [s EXCEPT !.pending = None,
                   !.matches[a] = IF a \in Lists /\ @ # None THEN @ \o v ELSE v]

\* A bare flag ahead of another token or of the end: only an optional value may be left out.
CloseFlag(s) ==
    CASE s.ok /\ s.pending # None /\ s.pending \in OptionalValue -> Occurrence(s, s.pending, <<"true">>)
      [] s.ok /\ s.pending # None /\ s.pending \notin OptionalValue -> Rejected
      [] OTHER -> s

Flagged(s, t) ==
    CASE ~s.ok -> s
      [] s.ok /\ t = Dashes -> [s EXCEPT !.dashes = TRUE]
      [] s.ok /\ t # Dashes /\ t.flag \notin Arguments -> Rejected
      [] s.ok /\ t.flag \in SetTrue -> IF t.value # None THEN Rejected ELSE [s EXCEPT !.matches[t.flag] = <<"true">>]
      [] s.ok /\ t.flag \in SetValue \cup Lists ->
            IF t.value = None THEN [s EXCEPT !.pending = t.flag] ELSE Occurrence(s, t.flag, t.value)

ParseToken(s, t) ==
    CASE ~s.ok -> s
      [] s.ok /\ (s.dashes \/ (t.flag = None /\ s.pending = None)) -> Rejected
      [] s.ok /\ ~s.dashes /\ t.flag = None /\ s.pending # None -> Occurrence(s, s.pending, t.value)
      [] s.ok /\ ~s.dashes /\ t.flag # None -> Flagged(CloseFlag(s), t)

\* The group "mode", the requirements of the modes, and the argument without a default.
MatchesValid(m) ==
    /\ Cardinality({a \in NODE_MODE_ARGUMENTS : m[a] # None}) = 1
    /\ m["leader"] = None => m["importer.external_rpc"] # None
    /\ m["executor.chain_id"] # None

TryGetMatches(tokens) ==
    LET start == [ok |-> TRUE, dashes |-> FALSE, pending |-> None, matches |-> [a \in Arguments |-> None]]
        end == CloseFlag(FoldLeft(ParseToken, start, tokens))
    IN  IF end.ok /\ MatchesValid(end.matches) THEN end ELSE Rejected

(***************************************************************************)
(* The configuration.                                                      *)
(***************************************************************************)
NodeMode(m) == CHOOSE a \in NODE_MODE_ARGUMENTS : m[a] # None

OrElse(v, default) == IF v = None THEN default ELSE v

\* ConfigCli::from_arg_matches: a section is there when one of its arguments is.
FromArgMatches(m) == [
    mode |-> NodeMode(m),
    env |-> Environments[OrElse(m["common.env"], <<"local">>)[1]],
    chainId |-> m["executor.chain_id"],
    blockMode |-> OrElse(m["miner.block_mode"], <<"automine">>),
    pathPrefix |-> m["storage.permanent.path_prefix"],
    unknownClients |-> OrElse(m["common.unknown_client_enabled"], <<"true">>) = <<"true">>,
    blockedClients |-> OrElse(m["common.blocked_clients"], <<>>),
    importer |->
        IF \A a \in ImporterArguments : m[a] = None THEN None
        ELSE [externalRpc |-> m["importer.external_rpc"],
              changes |-> m["importer.enable_block_changes_replication"] # None],
    kafka |->
        IF \A a \in KafkaArguments : m[a] = None THEN None
        ELSE [protocol |-> OrElse(m["kafka.security_protocol"], <<"none">>)[1],
              fields |-> [f \in {f \in KafkaFields : m[f] # None} |-> m[f]]]]

\* ignore_follower_sections.
IgnoreFollowerSections(c) ==
    IF c.mode = "leader" THEN [c EXCEPT !.importer = None, !.kafka = None] ELSE c

\* load_from and config_from_matches, on a file's table; config is None when clap refuses.
LoadFrom(argv, table) ==
    LET parsed == TryGetMatches(FileConfigTokens(table, argv) \o argv)
    IN  IF ~parsed.ok THEN [config |-> None, validate |-> FALSE]
        ELSE [config |-> IgnoreFollowerSections(FromArgMatches(parsed.matches)),
              validate |-> parsed.matches["validate_config"] # None]

\* StratusConfig::load: a file that does not exist is an empty one.
Load(argv, files) ==
    LET path == ResolveConfigPath(argv, files)
    IN  IF path = None \/ files[path].state \in {"unreadable", "malformed"}
        THEN [config |-> None, validate |-> FALSE]
        ELSE LoadFrom(argv, files[path].table)

(***************************************************************************)
(* The validation workflow.  What it warns about does not count.           *)
(***************************************************************************)
\* KafkaConfig::validate: the fields the security protocol still needs.
MissingKafkaFields(kafka) == KafkaRequired[kafka.protocol] \ DOMAIN kafka.fields

\* Validation::run and is_valid: KafkaCompleteness is the one step whose findings are errors.
IsValid(c) == c.kafka = None \/ MissingKafkaFields(c.kafka) = {}

=============================================================================
