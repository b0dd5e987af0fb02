----------------------------- MODULE MCStartup ------------------------------
(***************************************************************************)
(* Small command lines and files for Startup: every command line of up to  *)
(* MaxTokens tokens, before files of each kind.                            *)
(***************************************************************************)
EXTENDS Startup

CONSTANT MaxTokens   \* bound: tokens of the command line

Bare(a) == [flag |-> a, value |-> None]
Valued(a, v) == [flag |-> a, value |-> v]
Word(v) == [flag |-> None, value |-> v]

Str(v) == [type |-> "string", value |-> v]
Bool(b) == [type |-> "boolean", value |-> IF b THEN <<"true">> ELSE <<"false">>]

Tokens == {
    Bare("leader"), Bare("follower"), Bare("validate_config"),
    Bare("common.env"), Valued("common.env", <<"test">>),
    Bare("config_path"), Valued("config_path", <<"other">>),
    Valued("common.blocked_clients", <<"c">>),
    Valued("importer.external_rpc", <<"url">>),
    Bare("common.unknown_client_enabled"),
    Word(<<"staging">>), Word(<<"false">>), Dashes}

MCArgvs == UNION {[1..n -> Tokens] : n \in 0..MaxTokens}

Paths == {<<"local">>, <<"staging">>, <<"test">>, <<"false">>, <<"other">>}

Absent == [state |-> "missing", table |-> <<>>]
File(table) == [state |-> "read", table |-> table]

Base == ("executor.chain_id" :> Str(<<"2008">>)) @@
        ("common.blocked_clients" :> [type |-> "array", value |-> <<"a", "b">>])

Leader == Base @@ ("leader" :> Bool(TRUE)) @@ ("miner.block_mode" :> Str(<<"1s">>))
              @@ ("kafka.topic" :> Str(<<"t">>))

Follower == Base @@ ("follower" :> Bool(TRUE)) @@ ("leader" :> Bool(FALSE))
                 @@ ("importer.external_rpc" :> Str(<<"url">>)) @@ ("miner.block_mode" :> Str(<<"1s">>))

\* A section with every field the protocol asks for but those missing.
KafkaSection(protocol, missing) ==
    ("kafka.security_protocol" :> Str(<<protocol>>)) @@
    [f \in KafkaRequired[protocol] \ missing |-> Str(<<"x">>)]

LocalFiles == {
    Absent,
    [state |-> "unreadable", table |-> <<>>],
    [state |-> "malformed", table |-> <<>>],
    File(Leader),
    File(Leader @@ ("storage.permanent.path_prefix" :> Str(<<"">>))),
    File(Follower @@ KafkaSection("sasl", {})),
    File(Follower @@ KafkaSection("ssl", {"kafka.ssl_key_location"})),
    File(Follower @@ ("importer.enable_block_changes_replication" :> Bool(TRUE))
                  @@ ("common.unknown_client_enabled" :> Bool(FALSE))),
    File(Base @@ ("fake_leader" :> Bool(TRUE)) @@ ("common" :> [type |-> "table", value |-> <<>>]))}

\* The other files: one that only names a leader, and nothing under the other names.
MCFileSystems == {
    [p \in Paths |->
        CASE p = <<"local">> -> f
          [] p = <<"staging">> -> File(Leader @@ ("common.env" :> Str(<<"staging">>)))
          [] p = <<"other">> -> File(Follower)
          [] OTHER -> Absent] : f \in LocalFiles}

\* Files with fields the configuration does not know.
MCStaleFiles == {
    [p \in Paths |-> IF p = <<"local">> THEN File(Leader @@ (field :> Bool(TRUE))) ELSE Absent] :
        field \in {"executor.chain", "validate_config"}}
=============================================================================
