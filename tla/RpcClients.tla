----------------------------- MODULE RpcClients -----------------------------
(***************************************************************************)
(* Who sends an RPC request (rpc/middleware/http_middleware.rs,            *)
(* rpc/types/rpc_client_app.rs and the matcher build.rs generates from     *)
(* static/client_scopes): the client application a request names, whether  *)
(* it carries the administrator's password, and which clients are refused. *)
(*                                                                         *)
(* A name is the sequence of its parts, <<"stratus", "-", "node">>; a      *)
(* spelling of it is plain, or has the blanks, slashes, capitals and       *)
(* underscores that RpcClientApp::parse takes away.  An application is the *)
(* scoped name <<"stratus", "::", "node">>, the unknown one is <<>>.       *)
(***************************************************************************)
EXTENDS Naturals, Sequences, FiniteSets, Functions

CONSTANTS
    AdminPassword,   \* ADMIN_PASSWORD, or None when it is not set
    None

Unknown == <<>>

(***************************************************************************)
(* create_client_scope: the first pattern that fits gives the scope, a     *)
(* pattern with a slash takes its prefix off the name.                     *)
(***************************************************************************)
ScopePatterns == <<
    [fits |-> "trim",   text |-> "stratus",    scope |-> "stratus"],
    [fits |-> "exact",  text |-> "authorizer", scope |-> "acquiring"],
    [fits |-> "prefix", text |-> "banking",    scope |-> "banking"],
    [fits |-> "trim",   text |-> "user-",      scope |-> "user"]>>

Fits(p, name) ==
    IF p.fits = "exact" THEN name = <<p.text>> ELSE Len(name) > 0 /\ Head(name) = p.text

\* trim_start_matches: every leading occurrence goes.
TrimStart(name, text) ==
    LET kept == {i \in 1..Len(name) : name[i] # text}
    IN  IF kept = {} THEN <<>> ELSE SubSeq(name, CHOOSE i \in kept : \A j \in kept : i <= j, Len(name))

CreateClientScope(name) ==
    LET fitting == {i \in DOMAIN ScopePatterns : Fits(ScopePatterns[i], name)}
        p == ScopePatterns[CHOOSE i \in fitting : \A j \in fitting : i <= j]
        scope == IF fitting = {} THEN "other" ELSE p.scope
        rest == IF fitting # {} /\ p.fits = "trim" THEN TrimStart(name, p.text) ELSE name
    IN  <<scope, "::">> \o TrimStart(rest, "-")

\* RpcClientApp::parse: the decoration of the spelling does not reach the scope.
Parse(raw) == IF raw.name = <<>> THEN Unknown ELSE CreateClientScope(raw.name)

(***************************************************************************)
(* The client of an HTTP request: the query, then the headers, then the    *)
(* path.  A parameter that is there decides, be it empty; a header that is *)
(* empty or is not text is passed over.                                    *)
(***************************************************************************)
FirstOf(candidates) == SelectSeq(candidates, LAMBDA raw : raw # None)

TryQueryParams(request) == FirstOf(request.query)

TryHeaders(request) ==
    SelectSeq(request.headers, LAMBDA raw : raw # None /\ raw.ascii /\ raw.name # <<>>)

TryPath(request) == FirstOf(<<request.path>>)

ParseClientApp(request) ==
    LET found == TryQueryParams(request) \o TryHeaders(request) \o TryPath(request)
    IN  IF found = <<>> THEN Unknown ELSE Parse(Head(found))

\* Without a password everybody is an administrator.
ParseAdminPassword(request) == AdminPassword = None \/ request.password = AdminPassword

(***************************************************************************)
(* The clients GlobalState keeps out.                                      *)
(***************************************************************************)
\* Mutant of AddBlockedClient: the name as it was given, not as requests are read.
AddBlockedClientRaw(blocked, raw) ==
    IF raw.name = <<>> THEN blocked ELSE blocked \cup {raw.name}

AddBlockedClient(blocked, raw) ==
    IF Parse(raw) = Unknown THEN blocked ELSE blocked \cup {Parse(raw)}

RemoveBlockedClient(blocked, raw) == blocked \ {Parse(raw)}

IsClientBlocked(blocked, client) == client # Unknown /\ client \in blocked

\* reject_client of the RPC middleware, asked again at every call.
RejectClient(state, client) ==
    \/ client = Unknown /\ ~state.unknown
    \/ IsClientBlocked(state.blocked, client)
=============================================================================
