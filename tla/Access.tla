------------------------------- MODULE Access --------------------------------
(***************************************************************************)
(* Who a request is: scopes and limits (adb-core context.rs), API keys and *)
(* their registry (adb-mcp auth.rs) and the configuration they are built   *)
(* from (adb-server main.rs).                                              *)
(***************************************************************************)
EXTENDS Integers, Sequences

Scopes == {"database:read", "database:write", "schema:read", "schema:write",
           "data:insert", "data:update", "data:delete"}

read_only == {"database:read", "schema:read"}

\* QueryLimits::default, without the byte and time budgets of an execution.
QueryLimits == [max_rows |-> 10000, max_write_rows |-> 1000000]

\* The value of an option the configuration leaves out.
Unset == -1
Given(value, default) == IF value = Unset THEN default ELSE value

ApiKey(key, tenant) ==
    [key |-> key, tenant |-> tenant, scopes |-> read_only, limits |-> QueryLimits,
     default_database |-> ""]

read_write(key) == [key EXCEPT !.scopes = Scopes]

\* ApiKeyConfig::build.  No scopes means read-only.
build(config) ==
    [ApiKey(config.key, config.tenant) EXCEPT
        !.scopes = IF config.scopes = {} THEN read_only ELSE config.scopes,
        !.default_database = config.default_database,
        !.limits = [max_rows |-> Given(config.max_rows, QueryLimits.max_rows),
                    max_write_rows |-> Given(config.max_write_rows, QueryLimits.max_write_rows)]]

\* build_auth refuses a key entry without a secret, and build a scope that
\* there is not.
Buildable(file) ==
    /\ \A i \in DOMAIN file.keys : file.keys[i].key /= "" /\ file.keys[i].scopes \subseteq Scopes
    /\ \A i \in DOMAIN file.local : file.local[i].scopes \subseteq Scopes

\* build_auth: the keys of the file, then the one of the command line; the
\* stdio identity is the file's, or else full access to the tenant.
build_auth(file, cli) ==
    LET full(key) == [read_write(ApiKey(key, cli.tenant)) EXCEPT !.default_database = cli.database]
    IN  [keys  |-> [i \in DOMAIN file.keys |-> build(file.keys[i])]
                       \o (IF cli.api_key = "" THEN <<>> ELSE <<full(cli.api_key)>>),
         local |-> IF file.local = <<>> THEN full("stdio") ELSE build(file.local[1])]

-----------------------------------------------------------------------------

\* ApiKey::context.
context(key) ==
    [tenant |-> key.tenant, database |-> key.default_database, scopes |-> key.scopes,
     limits |-> key.limits]

\* Stands for the error of a request that is refused.
NoContext == [tenant |-> "", database |-> "", scopes |-> {}, limits |-> QueryLimits]

\* context_for_key compares with every key, and the last match wins.
context_for_key(registry, presented) ==
    LET matches == {i \in DOMAIN registry.keys : registry.keys[i].key = presented}
    IN  IF matches = {} THEN NoContext
        ELSE context(registry.keys[CHOOSE i \in matches : \A j \in matches : j <= i])

local_context(registry) == context(registry.local)

\* An Authorization header: a prefix as it was spelled, and a secret.  Both
\* spellings of Bearer are stripped, another prefix stays part of the token.
absent == [prefix |-> "absent", secret |-> ""]
strip_prefix(header) ==
    CASE header.prefix \in {"Bearer", "bearer", ""} -> header.secret
      [] header.prefix = "absent"                   -> ""
      [] OTHER                                      -> "unknown"

context_for_header(registry, header) ==
    IF header = absent THEN NoContext
    ELSE context_for_key(registry, strip_prefix(header))

\* The fingerprint of the key a request came with: a hash of the same token,
\* taken to be free of collisions.
key_fingerprint(header) == strip_prefix(header)
=============================================================================
