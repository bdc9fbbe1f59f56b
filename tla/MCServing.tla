------------------------------ MODULE MCServing ------------------------------
(***************************************************************************)
(* Model-checking instance of Serving: four requests at most, in scenarios *)
(* that put together the requests whose interleavings matter.              *)
(***************************************************************************)
EXTENDS Serving, TLC

Entry(key, tenant, scopes) ==
    [key |-> key, tenant |-> tenant, scopes |-> scopes, default_database |-> "",
     max_rows |-> Unset, max_write_rows |-> Unset]

\* ka may do anything in t1, kr may read it, kw may insert one row at a time
\* into t2 and change rows there, ki only insert.
File ==
    [keys  |-> <<Entry("ka", "t1", Scopes), Entry("kr", "t1", {}),
                 [Entry("kw", "t2", {"data:insert", "data:update", "schema:read"}) EXCEPT
                     !.default_database = "d", !.max_write_rows = 1],
                 [Entry("ki", "t2", {"data:insert"}) EXCEPT !.default_database = "d"]>>,
     local |-> <<>>]
NoKeys  == [keys |-> <<>>, local |-> <<Entry("", "t1", {"data:insert", "database:read"})>>]
Secretless == [keys |-> <<Entry("", "t1", {})>>, local |-> <<>>]
Cli(api_key) == [api_key |-> api_key, tenant |-> "t2", database |-> "d"]

Columns(pk) == <<[name |-> "id", type |-> "int64", nullable |-> pk /= "id"],
                 [name |-> "no", type |-> "int64", nullable |-> pk /= "no"]>>
Wider(pk) == Append(Columns(pk), [name |-> "new", type |-> "utf8", nullable |-> TRUE])
Schema(pk) == [columns |-> Columns(pk), primary_key |-> pk, partitions |-> 4, description |-> ""]
Stored(rows) == [schema |-> Schema("id"), rows |-> rows]
Empty == [t \in {"t1", "t2"} |-> <<>>]
Filled == [t \in {"t1", "t2"} |-> "d" :> ("x" :> Stored(1 :> "old"))]

Http(via, method, prefix, secret) ==
    [via |-> via, method |-> method, header |-> [prefix |-> prefix, secret |-> secret],
     origin |-> "none", version |-> "none", accept |-> FALSE, session |-> FALSE, message |-> <<>>]
Message(kind, method) ==
    [kind |-> kind, jsonrpc |-> TRUE, method |-> method, tool |-> "", args |-> NoArguments]
Tool(tool, args) == [Message("request", "tools/call") EXCEPT !.tool = tool, !.args = args]
Post(secret, message) == [Http("mcp", "POST", "Bearer", secret) EXCEPT !.message = message]
Rpc(secret, tool, args) == Post(secret, Tool(tool, args))
Route(secret, tool, args) ==
    [Http("rest", "POST", "bearer", secret) EXCEPT !.message = Tool(tool, args)]
Line(message) == [Post("", message) EXCEPT !.via = "stdio", !.header = absent]
WithSession(input) == [input EXCEPT !.session = TRUE]

Args == [NoArguments EXCEPT !.object = TRUE]
On(d, x) == [Args EXCEPT !.database = d, !.table = x]
Rows(d, keys, value) ==
    [On(d, "x") EXCEPT !.rows = [i \in DOMAIN keys |-> [key |-> keys[i], value |-> value]]]
Keys(d, keys) == [On(d, "x") EXCEPT !.keys = keys]
Create(d, x, pk) == [On(d, x) EXCEPT !.columns = Columns(pk), !.primary_key = pk]
Widen(pk) == [On("", "x") EXCEPT !.columns = Wider(pk)]
Initialize(secret) == Post(secret, Message("request", "initialize"))

Scenario(transport, stored, inputs) ==
    [file |-> File, cli |-> Cli("ka"), transport |-> transport, stored |-> stored, calm |-> TRUE,
     inputs |-> [r \in Slots |-> IF r \in DOMAIN inputs THEN inputs[r] ELSE {}]]

\* Sessions of two keys at the cap, used, closed and left to expire.
SessionInputs == <<
    {Initialize("kr")},
    {Initialize("ka"), [Initialize("kr") EXCEPT !.message.jsonrpc = FALSE]},
    {Initialize("kr"), WithSession([Http("mcp", "DELETE", "bearer", "kr") EXCEPT !.origin = "local"])},
    {WithSession([Post("kr", Message("request", "ping")) EXCEPT !.header.prefix = ""]),
     WithSession([Http("mcp", "GET", "Bearer", "kr") EXCEPT !.accept = TRUE]),
     Http("mcp", "DELETE", "Bearer", "kr")} >>

\* One request each: what admission and the handlers refuse.
Odd == {Http("mcp", "GET", "Bearer", "kr"), Http("mcp", "GET", "BEARER", "kr"),
        [Initialize("kr") EXCEPT !.header = absent],
        [Initialize("kr") EXCEPT !.origin = "foreign"],
        [Initialize("kr") EXCEPT !.version = "unsupported"],
        [Http("mcp", "OPTIONS", "Bearer", "kr") EXCEPT !.origin = "foreign"],
        [Http("mcp", "OPTIONS", "Bearer", "kr") EXCEPT !.origin = "app"],
        Post("kr", Message("notification", "tools/call")), Post("kr", Message("response", "")),
        Post("kr", Message("garbage", "")), Post("kr", Message("request", "tools/call")),
        Post("kr", Message("request", "prompts/list")),
        Rpc("kr", "tool_unknown", Args), Rpc("kr", "table_list", NoArguments),
        Rpc("kr", "data_query", On("", "x")), Route("nobody", "database_list", Args),
        Route("kr", "data_query", [On("d", "x") EXCEPT !.request = TRUE, !.plan = TRUE])}

\* A schema change while its table is dropped and created with another key.
SchemaInputs == <<
    {Rpc("ka", "schema_update", Widen("id")), Line(Tool("schema_update", Widen("id")))},
    {Route("ka", "table_drop", On("d", "x")), Route("ka", "schema_update", Widen("id"))},
    {Rpc("ka", "table_create", Create("", "x", "no")),
     Rpc("ka", "table_create", [Create("d", "y", "id") EXCEPT !.columns = <<>>])} >>

\* Reads and writes of the keys of two tenants, against the same table.
DataInputs == <<
    {Rpc("kw", "data_upsert", Rows("", <<1>>, "new")), Rpc("ki", "data_upsert", Rows("", <<1>>, "new")),
     Rpc("kw", "data_insert", Rows("", <<2, 3>>, "new")), Rpc("ki", "data_insert", Rows("", <<2, 2>>, "new")),
     Rpc("kw", "data_delete", Keys("", {1})), Rpc("kw", "schema_update", Widen("id"))},
    {Route("ka", "data_insert", Rows("d", <<1, 2>>, "mine")), Route("ka", "data_delete", Keys("d", {1})),
     Rpc("ka", "data_insert", Rows("", <<3>>, "mine")), Route("ka", "database_delete", On("d", "")),
     Route("ka", "database_delete", [On("d", "") EXCEPT !.cascade = TRUE])},
    {Route("kr", "data_get", Keys("d", {1, 2})), Route("kr", "explain", [On("d", "x") EXCEPT !.plan = TRUE]),
     Rpc("kr", "data_query", [On("d", "x") EXCEPT !.request = TRUE, !.limit = 1]),
     Rpc("kr", "schema_get", NoArguments), Rpc("ka", "database_create", On("e", "")),
     Rpc("kr", "data_upsert", Rows("d", <<1>>, "bad"))} >>

\* Writes on both transports and an event stream while the server stops.
StopInputs == <<
    {Line(Tool("data_insert", Rows("", <<2>>, "local")))},
    {Route("ka", "data_upsert", Rows("d", <<1>>, "http"))},
    {[Http("mcp", "GET", "Bearer", "ka") EXCEPT !.accept = TRUE]},
    {Line(Message("request", "ping"))} >>

MCScenarios ==
    "sessions"  :> [Scenario("http", Empty, SessionInputs) EXCEPT !.cli = Cli("")] @@
    "refusals"  :> [Scenario("http", Filled, <<Odd>>) EXCEPT !.cli = Cli("")] @@
    "schema"    :> Scenario("both", Filled, SchemaInputs) @@
    "data"      :> [Scenario("http", Filled, DataInputs) EXCEPT !.cli = Cli("")] @@
    "stop"      :> [Scenario("both", Filled, StopInputs) EXCEPT !.calm = FALSE] @@
    "local"     :> [Scenario("stdio", Filled, <<{Line(Tool("data_insert", Rows("", <<2>>, "a")))},
                                               {Line(Tool("data_delete", Keys("", {1})))}>>)
                       EXCEPT !.file = NoKeys, !.cli = Cli(""), !.calm = FALSE] @@
    "keyless"   :> [Scenario("both", Empty, <<>>) EXCEPT !.file = NoKeys, !.cli = Cli("")] @@
    "secretless" :> [Scenario("http", Empty, <<>>) EXCEPT !.file = Secretless]
=============================================================================
