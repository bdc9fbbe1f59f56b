------------------------------ MODULE ToolCalls ------------------------------
(***************************************************************************)
(* The MCP tools (adb-mcp tools.rs) over the operations of the engine they *)
(* call (adb-engine engine.rs, adb-core catalog.rs and schema.rs).  A call *)
(* reads the catalog twice: once to resolve its database, and for a schema *)
(* change what it inherits, and once more to take effect, with the calls   *)
(* of other requests in between.  An operation of the engine is one step   *)
(* here; EngineDdl and TableWrites model what is inside it.                *)
(*                                                                         *)
(* A catalog maps a tenant to its databases, a database to its tables and  *)
(* a table to its schema and rows; rows map a primary key to a value.      *)
(***************************************************************************)
EXTENDS Access, FiniteSets

DEFAULT_PARTITIONS == 4
MAX_PARTITIONS == 64

\* f, with what g has besides.
Joined(f, g) == [k \in DOMAIN f \cup DOMAIN g |-> IF k \in DOMAIN f THEN f[k] ELSE g[k]]

\* The arguments of a call: "" and 0 stand for one that is left out.
NoArguments ==
    [object |-> FALSE, database |-> "", table |-> "", columns |-> <<>>, primary_key |-> "",
     partitions |-> 0, description |-> "", rows |-> <<>>, keys |-> {}, cascade |-> FALSE,
     request |-> FALSE, plan |-> FALSE, limit |-> Unset]

-----------------------------------------------------------------------------
(* Schemas.                                                                *)

\* Columns are [name, type, nullable].
Names(schema) == {schema.columns[i].name : i \in DOMAIN schema.columns}
Column(schema, name) ==
    schema.columns[CHOOSE i \in DOMAIN schema.columns : schema.columns[i].name = name]

validate(schema) ==
    /\ schema.columns /= <<>>
    /\ schema.partitions \in 1 .. MAX_PARTITIONS
    /\ Cardinality(Names(schema)) = Len(schema.columns)
    /\ schema.primary_key /= "" =>
          /\ schema.primary_key \in Names(schema)
          /\ ~Column(schema, schema.primary_key).nullable
          /\ Column(schema, schema.primary_key).type \notin {"float64", "json"}

\* Mutant: the primary key may change while the table exists.
check_evolution_any_key(old, next) ==
    /\ validate(next)
    /\ next.partitions = old.partitions
    /\ Names(old) \subseteq Names(next)

check_evolution(old, next) ==
    /\ validate(next)
    /\ next.primary_key = old.primary_key
    /\ next.partitions = old.partitions
    /\ \A name \in Names(old) :
          /\ name \in Names(next)
          /\ Column(next, name).type = Column(old, name).type
          /\ Column(next, name).nullable = Column(old, name).nullable
    /\ \A name \in Names(next) \ Names(old) : Column(next, name).nullable

table_schema_from_args(args) ==
    [columns     |-> args.columns,
     primary_key |-> args.primary_key,
     partitions  |-> IF args.partitions = 0 THEN DEFAULT_PARTITIONS ELSE args.partitions,
     description |-> args.description]

\* schema_update: what the caller leaves out is taken from the table.
inherited(args, existing) ==
    [table_schema_from_args(args) EXCEPT
        !.primary_key = IF args.primary_key = "" THEN existing.primary_key ELSE @,
        !.partitions  = IF args.partitions = 0 THEN existing.partitions ELSE @,
        !.description = IF args.description = "" THEN existing.description ELSE @]

-----------------------------------------------------------------------------
(* The first step: the database of the call, and the schema it asks for.   *)

Unscoped == {"database_list", "database_create", "database_delete"}
Lenient  == {"database_list", "table_list", "table_describe", "schema_get"}
Tools == Unscoped \cup Lenient \cup
         {"table_create", "schema_update", "table_drop", "data_insert", "data_upsert",
          "data_get", "data_delete", "data_query"}

Databases(catalog, ctx) == DOMAIN catalog[ctx.tenant]
HasDatabase(catalog, ctx) == ctx.database \in Databases(catalog, ctx)
HasTable(catalog, ctx, t) ==
    HasDatabase(catalog, ctx) /\ t \in DOMAIN catalog[ctx.tenant][ctx.database]
TableOf(catalog, ctx, t) == catalog[ctx.tenant][ctx.database][t]

\* scoped: the argument, else the default of the key, else the only database
\* of the tenant.
scoped(catalog, ctx, args) ==
    LET available == IF "database:read" \in ctx.scopes THEN Databases(catalog, ctx) ELSE {}
    IN  CASE args.database /= ""           -> [ctx EXCEPT !.database = args.database]
          [] args.database = "" /\ ctx.database /= "" -> ctx
          [] OTHER -> IF Cardinality(available) = 1
                      THEN [ctx EXCEPT !.database = CHOOSE d \in available : TRUE]
                      ELSE NoContext

\* with_available_tables: a table that is not there becomes a bad request
\* where the caller may see which tables there are.
with_available_tables(catalog, ctx, error) ==
    IF error = "no table" /\ "schema:read" \in ctx.scopes /\ HasDatabase(catalog, ctx)
    THEN "bad request" ELSE error

\* Engine::describe_table.
DescribeError(catalog, ctx, t) ==
    CASE "schema:read" \notin ctx.scopes   -> "denied"
      [] ~HasDatabase(catalog, ctx)        -> "no database"
      [] ~HasTable(catalog, ctx, t)        -> "no table"
      [] OTHER                             -> ""

\* Which arguments make a call malformed before the engine is asked.
Malformed(tool, args) ==
    \/ tool \notin Lenient /\ ~args.object
    \/ tool \in {"database_create", "database_delete"} /\ args.database = ""
    \/ tool \notin Unscoped \cup {"table_list", "schema_get", "data_query"} /\ args.table = ""
    \/ tool \in {"table_create", "schema_update"} /\ ~validate(table_schema_from_args(args))
    \/ tool = "data_query" /\ args.request = args.plan

\* The first half of tools::call: an error, or the context and the schema
\* that the second half works with.
resolve(catalog, ctx, tool, args) ==
    LET chosen   == IF tool \in Unscoped THEN ctx ELSE scoped(catalog, ctx, args)
        wanted   == table_schema_from_args(args)
        describe == DescribeError(catalog, chosen, args.table)
        step(error, schema) == [error |-> error, ctx |-> chosen, schema |-> schema]
    IN  CASE tool \notin Tools           -> step("no tool", wanted)
          [] tool \in Tools /\ (Malformed(tool, args) \/ chosen = NoContext)
                                         -> step("bad request", wanted)
          [] OTHER ->
                IF tool /= "schema_update" THEN step("", wanted)
                ELSE IF describe /= ""
                THEN step(with_available_tables(catalog, chosen, describe), wanted)
                ELSE LET next == inherited(args, TableOf(catalog, chosen, args.table).schema)
                     IN  step(IF validate(next) THEN "" ELSE "bad request", next)

-----------------------------------------------------------------------------
(* The second step: the operation of the engine.                           *)

\* The scope each operation of the engine asks for.
Required ==
    [database_list |-> "database:read", database_create |-> "database:write",
     database_delete |-> "database:write", table_create |-> "schema:write",
     table_list |-> "schema:read", table_describe |-> "schema:read", schema_get |-> "schema:read",
     schema_update |-> "schema:write", table_drop |-> "schema:write",
     data_insert |-> "data:insert", data_upsert |-> "data:update", data_get |-> "database:read",
     data_delete |-> "data:delete", data_query |-> "database:read", explain |-> "database:read"]

\* Mutant: an upsert asks for the scope of an insert.
require_insert_only(ctx, tool, args) ==
    Required[IF tool = "data_upsert" THEN "data_insert" ELSE tool] \in ctx.scopes

\* RequestContext::require, as every operation calls it first.  A request in
\* plain language also lists the tables.
require(ctx, tool, args) ==
    /\ Required[tool] \in ctx.scopes
    /\ tool \in {"data_query", "explain"} /\ args.request => "schema:read" \in ctx.scopes

Outcome(error, catalog, rows) == [error |-> error, catalog |-> catalog, rows |-> rows]

\* The keys of a batch, and whether one is there twice.
KeysOf(rows) == {rows[i].key : i \in DOMAIN rows}
Last(rows, k) ==
    rows[CHOOSE i \in DOMAIN rows : /\ rows[i].key = k
                                    /\ \A j \in DOMAIN rows : rows[j].key = k => j <= i].value

\* What the engine answers to a permitted write of rows.
WriteError(tool, args, table) ==
    LET append_only == table.schema.primary_key = ""
    IN  CASE tool /= "data_insert" -> IF append_only THEN "bad request" ELSE ""
          [] tool = "data_insert" ->
                IF append_only THEN ""
                ELSE IF Cardinality(KeysOf(args.rows)) < Len(args.rows) THEN "bad request"
                ELSE IF KeysOf(args.rows) \cap DOMAIN table.rows /= {} THEN "exists" ELSE ""

\* The rows of a table after a permitted write; without a primary key they
\* are numbered.
Written(tool, args, table) ==
    LET rows == table.rows
        count == Cardinality(DOMAIN rows)
    IN  IF tool = "data_delete" THEN [k \in DOMAIN rows \ args.keys |-> rows[k]]
        ELSE IF table.schema.primary_key = ""
        THEN Joined(rows, [k \in count + 1 .. count + Len(args.rows) |->
                              args.rows[k - count].value])
        ELSE Joined([k \in KeysOf(args.rows) |-> Last(args.rows, k)], rows)

\* The row cap of a query: a limit argument replaces the limit of a plan and
\* narrows the budget of a request in plain language.
RowCap(ctx, args) ==
    IF args.limit = Unset \/ ctx.limits.max_rows < args.limit
    THEN ctx.limits.max_rows ELSE args.limit

\* Database operations.
database_op(catalog, ctx, tool, args) ==
    LET there == args.database \in Databases(catalog, ctx)
        put(databases) == [catalog EXCEPT ![ctx.tenant] = databases]
    IN  CASE tool = "database_list" -> Outcome("", catalog, 0)
          [] tool = "database_create" ->
                IF there THEN Outcome("exists", catalog, 0)
                ELSE Outcome("", put(Joined(catalog[ctx.tenant],
                                            [d \in {args.database} |-> <<>>])), 0)
          [] tool = "database_delete" ->
                IF ~there THEN Outcome("no database", catalog, 0)
                ELSE IF catalog[ctx.tenant][args.database] /= <<>> /\ ~args.cascade
                THEN Outcome("bad request", catalog, 0)
                ELSE Outcome("", put([d \in Databases(catalog, ctx) \ {args.database} |->
                                         catalog[ctx.tenant][d]]), 0)

\* Table operations, in the database of the context.
table_op(catalog, ctx, tool, args, schema) ==
    LET tables == catalog[ctx.tenant][ctx.database]
        put(new) == [catalog EXCEPT ![ctx.tenant][ctx.database] = new]
        there == args.table \in DOMAIN tables
    IN  IF ~HasDatabase(catalog, ctx) THEN Outcome("no database", catalog, 0)
        ELSE CASE tool = "table_create" ->
                     IF there THEN Outcome("exists", catalog, 0)
                     ELSE Outcome("", put(Joined(tables, [t \in {args.table} |->
                                            [schema |-> schema, rows |-> <<>>]])), 0)
               [] tool = "schema_update" ->
                     IF ~there THEN Outcome("no table", catalog, 0)
                     ELSE IF ~check_evolution(tables[args.table].schema, schema)
                     THEN Outcome("unsupported", catalog, 0)
                     ELSE Outcome("", put([tables EXCEPT ![args.table].schema = schema]), 0)
               [] tool = "table_drop" ->
                     IF ~there THEN Outcome("no table", catalog, 0)
                     ELSE Outcome("", put([t \in DOMAIN tables \ {args.table} |-> tables[t]]), 0)
               [] OTHER ->
                     Outcome(IF args.table = "" \/ there THEN "" ELSE "no table", catalog, 0)

\* Data operations, on a table of the database of the context.
data_op(catalog, ctx, tool, args) ==
    LET table == TableOf(catalog, ctx, args.table)
    IN  IF /\ tool \in {"data_insert", "data_upsert"}
           /\ Len(args.rows) > ctx.limits.max_write_rows
        THEN Outcome("limit", catalog, 0)
        ELSE IF tool \in {"data_query", "explain"} /\ ~HasDatabase(catalog, ctx)
        THEN Outcome("no database", catalog, 0)
        ELSE IF ~HasTable(catalog, ctx, args.table) THEN Outcome("no table", catalog, 0)
        ELSE IF tool \in {"data_query", "explain"}
        THEN LET found == Cardinality(DOMAIN table.rows)
             IN  Outcome("", catalog, IF found > RowCap(ctx, args) THEN RowCap(ctx, args) ELSE found)
        ELSE IF tool = "data_get"
        THEN Outcome(IF table.schema.primary_key = "" THEN "bad request" ELSE "", catalog,
                     Cardinality(args.keys \cap DOMAIN table.rows))
        ELSE LET error == WriteError(tool, args, table)
             IN  Outcome(error,
                         IF error /= "" THEN catalog
                         ELSE [catalog EXCEPT ![ctx.tenant][ctx.database][args.table].rows =
                                  Written(tool, args, table)],
                         0)

DatabaseTools == Unscoped
TableTools == {"table_create", "table_list", "table_describe", "schema_get", "schema_update",
               "table_drop"}

\* The operation of the engine.
perform(catalog, ctx, tool, args, schema) ==
    IF ~require(ctx, tool, args) THEN Outcome("denied", catalog, 0)
    ELSE IF tool \in DatabaseTools THEN database_op(catalog, ctx, tool, args)
    ELSE IF tool \in TableTools THEN table_op(catalog, ctx, tool, args, schema)
    ELSE data_op(catalog, ctx, tool, args)

\* The second half of tools::call: the operation, with its error reworded.
call(catalog, ctx, tool, args, schema) ==
    LET outcome == perform(catalog, ctx, tool, args, schema)
    IN  IF tool \in {"table_create", "table_list", "schema_update"} THEN outcome
        ELSE [outcome EXCEPT !.error = with_available_tables(catalog, ctx, @)]
=============================================================================
