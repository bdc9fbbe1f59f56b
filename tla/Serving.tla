------------------------------- MODULE Serving -------------------------------
(***************************************************************************)
(* A running server: the HTTP transport with its MCP endpoint and its REST *)
(* routes (adb-api), the stdio transport (adb-mcp) and the life of the     *)
(* process (adb-server main.rs).  Requests interleave at the points where  *)
(* a handler awaits or takes a lock; sessions come from Sessions, callers  *)
(* from Access, what a call does from ToolCalls.                           *)
(*                                                                         *)
(* A behaviour starts in one of the Scenarios: the configuration the       *)
(* server is started with, what is stored, and which requests each slot    *)
(* may send.  In a calm one clients stay and nobody stops the server.      *)
(* axum and hyper are external: they accept connections until the graceful *)
(* shutdown begins and then wait for the open ones.                        *)
(***************************************************************************)
EXTENDS Sessions, ToolCalls

CONSTANTS
    Slots,           \* the requests of a behaviour
    Scenarios,       \* name -> [file, cli, transport, stored, inputs, calm]
    AllowedOrigins   \* with_allowed_origins

\* An identifier that was never issued is not one that uuid can draw.
ASSUME ServingAssumption == Ids \cap {"", "unknown"} = {}

\* A table has a schema and rows.
IsCatalog(stored) ==
    \A t \in DOMAIN stored : \A d \in DOMAIN stored[t] : \A x \in DOMAIN stored[t][d] :
        DOMAIN stored[t][d][x] = {"schema", "rows"}

\* The file lists its keys, and a REST route stands for an operation.
ASSUME ScenariosAssumption ==
    \A s \in DOMAIN Scenarios :
        LET keys == Scenarios[s].file.keys
        IN  /\ keys \in Seq({keys[i] : i \in DOMAIN keys})
            /\ IsCatalog(Scenarios[s].stored)
            /\ \A r \in Slots : \A input \in Scenarios[s].inputs[r] :
                  input.via = "rest" => input.message.tool \in DOMAIN Required

VARIABLES
    scenario,        \* the name of the one the server runs in
    catalog,         \* the engine: see ToolCalls
    dirty,           \* tables with rows in a memtable: <<tenant, database, table>>
    req,             \* req[r]: one request
    main,            \* where serve() is
    http,            \* the HTTP task
    stop,            \* the shutdown channel of serve()
    stopping,        \* AppState.stopping
    stdin,           \* the stdio loop: "off", "reading" or "ended"
    signals,         \* signals received
    pending,         \* tables the checkpoint has still to flush
    \* history
    opener,          \* session -> the context of the request that opened it
    timedOut,        \* the drain has timed out
    late,            \* requests that wrote after the checkpoint began
    unflushed        \* tables whose flush failed

engineVars  == <<catalog, dirty, late>>
processVars == <<main, http, stop, stopping, stdin, signals, pending, timedOut, unflushed>>
vars == <<sessionVars, scenario, engineVars, req, processVars, opener>>

config == Scenarios[scenario]
registry == build_auth(config.file, config.cli)

TablesOf(t) == UNION {{<<t, d, x>> : x \in DOMAIN catalog[t][d]} : d \in DOMAIN catalog[t]}
Tables == UNION {TablesOf(t) : t \in DOMAIN catalog}

NoRequest ==
    [phase |-> "new", input |-> <<>>, session |-> "", ctx |-> NoContext, schema |-> <<>>,
     gone |-> FALSE, opens |-> FALSE, status |-> 0, error |-> ""]

-----------------------------------------------------------------------------
(* Admission.                                                              *)

origin_allowed(origin) == origin = "local" \/ origin \in AllowedOrigins

\* The status admit refuses a request with, 0 if it does not.  Only a request
\* that is authenticated reaches the session.
Refused(input) ==
    CASE input.origin /= "none" /\ ~origin_allowed(input.origin) -> 403
      [] OTHER -> IF input.version = "unsupported" THEN 400
                  ELSE IF context_for_header(registry, input.header) = NoContext THEN 403 ELSE 0

admit(input, id) ==
    IF Refused(input) /= 0 THEN Refused(input)
    ELSE IF id /= "" /\ ~Usable(id, key_fingerprint(input.header)) THEN 404 ELSE 0

\* What admit does to the session table.
Touch(input, id) ==
    IF Refused(input) = 0 /\ id /= "" THEN touch(id, key_fingerprint(input.header))
    ELSE UNCHANGED sessionVars

Set(r, value) == req' = [req EXCEPT ![r] = value]
Reply(r, status, error) ==
    Set(r, [req[r] EXCEPT !.phase = "replied", !.status = status, !.error = error])

\* A request reaches the HTTP transport.
Accepts(r) == main /= "exited" /\ http = "up" /\ req[r].phase = "new"

Received(input, id, phase) ==
    [NoRequest EXCEPT !.phase = phase, !.input = input, !.session = id,
                      !.ctx = context_for_header(registry, input.header)]
Answered(input, status) ==
    [NoRequest EXCEPT !.phase = "replied", !.input = input, !.status = status]

\* The /mcp endpoint.  An identifier is one that was issued, or an unknown one.
Mcp(r, input, id) ==
    /\ Accepts(r)
    /\ input.via = "mcp" /\ input.method /= "OPTIONS"
    /\ id \in (IF input.session THEN issued \cup {"unknown"} ELSE {""})
    /\ Touch(input, id)
    /\ LET status == admit(input, id)
       IN  \/ status /= 0 /\ Set(r, Answered(input, status))
           \/ /\ status = 0 /\ input.method = "POST"
              /\ Set(r, Received(input, id, "blocking"))
           \/ /\ status = 0 /\ input.method = "GET"
              /\ Set(r, IF input.accept THEN Received(input, id, "stream")
                        ELSE Answered(input, 405))
           \/ /\ status = 0 /\ input.method = "DELETE"
              /\ Set(r, IF id /= "" THEN Received(input, id, "closing")
                        ELSE Answered(input, 400))
    /\ UNCHANGED <<scenario, engineVars, processVars, opener>>

\* CORS preflight.
options(r, input) ==
    /\ Accepts(r)
    /\ input.via = "mcp" /\ input.method = "OPTIONS"
    /\ Set(r, Answered(input, IF input.origin = "none" \/ origin_allowed(input.origin)
                              THEN 204 ELSE 403))
    /\ UNCHANGED <<sessionVars, scenario, engineVars, processVars, opener>>

\* AppState::context: the caller, in the database of the path.
rest_context(input) ==
    LET ctx == context_for_header(registry, input.header)
    IN  IF ctx = NoContext \/ input.message.tool \in Unscoped THEN ctx
        ELSE [ctx EXCEPT !.database = input.message.args.database]

\* The REST routes of databases and tables.  Two of them call the tool, the
\* others the engine.
ViaTool == {"table_create", "schema_update"}
RestCatalog(r, input) ==
    LET tool == input.message.tool
        ctx  == rest_context(input)
        entry == IF tool \in ViaTool THEN "blocking" ELSE "resolved"
    IN  /\ Accepts(r)
        /\ input.via = "rest" /\ tool \in DatabaseTools \cup TableTools
        /\ Set(r, IF ctx = NoContext THEN Answered(input, 403)
                  ELSE [Received(input, "", entry) EXCEPT !.ctx = ctx])
        /\ UNCHANGED <<sessionVars, scenario, engineVars, processVars, opener>>

\* QueryBody::into_source: a request or a plan, and not both.
into_source(args) == args.request /= args.plan

\* The REST routes of rows and queries.
RestData(r, input) ==
    LET tool == input.message.tool
        ctx  == rest_context(input)
    IN  /\ Accepts(r)
        /\ input.via = "rest" /\ tool \notin DatabaseTools \cup TableTools
        /\ Set(r, IF ctx = NoContext THEN Answered(input, 403)
                  ELSE IF tool \in {"data_query", "explain"} /\ ~into_source(input.message.args)
                  THEN Answered(input, 400)
                  ELSE [Received(input, "", "resolved") EXCEPT !.ctx = ctx])
        /\ UNCHANGED <<sessionVars, scenario, engineVars, processVars, opener>>

\* The stdio loop reads one line after it has answered the previous one.
StdioBusy == \E r \in Slots : /\ req[r].phase \in {"blocking", "resolved", "finished"}
                              /\ req[r].input.via = "stdio"
ReadLine(r, input) ==
    /\ main \notin {"starting", "exited"}
    /\ stdin = "reading" /\ ~StdioBusy
    /\ req[r].phase = "new" /\ input.via = "stdio"
    /\ Set(r, [Received(input, "", "blocking") EXCEPT !.ctx = local_context(registry)])
    /\ UNCHANGED <<sessionVars, scenario, engineVars, processVars, opener>>

-----------------------------------------------------------------------------
(* The work of a request, on a thread of its own.                          *)

Runs(r) == main /= "exited" /\ req[r].phase \in {"blocking", "resolved"}

Finish(r, status, error) ==
    Set(r, [req[r] EXCEPT !.phase = "finished", !.status = status, !.error = error])

\* McpServer::handle on what is not a tool call: what it answers, or that
\* there is no answer.
Answer(message) ==
    CASE message.kind \in {"notification", "response"} -> [status |-> 202, error |-> ""]
      [] message.kind = "garbage"  -> [status |-> 200, error |-> "parse"]
      [] message.kind = "request" /\ ~message.jsonrpc -> [status |-> 200, error |-> "invalid request"]
      [] OTHER ->
            [status |-> 200,
             error  |-> CASE message.method \in {"initialize", "ping", "tools/list"} -> ""
                          [] message.method = "tools/call" -> "invalid params"
                          [] OTHER -> "method not found"]

\* A request that gets as far as tools::call.
IsCall(message) ==
    /\ message.kind = "request" /\ message.jsonrpc
    /\ message.method = "tools/call" /\ message.tool /= ""

handle(r) ==
    LET message == req[r].input.message
        step    == resolve(catalog, req[r].ctx, message.tool, message.args)
    IN  /\ Runs(r) /\ req[r].phase = "blocking"
        /\ \/ /\ ~IsCall(message)
              /\ Set(r, [req[r] EXCEPT
                    !.phase = "finished",
                    !.status = Answer(message).status, !.error = Answer(message).error,
                    !.opens = /\ req[r].input.via = "mcp"
                              /\ message.kind = "request" /\ message.method = "initialize"
                              /\ Answer(message).error = ""])
           \/ IsCall(message) /\ step.error /= "" /\ Finish(r, 200, step.error)
           \/ /\ IsCall(message) /\ step.error = ""
              /\ Set(r, [req[r] EXCEPT !.phase = "resolved", !.ctx = step.ctx,
                                       !.schema = step.schema])
        /\ UNCHANGED <<sessionVars, scenario, engineVars, processVars, opener>>

\* The operation of the engine.  An acknowledged write is in the log and in a
\* memtable, and a schema change writes no rows.
Apply(r) ==
    LET message == req[r].input.message
        ctx     == req[r].ctx
        outcome == IF req[r].input.via = "rest" /\ message.tool \notin ViaTool
                   THEN perform(catalog, ctx, message.tool, message.args, req[r].schema)
                   ELSE call(catalog, ctx, message.tool, message.args, req[r].schema)
        wrote   == /\ outcome.error = ""
                   /\ message.tool \in {"data_insert", "data_upsert", "data_delete"}
    IN  /\ Runs(r) /\ req[r].phase = "resolved"
        /\ catalog' = outcome.catalog
        /\ dirty' = (IF wrote THEN dirty \cup {<<ctx.tenant, ctx.database, message.args.table>>}
                     ELSE dirty) \cap Tables'
        /\ late' = IF wrote /\ main = "checkpoint" THEN late \cup {r} ELSE late
        /\ Finish(r, 200, outcome.error)
        /\ UNCHANGED <<sessionVars, scenario, processVars, opener>>

\* The handler resumes and answers; after initialize it opens a session first.
Respond(r) ==
    /\ main /= "exited"
    /\ req[r].phase = "finished" /\ ~req[r].gone
    /\ \/ /\ ~req[r].opens
          /\ Reply(r, req[r].status, req[r].error)
          /\ UNCHANGED <<sessionVars, opener>>
       \/ \E id \in Ids :
          /\ req[r].opens
          /\ open(id, key_fingerprint(req[r].input.header))
          /\ opener' = [i \in DOMAIN opener \cup {id} |->
                           IF i = id THEN req[r].ctx ELSE opener[i]]
          /\ Reply(r, req[r].status, req[r].error)
    /\ UNCHANGED <<scenario, engineVars, processVars>>

\* delete: the session is closed after admit has released the table.
Close(r) ==
    /\ main /= "exited"
    /\ req[r].phase = "closing"
    /\ close(req[r].session)
    /\ Reply(r, 204, "")
    /\ UNCHANGED <<scenario, engineVars, processVars, opener>>

\* The stream of a GET ends once the server is stopping, however late it
\* subscribed.
SeesStop(r) == req[r].phase = "stream" /\ stopping

EndStream(r) ==
    /\ main /= "exited"
    /\ SeesStop(r)
    /\ Reply(r, 200, "")
    /\ UNCHANGED <<sessionVars, scenario, engineVars, processVars, opener>>

\* The client goes away.  A handler that awaits is dropped, but its thread
\* runs on; a stdio client that stops reading ends the loop.
ClientGone(r) ==
    /\ main /= "exited" /\ (config.calm => req[r].phase = "stream")
    /\ req[r].phase \in {"blocking", "resolved", "finished", "stream"}
    /\ ~req[r].gone
    /\ req[r].input.via = "stdio" => req[r].phase = "finished"
    /\ Set(r, [req[r] EXCEPT !.gone = TRUE,
                             !.phase = IF @ = "stream" THEN "replied" ELSE @])
    /\ stdin' = IF req[r].input.via = "stdio" THEN "ended" ELSE stdin
    /\ UNCHANGED <<sessionVars, scenario, engineVars, opener, main, http, stop, stopping,
                   signals, pending, timedOut, unflushed>>

-----------------------------------------------------------------------------
(* The life of the process.                                                *)

Serves(t) == config.transport \in {t, "both"}

\* A configuration without usable keys stops the server before it listens.
Start ==
    /\ main = "starting"
    /\ \/ /\ ~Buildable(config.file) \/ (Serves("http") /\ registry.keys = <<>>)
          /\ main' = "exited"
          /\ UNCHANGED <<http, stdin>>
       \/ /\ Buildable(config.file) /\ ~(Serves("http") /\ registry.keys = <<>>)
          /\ main'  = IF Serves("stdio") THEN "racing" ELSE "waiting"
          /\ stdin' = IF Serves("stdio") THEN "reading" ELSE "off"
          /\ http'  = IF Serves("http") THEN "binding" ELSE "off"
    /\ UNCHANGED <<sessionVars, scenario, engineVars, req, stop, stopping, signals, pending,
                   timedOut, unflushed, opener>>

ProcessStep == UNCHANGED <<sessionVars, scenario, engineVars, req, opener>>

\* The HTTP task binds, or ends with an error that nobody waits for yet.
Bind ==
    /\ main /= "exited"
    /\ http = "binding"
    /\ http' \in {"up", "failed"}
    /\ ProcessStep
    /\ UNCHANGED <<main, stop, stopping, stdin, signals, pending, timedOut, unflushed>>

\* The first signal asks every transport to stop, the second ends the process.
Signal ==
    /\ main \notin {"starting", "exited"}
    /\ signals < 2 /\ ~config.calm
    /\ signals' = signals + 1
    /\ stop' = TRUE
    /\ main' = IF signals = 1 THEN "exited" ELSE main
    /\ ProcessStep
    /\ UNCHANGED <<http, stopping, stdin, pending, timedOut, unflushed>>

\* End of input, or a read error.
StdinEnds ==
    /\ main \notin {"starting", "exited"}
    /\ stdin = "reading" /\ ~StdioBusy /\ ~config.calm
    /\ stdin' = "ended"
    /\ ProcessStep
    /\ UNCHANGED <<main, http, stop, stopping, signals, pending, timedOut, unflushed>>

\* select!: the stdio loop has ended, which stops the HTTP transport too, or a
\* signal came and the loop is left to itself.
Race ==
    /\ main = "racing"
    /\ stdin = "ended" \/ stop
    /\ stop' = TRUE
    /\ main' = "waiting"
    /\ ProcessStep
    /\ UNCHANGED <<http, stopping, stdin, signals, pending, timedOut, unflushed>>

\* Mutant: the event streams are not told.
BeginShutdownSilently ==
    /\ main /= "exited"
    /\ http = "up" /\ stop
    /\ http' = "closing"
    /\ ProcessStep
    /\ UNCHANGED <<main, stop, stopping, stdin, signals, pending, timedOut, unflushed>>

\* serve_http sees the signal: it ends the event streams, and connections are
\* still accepted until axum has seen the signal as well.
begin_shutdown ==
    /\ main /= "exited"
    /\ http = "up" /\ stop /\ ~stopping
    /\ stopping' = TRUE
    /\ ProcessStep
    /\ UNCHANGED <<main, http, stop, stdin, signals, pending, timedOut, unflushed>>

StopAccepting ==
    /\ main /= "exited"
    /\ http = "up" /\ stopping
    /\ http' = "closing"
    /\ ProcessStep
    /\ UNCHANGED <<main, stop, stopping, stdin, signals, pending, timedOut, unflushed>>

\* A connection that the graceful shutdown waits for.
Open(r) ==
    /\ req[r].phase \in {"blocking", "resolved", "finished", "closing", "stream"}
    /\ req[r].input.via /= "stdio" /\ ~req[r].gone

HttpEnds ==
    /\ main /= "exited"
    /\ http = "closing" /\ \A r \in Slots : ~Open(r)
    /\ http' = "done"
    /\ ProcessStep
    /\ UNCHANGED <<main, stop, stopping, stdin, signals, pending, timedOut, unflushed>>

BeginCheckpoint == main' = "checkpoint" /\ pending' = Tables

\* serve() goes on once it was asked to stop: to the drain, if there is an
\* HTTP transport.
StopsWaiting ==
    /\ main = "waiting" /\ stop
    /\ \/ http = "off" /\ BeginCheckpoint
       \/ http /= "off" /\ main' = "draining" /\ UNCHANGED pending
    /\ ProcessStep
    /\ UNCHANGED <<http, stop, stopping, stdin, signals, timedOut, unflushed>>

Drained ==
    /\ main = "draining"
    /\ http \in {"done", "failed"}
    /\ BeginCheckpoint
    /\ ProcessStep
    /\ UNCHANGED <<http, stop, stopping, stdin, signals, timedOut, unflushed>>

\* DRAIN_TIMEOUT passes: nothing that takes the server no time is left to do,
\* and a connection is still open.
DrainTimesOut ==
    /\ main = "draining"
    /\ http = "closing" /\ \E r \in Slots : Open(r)
    /\ \A r \in Slots : ~SeesStop(r)
    /\ timedOut' = TRUE
    /\ BeginCheckpoint
    /\ ProcessStep
    /\ UNCHANGED <<http, stop, stopping, stdin, signals, unflushed>>

\* Mutant: the first table that cannot be flushed ends the checkpoint.
FlushOrGiveUp(table) ==
    /\ main = "checkpoint"
    /\ table \in pending
    /\ \/ /\ dirty' = dirty \ {table} /\ pending' = pending \ {table}
          /\ UNCHANGED unflushed
       \/ /\ pending' = {} /\ unflushed' = unflushed \cup {table} /\ UNCHANGED dirty
    /\ UNCHANGED <<sessionVars, scenario, catalog, late, req, opener, main, http, stop, stopping,
                   stdin, signals, timedOut>>

\* checkpoint: every table in turn, whether or not the flush of one fails.
Flush(table) ==
    /\ main = "checkpoint"
    /\ table \in pending
    /\ pending' = pending \ {table}
    /\ \/ dirty' = dirty \ {table} /\ UNCHANGED unflushed
       \/ unflushed' = unflushed \cup {table} /\ UNCHANGED dirty
    /\ UNCHANGED <<sessionVars, scenario, catalog, late, req, opener, main, http, stop, stopping,
                   stdin, signals, timedOut>>

\* Mutant: main returns, and the runtime waits for the blocked stdio thread.
ReturnFromMain ==
    /\ main = "checkpoint" /\ pending = {}
    /\ stdin /= "reading"
    /\ main' = "exited"
    /\ ProcessStep
    /\ UNCHANGED <<http, stop, stopping, stdin, signals, pending, timedOut, unflushed>>

Exit ==
    /\ main = "checkpoint" /\ pending = {}
    /\ main' = "exited"
    /\ ProcessStep
    /\ UNCHANGED <<http, stop, stopping, stdin, signals, pending, timedOut, unflushed>>

\* Time matters only to the sessions there are.
TimePasses ==
    /\ main /= "exited" /\ DOMAIN live /= {}
    /\ Tick
    /\ UNCHANGED <<scenario, engineVars, req, processVars, opener>>

\* The process is gone, or nothing is left to do in a calm scenario.
Quiet ==
    /\ \/ main = "exited"
       \/ config.calm /\ (http = "failed" \/ \A r \in Slots : \/ req[r].phase = "replied"
                                                              \/ config.inputs[r] = {})
    /\ UNCHANGED vars

Init ==
    /\ SessionsInit
    /\ scenario \in DOMAIN Scenarios
    /\ catalog = config.stored /\ dirty = {}
    /\ req = [r \in Slots |-> NoRequest]
    /\ main = "starting" /\ http = "off" /\ stdin = "off"
    /\ stop = FALSE /\ stopping = FALSE /\ signals = 0
    /\ pending = {} /\ opener = [id \in {} |-> NoContext]
    /\ timedOut = FALSE /\ late = {} /\ unflushed = {}

Requests ==
    \E r \in Slots :
        \/ \E input \in config.inputs[r] :
              \/ \E id \in issued \cup {"", "unknown"} : Mcp(r, input, id)
              \/ options(r, input) \/ RestCatalog(r, input) \/ RestData(r, input)
              \/ ReadLine(r, input)
        \/ handle(r) \/ Apply(r) \/ Respond(r) \/ Close(r) \/ EndStream(r) \/ ClientGone(r)

\* What the process does by itself once it is asked to stop.
Proceeds ==
    \/ Race \/ begin_shutdown \/ StopAccepting \/ HttpEnds \/ StopsWaiting \/ Drained
    \/ DrainTimesOut \/ (\E table \in pending : Flush(table)) \/ Exit

Next == Requests \/ Start \/ Bind \/ Signal \/ StdinEnds \/ Proceeds \/ TimePasses \/ Quiet

(* The runtime polls its tasks, the timer fires and the checkpoint ends.   *)
(* Nothing is assumed of the clients, nor of the threads of requests.      *)
Fairness ==
    /\ WF_vars(Start) /\ WF_vars(Bind) /\ WF_vars(Proceeds)
    /\ \A r \in Slots : WF_vars(EndStream(r))

Spec == Init /\ [][Next]_vars /\ Fairness

-----------------------------------------------------------------------------
(* Properties.                                                             *)

(* A session ends only because it was idle for SESSION_IDLE, because its   *)
(* own key closed it, or because the table was full of sessions in use and *)
(* none was used less recently (Sessions::open, touch and delete).         *)
SessionsEndForAReason ==
    [][\A id \in DOMAIN live \ DOMAIN live' :
          \/ Idle(id)
          \/ \E r \in Slots : /\ req[r].phase = "closing" /\ req[r].session = id
                              /\ key_fingerprint(req[r].input.header) = live[id].owner
          \/ /\ Cardinality({i \in DOMAIN live : ~Idle(i)}) >= MAX_SESSIONS
             /\ \A other \in DOMAIN live : live[id].last_used <= live[other].last_used]_vars

(* A request that was admitted with a session runs with the tenant and the *)
(* scopes of the request that opened it: the token the table compares and  *)
(* the token the registry resolves are the same one, however the header    *)
(* was spelled and even if two keys share a secret (admit).                *)
SessionServesItsOpener ==
    \A r \in Slots : req[r].session \in DOMAIN opener /\ req[r].phase /= "new" =>
        /\ req[r].ctx.tenant = opener[req[r].session].tenant
        /\ req[r].ctx.scopes = opener[req[r].session].scopes

\* The keys a request may be acting for.
Identities(r) ==
    IF req[r].input.via = "stdio" THEN {registry.local}
    ELSE {key \in {registry.keys[i] : i \in DOMAIN registry.keys} :
             key.key = strip_prefix(req[r].input.header)}

\* The changes of a tenant's data in a step are within these scopes.
Within(scopes, old, new) ==
    /\ DOMAIN old /= DOMAIN new => "database:write" \in scopes
    /\ \A d \in DOMAIN old \cap DOMAIN new :
          /\ \/ DOMAIN old[d] /= DOMAIN new[d]
             \/ \E t \in DOMAIN old[d] \cap DOMAIN new[d] : old[d][t].schema /= new[d][t].schema
             => "schema:write" \in scopes
          /\ \A t \in DOMAIN old[d] \cap DOMAIN new[d] :
                LET before == old[d][t].rows
                    after  == new[d][t].rows
                IN  /\ ~(DOMAIN before \subseteq DOMAIN after) => "data:delete" \in scopes
                    /\ ~(DOMAIN after \subseteq DOMAIN before)
                          => scopes \cap {"data:insert", "data:update"} /= {}
                    /\ (\E k \in DOMAIN before \cap DOMAIN after : before[k] /= after[k])
                          => "data:update" \in scopes

(* Whatever is stored for a tenant changes only through a request that     *)
(* holds a key of that tenant with the scope for that kind of change: a    *)
(* key that may insert never overwrites or removes, one that may change    *)
(* rows never changes a schema (RequestContext::require, context_for_key). *)
EffectsAreAuthorized ==
    [][\A t \in DOMAIN catalog : catalog'[t] /= catalog[t] =>
          \E r \in Slots : /\ req[r].phase = "resolved" /\ req'[r] /= req[r]
                          /\ \E key \in Identities(r) :
                                /\ key.tenant = t
                                /\ Within(key.scopes, catalog[t], catalog'[t])]_vars

(* While a table exists its primary key, its partition count and its       *)
(* columns stay: also when a schema change inherited them from a table of  *)
(* that name that was dropped and created anew before it took effect       *)
(* (schema_update, TableSchema::check_evolution).                          *)
KeyIsForLife ==
    [][\A t \in DOMAIN catalog : \A d \in DOMAIN catalog[t] \cap DOMAIN catalog'[t] :
         \A x \in DOMAIN catalog[t][d] \cap DOMAIN catalog'[t][d] :
            LET old == catalog[t][d][x].schema
                new == catalog'[t][d][x].schema
            IN  /\ new.primary_key = old.primary_key /\ new.partitions = old.partitions
                /\ Names(old) \subseteq Names(new)]_vars

(* The drain runs into its timeout only over a request that is being       *)
(* worked on: an idle event stream never holds it, even one that was       *)
(* opened while the server was already stopping (begin_shutdown, get).     *)
DrainTimeoutNeedsWork ==
    [][~timedOut /\ timedOut' => \E r \in Slots : Open(r) /\ req[r].phase /= "stream"]_vars

(* An exit that was neither forced by a second signal nor by the timeout   *)
(* has answered every HTTP request whose client was still there, has       *)
(* flushed every table whose flush did not fail, and the only writes that  *)
(* came after the checkpoint began are those of the stdio loop, which is   *)
(* not drained, and of threads whose client had gone (serve).              *)
DrainIsComplete ==
    main \in {"checkpoint", "exited"} /\ signals < 2 /\ ~timedOut /\ http /= "off" =>
        /\ \A r \in Slots : ~Open(r)
        /\ \A r \in late : req[r].input.via = "stdio" \/ req[r].gone
        /\ main = "exited" /\ late = {} => dirty \subseteq unflushed

(* Once the process was asked to stop it exits, whatever the clients do:   *)
(* also with a blocked read of stdin, an open event stream or a request    *)
(* that never ends (serve, DRAIN_TIMEOUT, main).                           *)
StopLeadsToExit == stop ~> main = "exited"
=============================================================================
