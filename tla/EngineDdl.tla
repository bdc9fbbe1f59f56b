----------------------------- MODULE EngineDdl ------------------------------
(***************************************************************************)
(* Catalog changes of the engine (adb-engine engine.rs, adb-core           *)
(* catalog.rs) for one database: each change is validated, logged and      *)
(* applied under ddl_lock, but the table registry and the table's files    *)
(* are brought in line afterwards, without that lock, while other requests *)
(* run and the process may die.                                            *)
(*                                                                         *)
(* A table's files are one file here, identified by a number: the handle a *)
(* TableStore holds stays with that file when the path is deleted and      *)
(* created anew.  Rows are counted, not kept.                              *)
(***************************************************************************)
EXTENDS Integers, Sequences, FiniteSets, Functions

CONSTANTS
    Tables,
    DdlProcs, Writers,       \* concurrent requests
    FlushingWrites,          \* a write may fill the memtable and flush it
    Faults,                  \* the file operations that may fail
    MaxLog, MaxWrites, MaxRestarts     \* bounds

ASSUME DdlAssumption ==
    /\ IsFiniteSet(Tables) /\ IsFiniteSet(DdlProcs)
    /\ DdlProcs \cap Writers = {}
    /\ FlushingWrites \in BOOLEAN
    /\ Faults \subseteq {"sync", "delete", "open"}
    /\ {MaxLog, MaxWrites, MaxRestarts} \subseteq Nat

Procs == DdlProcs \cup Writers

VARIABLES
    sys_log,     \* the mutations in the system log
    catalog,     \* [ok, db, tables]: the published snapshot
    registry,    \* table -> the file its open store holds; 0: no store
    files,       \* table -> the file at its path; 0: none
    rows,        \* rows[f]: how many rows file f holds
    proc,        \* what each request is doing
    restarts, writes,
    failed,      \* the file operations that have failed
    \* history
    disturbed,   \* "overlap": two catalog changes have run at the same time;
                 \* "late flush": a store has flushed after its table was dropped
    unopened,    \* tables in the catalog whose store did not open
    unapplied,   \* mutations whose append failed after it reached the log
    created,     \* table -> how often its creation has been logged
    acked        \* acknowledged rows: [table, created, file]

vars == <<sys_log, catalog, registry, files, rows, proc, restarts, writes, failed,
          disturbed, unopened, unapplied, created, acked>>
counters == <<restarts, writes, failed>>
history  == <<unopened, unapplied, created, acked>>

Idle == [pc |-> "idle", table |-> "", file |-> 0, listed |-> {}, made |-> 0]

Empty == [ok |-> TRUE, db |-> FALSE, tables |-> {}]

Mutation(op, t) == [op |-> op, table |-> t]

-----------------------------------------------------------------------------
(* CatalogSnapshot::apply and Catalog::replay.                             *)

Applicable(cat, m) ==
    CASE m.op = "create_database" -> ~cat.db
      [] m.op = "drop_database"   -> cat.db
      [] m.op = "create_table"    -> cat.db /\ m.table \notin cat.tables
      [] m.op = "drop_table"      -> cat.db /\ m.table \in cat.tables

Applied(cat, m) ==
    CASE m.op = "create_database" -> [cat EXCEPT !.db = TRUE]
      [] m.op = "drop_database"   -> [cat EXCEPT !.db = FALSE, !.tables = {}]
      [] m.op = "create_table"    -> [cat EXCEPT !.tables = @ \cup {m.table}]
      [] m.op = "drop_table"      -> [cat EXCEPT !.tables = @ \ {m.table}]

ReplayOne(cat, m) ==
    IF cat.ok /\ Applicable(cat, m) THEN Applied(cat, m) ELSE [cat EXCEPT !.ok = FALSE]

Replay(log) ==
    LET after[n \in 0 .. Len(log)] ==
            IF n = 0 THEN Empty ELSE ReplayOne(after[n - 1], log[n])
    IN  after[Len(log)]

-----------------------------------------------------------------------------

Init ==
    /\ sys_log = <<>> /\ catalog = Empty
    /\ registry = [t \in Tables |-> 0] /\ files = [t \in Tables |-> 0]
    /\ rows = <<>>
    /\ proc = [p \in Procs |-> Idle]
    /\ restarts = 0 /\ writes = 0 /\ failed = {} /\ disturbed = {}
    /\ unopened = {} /\ unapplied = 0 /\ created = [t \in Tables |-> 0] /\ acked = {}

\* A file operation returns an error; each kind does so once.
Fail(kind) ==
    /\ kind \in Faults \ failed
    /\ failed' = failed \cup {kind}

Goto(p, s) == proc' = [proc EXCEPT ![p] = s]

Created(m) ==
    created' = IF m.op = "create_table" THEN [created EXCEPT ![m.table] = @ + 1] ELSE created

\* Mutant: logged before it is validated, so the log holds refused mutations.
CommitUnchecked(p, m, next) ==
    /\ Len(sys_log) < MaxLog
    /\ sys_log' = Append(sys_log, m)
    /\ catalog' = IF Applicable(catalog, m) THEN Applied(catalog, m) ELSE catalog
    /\ Created(m) /\ Goto(p, next)
    /\ UNCHANGED <<failed, unopened, unapplied, registry, files, rows, restarts, writes, acked>>

\* commit_ddl, under ddl_lock: validate, log, apply.  A refused mutation ends
\* the request, and so does a failed fsync, which leaves the record.  (A write
\* that stops half way through the record is in module Wal.)
commit_ddl(p, m, next) ==
    /\ \/ /\ ~Applicable(catalog, m)
          /\ Goto(p, Idle)
          /\ UNCHANGED <<sys_log, catalog, failed, unapplied, created>>
       \/ /\ Applicable(catalog, m)
          /\ Len(sys_log) < MaxLog
          /\ sys_log' = Append(sys_log, m) /\ Created(m)
          /\ \/ /\ catalog' = Applied(catalog, m)
                /\ Goto(p, next)
                /\ UNCHANGED <<failed, unapplied>>
             \/ /\ Fail("sync") /\ unapplied' = unapplied + 1
                /\ Goto(p, Idle)
                /\ UNCHANGED catalog
    /\ UNCHANGED <<registry, files, rows, restarts, writes, unopened, acked>>

(* create_database. --------------------------------------------------------- *)

CreateDatabase(p) ==
    /\ proc[p].pc = "idle"
    /\ commit_ddl(p, Mutation("create_database", ""), Idle)

(* create_table: commit, open the store, register it. ----------------------- *)

CreateTable(p, t) ==
    /\ proc[p].pc = "idle"
    /\ commit_ddl(p, Mutation("create_table", t), [Idle EXCEPT !.pc = "open", !.table = t])

\* TableStore::open creates the files, or finds what is at the path.  A table
\* dropped meanwhile is reported as not found.  When a file cannot be read or
\* created, the table stays in the catalog without a store.
OpenStore(p) ==
    LET t    == proc[p].table
        Fresh == /\ files[t] = 0
                 /\ rows' = Append(rows, 0)
                 /\ files' = [files EXCEPT ![t] = Len(rows')]
        Found == files' = files /\ rows' = rows
    IN  /\ proc[p].pc = "open"
        /\ \/ /\ t \notin catalog.tables
              /\ Goto(p, Idle) /\ Found /\ UNCHANGED <<failed, unopened>>
           \/ /\ t \in catalog.tables
              /\ Fresh \/ (files[t] # 0 /\ Found)
              /\ Goto(p, [proc[p] EXCEPT !.pc = "register", !.file = files'[t]])
              /\ UNCHANGED <<failed, unopened>>
           \/ /\ t \in catalog.tables /\ Fail("open")
              /\ Fresh \/ Found
              /\ unopened' = unopened \cup {t}
              /\ Goto(p, Idle)
        /\ UNCHANGED <<sys_log, catalog, registry, restarts, writes, unapplied, created, acked>>

Register(p) ==
    /\ proc[p].pc = "register"
    /\ registry' = [registry EXCEPT ![proc[p].table] = proc[p].file]
    /\ Goto(p, Idle)
    /\ UNCHANGED <<sys_log, catalog, files, rows, counters, history>>

(* drop_table and drop_database: commit, unregister, delete the files. ------ *)

DropTable(p, t) ==
    /\ proc[p].pc = "idle" /\ t \in catalog.tables
    /\ commit_ddl(p, Mutation("drop_table", t),
                  [Idle EXCEPT !.pc = "unregister", !.listed = {t}])

\* drop_database looks at the tables in a snapshot taken before the commit.
ListTables(p, cascade) ==
    /\ proc[p].pc = "idle" /\ catalog.db
    /\ cascade \/ catalog.tables = {}
    /\ Goto(p, [Idle EXCEPT !.pc = "drop_database", !.listed = catalog.tables])
    /\ UNCHANGED <<sys_log, catalog, registry, files, rows, counters, history>>

DropDatabase(p) ==
    /\ proc[p].pc = "drop_database"
    /\ commit_ddl(p, Mutation("drop_database", ""),
                  [proc[p] EXCEPT !.pc = "unregister_all"])

\* The stores of the tables the request knows of leave the registry.
Unregister(p) ==
    /\ proc[p].pc \in {"unregister", "unregister_all"}
    /\ registry' = [t \in Tables |-> IF t \in proc[p].listed THEN 0 ELSE registry[t]]
    /\ Goto(p, [proc[p] EXCEPT !.pc =
                  IF proc[p].pc = "unregister" THEN "delete" ELSE "delete_all"])
    /\ unopened' = unopened \ proc[p].listed
    /\ UNCHANGED <<sys_log, catalog, files, rows, counters, unapplied, created, acked>>

\* Mutant: a dropped table's files stay.
KeepFiles(p) ==
    /\ proc[p].pc \in {"delete", "delete_all"}
    /\ Goto(p, Idle)
    /\ UNCHANGED <<files, failed, sys_log, catalog, registry, rows, restarts, writes, history>>

\* Mutant: the prefix matches other tables too.
DoomedAll(p) == Tables

\* What delete_prefix removes: the table, or the whole database.
Doomed(p) == IF proc[p].pc = "delete_all" THEN Tables ELSE proc[p].listed

DeleteFiles(p) ==
    /\ proc[p].pc \in {"delete", "delete_all"}
    /\ \/ /\ files' = [t \in Tables |-> IF t \in Doomed(p) THEN 0 ELSE files[t]]
          /\ UNCHANGED failed
       \/ Fail("delete") /\ UNCHANGED files
    /\ Goto(p, Idle)
    /\ UNCHANGED <<sys_log, catalog, registry, rows, restarts, writes, history>>

(* Writes. ------------------------------------------------------------------ *)

\* How often the table has been created, without creations still in progress.
Completed(t) ==
    created[t] - Cardinality({ p \in DdlProcs :
                                 proc[p].pc \in {"open", "register"} /\ proc[p].table = t })

\* Engine::table: the store is looked up in the registry ...
Lookup(p, t) ==
    /\ proc[p].pc = "idle" /\ registry[t] # 0 /\ writes < MaxWrites
    /\ writes' = writes + 1
    /\ Goto(p, [Idle EXCEPT !.pc = "write", !.table = t, !.file = registry[t],
                            !.made = Completed(t)])
    /\ UNCHANGED <<sys_log, catalog, registry, files, rows, restarts, failed, disturbed, history>>

\* ... and the row is logged to the file the store holds.  A flush writes
\* segment and manifest at the table's path, whatever is there; when nothing is,
\* the truncation that follows does not find the log and the write fails.
WriteRow(p, flush) ==
    LET t == proc[p].table
        f == proc[p].file
    IN  /\ proc[p].pc = "write"
        /\ rows' = [rows EXCEPT ![f] = @ + 1]
        /\ acked' = IF flush /\ files[t] = 0 THEN acked
                    ELSE acked \cup {[table |-> t, created |-> proc[p].made, file |-> f]}
        /\ files' = IF flush THEN [files EXCEPT ![t] = f] ELSE files
        /\ disturbed' = IF flush /\ files[t] # f THEN disturbed \cup {"late flush"} ELSE disturbed
        /\ Goto(p, Idle)
        /\ UNCHANGED <<sys_log, catalog, registry, counters, unopened, unapplied, created>>

(* Restart. ----------------------------------------------------------------- *)

\* Mutant: the data of tables that are not in the catalog is kept.
KeptAll(cat) == Tables

\* remove_orphaned_table_data keeps the files of the catalog's tables.
KeptTables(cat) == cat.tables

\* The process dies and Engine::open runs: the catalog is replayed, every table
\* in it opened (or created, when its files are not there yet), and the data of
\* other tables removed.  When a table cannot be opened the process does not come
\* up: that is this step not taken.
Restart ==
    LET cat    == Replay(sys_log)
        absent == { t \in cat.tables : files[t] = 0 }
    IN  /\ restarts < MaxRestarts
        /\ restarts' = restarts + 1
        /\ cat.ok
        /\ catalog' = cat
        /\ \E fresh \in [absent -> Len(rows) + 1 .. Len(rows) + Cardinality(absent)] :
              /\ IsInjective(fresh)
              /\ files' = [t \in Tables |-> IF t \in absent THEN fresh[t]
                                            ELSE IF t \in KeptTables(cat) THEN files[t] ELSE 0]
        /\ rows' = rows \o [i \in 1 .. Cardinality(absent) |-> 0]
        /\ registry' = [t \in Tables |-> IF t \in cat.tables THEN files'[t] ELSE 0]
        /\ proc' = [p \in Procs |-> Idle]
        /\ unopened' = {}
        /\ UNCHANGED <<sys_log, writes, failed, disturbed, unapplied, created, acked>>

Ddl(p) ==
    /\ \/ CreateDatabase(p)
       \/ \E t \in Tables : CreateTable(p, t) \/ DropTable(p, t)
       \/ OpenStore(p) \/ Register(p)
       \/ \E cascade \in BOOLEAN : ListTables(p, cascade)
       \/ DropDatabase(p) \/ Unregister(p) \/ DeleteFiles(p)
    /\ disturbed' = IF \E q \in DdlProcs \ {p} : proc[q].pc # "idle"
                    THEN disturbed \cup {"overlap"} ELSE disturbed

Write(p) ==
    \/ \E t \in Tables : Lookup(p, t)
    \/ WriteRow(p, FALSE)
    \/ FlushingWrites /\ WriteRow(p, TRUE)

Next ==
    \/ \E p \in DdlProcs : Ddl(p)
    \/ \E p \in Writers : Write(p)
    \/ Restart

Spec == Init /\ [][Next]_vars

-----------------------------------------------------------------------------
(* Properties.                                                             *)

\* The log is the source of truth: replaying it gives the published catalog,
\* whatever requests interleave, unless an append has failed half way.
LogIsCatalog == unapplied = 0 => Replay(sys_log) = catalog

\* Between catalog changes, exactly the catalog's tables have an open store and
\* files, and the store holds the files at the table's path: crashes in the
\* middle of a drop or a create are repaired by Engine::open.  A table whose store
\* did not open is without one until it is dropped or the engine restarts.  It
\* takes catalog changes one at a time, no store that outlives its table, and no
\* failed deletion.
SettledWhenQuiet ==
    disturbed = {} /\ "delete" \notin failed /\ (\A p \in DdlProcs : proc[p].pc = "idle") =>
        \A t \in Tables :
            IF t \in unopened
            THEN t \in catalog.tables /\ registry[t] = 0
            ELSE /\ t \in catalog.tables <=> registry[t] # 0
                 /\ registry[t] = files[t]

\* An acknowledged row is in the files of its table for as long as the table is
\* not dropped, whatever else is created, dropped or interrupted by a restart.
NoAckedRowLost ==
    disturbed = {} =>
        \A a \in acked :
            a.table \in catalog.tables /\ created[a.table] = a.created =>
                files[a.table] = a.file

\* A table that is created starts empty, also when one of the same name was
\* dropped before ("Recreating it gives an empty table, not the old rows").
NewTableIsEmpty ==
    disturbed = {} /\ "delete" \notin failed =>
        \A p \in DdlProcs : proc[p].pc = "register" => rows[proc[p].file] = 0

=============================================================================
