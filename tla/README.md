# A verification of agedb

agedb is a single-process analytical database in Rust: tables are hash-partitioned,
each partition is a small log-structured store (write-ahead log, memtable, key index,
Parquet segments, manifest), a catalog is the replay of a DDL log, and queries, natural
language, REST and MCP are layered on top. This directory holds TLA+ modules that model
the path of a write down to the log, of a query from its plan to its answer, and of a
request from its key to its effect; TLC configurations that check them on small
instances; and TLAPS proofs, for every value of the constants, about the partition, its
log, compaction, the reads and writes of a table, the catalog, queries, and the server.

Run `tlc -config MCPartition.cfg MCPartition` for a check and `tlapm PartitionProofs.tla`
for proofs, inside this directory. Eight modules have theorems: `PartitionProofs`,
`SegmentSetProofs`, `WalProofs`, `TableReadsProofs`, `TableWritesProofs`,
`EngineDdlProofs`, `QueryPathProofs` and `ServingProofs`. `QueryPathProofs` takes a
quarter of an hour, the others minutes.

## 1. The system

All paths are under `src/crates/`. "Hard" says what makes a part worth a model.

| Component | State | Operations | Talks to | Hard | What makes it correct |
|---|---|---|---|---|---|
| partition storage (`adb-storage/src/table.rs`, `keyindex.rs`, `memtable.rs`, `manifest.rs`, `segment.rs`) | memtable, suppression bitmaps, segment entries, key index, `applied_lsn`, `last_lsn`, `next_segment_id`, under one `RwLock`; manifest and segment files | append rows, delete keys, flush, compact, open | log, object store, policy | a crash or an error between any two file operations; rows that move while they are addressed | no acknowledged write lost, index and bitmaps agree, manifest never dangles |
| write-ahead log (`adb-storage/src/wal.rs`) | the file, `next_lsn`, `last_lsn` | open/scan, append, truncate_prefix, advance_to | file system | torn appends, failed fsync, renamed file | acknowledged records survive, lsns are not reused, corruption is reported |
| compaction policy (`compaction.rs`) | none | `select` | partition | bounds, progress | bounded merges that converge |
| table (`table.rs`, `TableStore`) | partitions, schema, `write_lock` | insert, upsert, delete, get, snapshots, flush, compact, set_schema | partitions, engine | racing requests, several logs per batch, schema read before the lock | inserts never replace, acknowledged batches are complete, readers see one state |
| catalog (`adb-core/src/catalog.rs`) and DDL (`adb-engine/src/engine.rs`) | system log, catalog snapshot (`ArcSwap`), table registry, `ddl_lock` | create/drop database and table, update schema, open | log, table stores, files | the catalog, the registry and the files change in separate steps | the log is the catalog; settled state agrees; no table's rows are lost to another request |
| object store (`object_store.rs`) | files | put, put_atomic, delete, delete_prefix, list | file system | partial failure | atomic manifest |
| query execution (`adb-exec`) | shared budget counters, one thread per partition | parallel scan, filter, prune, aggregate, sort, cut | snapshots, bloom filters and statistics | threads share a budget and stop early; three-valued logic against statistics | the answer does not depend on scheduling or pruning; no more is read than the budget allows |
| planner (`adb-planner`, `adb-query/src/plan.rs`) | none | lower a plan request, validate and coerce, build the pipeline | catalog | columns lost by a rewrite fail past the validator | what the validator accepts executes, and means what the plan says |
| natural language (`adb-query/src/rule.rs`) | none | question to plan request, in passes over its words | planner, the clock | passes share the words; calendar boundaries | the plan asks for what the phrases say, in whatever order they stand |
| MCP (`adb-mcp`) | key registry | messages, tools, stdio loop | engine | scopes, inherited defaults, reads before writes | a request has only the effects its key allows |
| HTTP (`adb-api`) | session table, stop channel | admission, sessions, event streams, REST routes | MCP, engine | session cap, expiry, eviction between two steps of a request | a session serves its opener only and ends for a reason; the table is bounded |
| server (`adb-server/src/main.rs`) | shutdown channel, transports | configure, serve, drain, checkpoint, exit | all | signals racing drain, timeout, streams and a blocked read | it stops, and a stop that was not forced leaves nothing undone |

Interactions. A request reaches `Engine`, which looks up the `TableStore` in the registry
(`RwLock`) and calls it. Writers serialise on the table's `write_lock`, then on each
partition's write lock. Readers take the partition's read lock for single steps and read
segment files without any. DDL serialises validation, logging and publication on
`ddl_lock`, and does everything else outside it. There are no background threads: flush
and compaction run inside the write that filled the memtable or inside an explicit
request.

## 2. Modules

| Module | Models | Composes |
|---|---|---|
| `Compaction` | `compaction.rs`: `select` as operators | - |
| `SegmentSet` | a partition's segments as the policy sees them, over many rounds | `Compaction` |
| `SegmentSetProofs` | theorems: merges are bounded and make progress | `SegmentSet` |
| `KeyedStore` | the abstract promise of a partition: a map with one write at a time | - |
| `Partition` | one partition with a primary key: log, memtable, index, segments, manifest, flush, compaction, crash, recovery | `Compaction`; implements `KeyedStore` |
| `PartitionProofs` | theorems: lsns and files; index, bitmaps and rows agree; what is served and recovered; `Partition` implements `KeyedStore` | `Partition` |
| `Wal` | the log file at frame level | - |
| `WalProofs` | theorems: acknowledged records survive, lsns are fresh | `Wal` |
| `TableReads` | `get` and scans against the writer of a partition | - |
| `TableReadsProofs` | theorems: what scans and lookups return | `TableReads` |
| `TableWrites` | requests on a table of several partitions, and schema changes | - |
| `TableWritesProofs` | theorems: inserts, acknowledgements, schema versions | `TableWrites` |
| `EngineDdl` | DDL requests, registry, files, writes through a looked-up store, restart | - |
| `EngineDdlProofs` | theorems: log and catalog, catalog and registry, rows and files | `EngineDdl` |
| `Values` | the order of values, their types, coercion of literals (`types.rs`, `validate.rs`) | - |
| `Plans` | the plan request and its lowering, the logical plan, its expressions and the validator (`plan.rs`, `ir.rs`, `expr.rs`, `validate.rs`) | `Values` |
| `Questions` | the translator of questions (`rule.rs`) | `Plans` |
| `Lowering` | pruning atoms and the physical plan (`optimize.rs`, `physical.rs`) | `Plans` |
| `Execution` | evaluation, statistics, bloom filters, pruning, aggregation, sort (`eval.rs`, `prune.rs`, `aggregate.rs`, `sort.rs`, `segment.rs`, `bloom.rs`) | `Lowering` |
| `QueryMeaning` | the reference: what a plan means over a sequence of rows | - |
| `QueryPath` | one query from question or request to answer, its threads and its budget | `Questions`, `Execution`, `QueryMeaning` |
| `QueryPathProofs` | theorems: a query's work, its budget, what it skips | `QueryPath` |
| `Sessions` | the session table of the MCP endpoint (`mcp_http.rs`) | - |
| `Access` | keys, contexts, scopes, configuration (`auth.rs`, `context.rs`, `main.rs`) | - |
| `ToolCalls` | every tool: what it reads, requires and does to the catalog and the rows (`tools.rs`, `engine.rs`, `schema.rs`) | `Access` |
| `Serving` | a running server: requests over three transports, sessions, signals, drain, checkpoint | `Sessions`, `ToolCalls` |
| `ServingProofs` | theorems: sessions, the drain, who may change what is stored | `Serving` |
| `MCPartition`, `MCTableWrites`, `MCQuestions`, `MCQueryPath`, `MCServing` | instances for TLC | |

The layers abstract one another: `Wal` explains the record-level log of `Partition` (which
records a scan returns, and what keeps the next ones from it); `Partition` justifies the
one-step flush and compaction of `TableReads` and the one-step durable append of
`TableWrites`, where an append that fails is not modelled again; and `EngineDdl` keeps only
which file a store holds, and has no half-written record in the system log. These steps between layers are argued
here, not checked, except `Partition` => `KeyedStore`, which is a checked refinement.
`QueryPath` takes its snapshots as given and unchanging, which is what `ScanIsSnapshot` of
`TableReads` says; `Serving` takes a tool call as one read of the catalog and one effect,
and leaves what happens inside the effect to `TableWrites` and `EngineDdl`.

### Partition

| Code | Model |
|---|---|
| `PartitionState` (table.rs:138-149) | `memtable`, `memtable_suppressed`, `segments`, `key_index`, `applied_lsn`, `last_lsn`, `next_segment_id` |
| `wal/current.log`, `manifest.json`, `segments/` | `wal` (the records a scan returns, ordered by lsn) and `tail` (what comes after them), `manifest`, `files` |
| `append_rows`, `delete_keys` | `Insert`/`Upsert`/`Delete` (log) then `Apply` |
| `FileLogStore::append` | `Log`; its failed write leaves nothing or a part of the frame, its failed fsync the record |
| `flush_locked` | `Flush`, `FlushSegment`, `FlushCommit`, `FlushTruncate`, and `CompactMerge` when the policy asks |
| `truncate_prefix` | `FlushTruncate`: done, refused by the scan, failed before the rename, or failed to reopen after it |
| `compact_locked` | `CompactMerge`, `CompactCommit`, `CompactDelete` (once per file) |
| `Partition::open` | `Open` (orphans, segments, index, log tail and position), `OpenRefused` (corruption in the log), `Replay` (once per record) |

An operation holds the partition's lock, so one is in progress at a time; `pc` is how far
it is. A step ends where a crash or a failure makes a difference on disk. `Fail(kind)`
is an error of one file operation; `Abort` is the `?` that returns it, with memory left as
the code leaves it at that point. `put_atomic` may fail after its rename (the fsync of the
directory), so a failed manifest write leaves the old or the new manifest. A record whose
append failed in its fsync is in the file: it goes to `limbo`, and may surface at a
restart. `truth` is the history against which durability is stated: what the last applied
write left at each key, reset by a crash to what the disk recovers to (so `Durable` is
claimed at each instant before the crash).

`tail` is the damage a log can carry (wal.rs:308, 351-360). It is `whole` at first; a write
that stops half way leaves it `torn`, and another frame behind the partial one `buried`; a
reopen that fails after the rename leaves the writer on an `unlinked` file. On a log that is
not whole an append is acknowledged as ever, but no scan returns its record: it goes to the
history `stray`. The next truncation that gets through makes the log whole, and so does
`Open`; both cut off what they do not see. On a buried log either may report corruption
instead, as the length in the partial frame happens to fall: then no flush gets past its
truncation, and the table does not open.

### KeyedStore

The store a caller sees, one write in progress, and two maps for what a restart would find
instead. `doubt` holds writes that failed and may surface. `damaged` and `exposed` are the
price of the damaged log: while it is damaged an acknowledged write goes to `exposed`, with
what a restart would find at its keys; `Repair` needs `exposed` to be empty, and only a
checkpoint takes a key out of it. `Restart` loses exactly the writes in `exposed`.

### Wal

A chunk is what one append left of its frame. `scan` is the set of results the code can
produce: when a partial header runs together with the bytes of the next frame, its length
is arbitrary, so both a torn tail and corruption are possible. A CRC is taken to detect
every difference.

### TableReads

A step is one acquisition of the lock or one read of a file, which is where `get` and
`scan_partition` let others in. The history variables say which values the key had while
a lookup ran (`held`), which operations of the writer overlapped it (`moved`), and what
the table was when a snapshot was taken (`expect`). Compaction takes any choice a policy
could make.

### TableWrites

A row is the number of the request that wrote it and a batch its schema version, which is
enough to say whether an insert replaced a row, whether a batch is complete and whether
it can be concatenated. `Begin` is everything before `guard()`: the schema is read there.
A flush may fail before its segment, before its manifest or after it (`FlushFailed`), inside a
write or inside `set_schema`. `AdoptSchema` is one partition: its state takes the version
before its manifest is written, and when that fails the partitions so far keep it and
`TableStore.schema` stays behind. `logged` are the batches that a restart would replay.

Two histories say where the code does not keep one version: `overtaken` are the writes that
were running when the table's version was replaced, or that a restart replayed under a later
one; `halted` are the partitions that a failed `set_schema` left on another version than the
table, until the next adoption or restart.

### EngineDdl

A table's files are one numbered file. A store keeps the number it opened, as a file
handle does, while the path may come to hold another one. `disturbed` records whether two
catalog changes have overlapped or a store has flushed after its table was dropped.
`OpenStore` may fail after the creation is logged, with or without files made: the table is
then in the catalog without a store (`unopened`) until it is dropped or the engine restarts.
When a store does not open at the start of the engine, the process does not come up, which
is `Restart` not taken.

### The query path

| Code | Model |
|---|---|
| `RuleTranslator::translate` and the passes of its `Parser` | `Translate` (`translate` of `Questions`) |
| `PlanRequest::to_ir` | `Lower` (`to_ir` of `Plans`) |
| `validate` | `Validate`; one `Walk...` operator per plan node, `check_expr`, `coerce` |
| `optimize::prune_atoms`, `physical::plan` | `Build` |
| the `count(*)` shortcut of `execute` | `MetadataCount` |
| the scan threads (`scan_partition`) | `Spawn`; `Visit(p)` decides to skip a source, charges its bytes or stops, `Read(p)` reads and filters it, `ReadFails(p)` is a file that has gone, `ScanEnds(p)` |
| join, merge of partial groups, sort, offset and limit | `Collect`, `Finish` |
| `Budget` | `budget`, `Clock` |

A value is a pair of a type tag and a number; strings are numbers, `like` is the set of
pairs it accepts. Floats are in twelfths, so that an integer literal and a float column meet as in
the code and averages of up to four rows are exact. An instant is in minutes.
An expression is a tree. What the code does by recursion over it is a function of its parts,
computed in `MaxDepth` rounds from the leaves up; the runs set `MaxDepth` to 6, more than any of
their predicates needs. An aggregate ends in `finish`, which puts the keys and the states of the
groups under the columns of the output by position and builds each column in its declared type
(`build_value`); a predicate whose evaluation meets Arrow's Null type is one with `NoBoolean`.
`QueryMeaning` gives the answer of a logical plan node by node over one sequence of rows: no segments, statistics, partial results, physical plan or budget. It is written
as a relation (`Answers`), since the code leaves the order of ties and of unsorted rows
open.

A question is a sequence of words. `passes` lists the passes in the code's order; a pass takes a
step at every word that no earlier one has used, as the code's `used` flags do. What string
matching finds (which phrases are a column's name, a loose form, a prefix, part of its
description; which words are numbers or dates) is the constant `Lexicon`. The calendar is
translated whole; the reference only numbers days, weeks and months (`UnitIndex`):
`QuestionIsUnderstood` says that an instant satisfies the filters of "last month" exactly when
its month number is one less than that of the time of asking.

### The server

| Code | Model |
|---|---|
| `Sessions::open`, `touch`, `close` | `open`, `touch`, `close` of `Sessions` |
| `admit`, `post`, `get`, `delete`, `options` | `Mcp`, `handle`, `Close`, `options` |
| REST handlers | `RestCatalog`, `RestData` |
| the stdio loop | `ReadLine`, `StdinEnds` |
| the call of a tool in a blocking thread | `Apply`, then `Respond` |
| `serve`, `serve_http`, `drain`, `main` | `Start`, `Bind`, `Signal`, `Race`, `begin_shutdown`, `StopAccepting`, `HttpEnds`, `StopsWaiting`, `Drained`, `DrainTimesOut`, `Flush`, `Exit` |

A request is a slot. It is admitted in one step (the session table's mutex), reads the
catalog in another when its tool does (`schema_update`, `describe`), and has its effect in a
third; between them any other request may go through, its session may end, and the
process may be stopped. `opener` is the only history that a session property needs: who
opened each session. axum and hyper are external: they accept connections until the
graceful shutdown begins, and then wait for the open ones.

## 3. Runs

Every run explores all reachable states of its instance. Deadlock checking is on in `query`
and `serving`, where a state without a successor other than the marked ends would be a
query or a process that hangs; it is off in the storage runs: with the bounds reached, and
in the code with no request pending, the system rests.

| Run | Distinct states | Shows |
|---|---|---|
| `segment_set` | 38 k | Over four flushes, any suppressions and any number of merges: each merge is within `MaxInputBytes` and `MaxInputs` (`MergesAreBounded`), and reduces segments or suppressed rows (`Converges`) |
| `partition` | 207 k | Section 4 |
| `wal` | 730 k | With one failed write, fsync and reopen, two crashes and five lsns: acknowledged records survive, lsns of acknowledged records are not reused |
| `table_reads` | 284 k | `ScanIsSnapshot`; a lookup that nothing overlapped is right; one that only compactions overlapped never returns a wrong row |
| `engine_ddl` | 227 k | `LogIsCatalog` always; the three others for catalog changes that do not overlap |
| `table_writes` | 913 k | `InsertNeverReplaces` and `AckedIsComplete` without conditions; `NoBatchStraddles` for all batches but those that a change of version overtook, and outside partitions that a failed change left behind |
| `query` | 74 k | A question becomes the plan its phrases ask for (`QuestionIsUnderstood`). Every answered query has the answer of its plan (`AnswerIsReference`), skips no segment with a matching row (`PruningIsSound`), reads within its budget, fails inside past the validator only for two kinds of plans (`NoInternalError`), reports each cut that was not asked for, and ends |
| `serving` | 119 k | The session table is bounded, a session serves its opener and ends for a reason; effects are within scopes and tenant; a table's key is for life; a stop exits, a drain is complete, and only work makes it time out |
| `wal_write_error`, `get_returns_its_key`, `half_write`, `json_pruning` | - | Section 5 |

`TypeOK` of `Wal` and `SegmentSet` documents their states; no run lists it.

Bounds, and why they suffice.

* `partition`: two keys, two values, batches of one row and one batch of three rows that
  repeats a key, memtables of at most three rows, three lsns, two crashes, one failed file
  operation of any kind (`MaxFaults`): with three lsns one failed write leaves two appends
  behind a partial frame, and one failed reopen an append on the unlinked file. Three records are enough for a segment with a suppressed row, a
  second flush and a merge of two segments with a crash or a failure at every step; two
  crashes give a crash during the recovery of a crash. `MinSegments` is 2 so that merges
  of both kinds happen. The theorems do not depend on these bounds.
* `wal`: payloads of 1, 2 and 4 units with a limit of 3 include an oversized record; five
  lsns allow several records before and after a failure. `LenMod` is the 2^32 of the
  length field; no payload length here wraps around it (section 6).
* `segment_set`: flushes of 1 or 3 rows with a budget of 5 make the byte budget, the
  input cap and the dead-segment rule each bind.
* `table_reads`: one reader (readers do not affect one another), four writes, two flushes
  and one compaction, so that the memtable can be emptied and filled again between two
  steps of a lookup.
* `engine_ddl`: two tables, two DDL requests at a time, one writer, four log records, two
  writes, one restart, one failed fsync, one failed deletion and one store that does not open.
* `table_writes`: two writers with two writes between them and two schema changes one after
  the other (`MaxVersion` is 3, so that one can follow an adoption that failed), two keys in
  different partitions, one restart, one failed flush or manifest.
* `query`: each initial state is a request, limits and a content of the table. The contents
  have a segment older than a column (backfill), a segment with a suppressed row, a column
  that is all null, memtable batches whose suppressed ordinal lies in the second batch, a
  partition without memtable, and an empty table. Eight shapes of requests are crossed
  with twenty filters that together use every operator, null literals, and each coercion;
  plans with renamings, disjunctions and negations, which only a direct caller of the
  planner can give, are added; thirty rejected requests take each error branch of lowering
  and validation. Two partitions are enough for threads to race for the byte budget and
  the row limit, and for groups to be split. Questions: six forms (listing, sorted
  listing, counts and totals by group, two rankings) with every pair of nine conditions
  and four times, their phrases in every order; the same forms with fifteen calendar
  windows asked at four moments (a Sunday in January, the last minute of a year, a leap
  day, a Monday); thirteen questions with defaults or refused. The table has one time
  column.
* `serving`: eight scenarios, each a configuration, a stored content and the requests each
  of four slots may send: sessions (four openings and uses at a cap of two, three ids,
  idle after two ticks of at most four), refusals (wrong keys, origins, versions,
  scopes), schema (two schema changes against a drop and a new creation), data (inserts,
  upserts, deletes and reads of two tenants), stop (requests, a stream and two
  signals), local (stdio beside HTTP, and its end), keyless and secretless configurations. In
  a calm scenario clients stay and nobody stops the server, which keeps the
  interleavings of requests apart from those of the shutdown; stop and local combine them.

Fairness. `partition` and `serving` are checked for liveness. `Partition` assumes
weak fairness of `Step`: the thread that holds the lock keeps running, and a process that
died is started again. Nothing makes a caller call, a file operation fail or the process
die. `LockReleased` counts on the bound on crashes (a process that dies for ever
does not recover), and leaves out a table that is down with frames behind a partial one, which
need not open. `Serving` assumes weak fairness of the start, the bind, what the process does by itself once
asked to stop (`Proceeds`), and of the end of an event stream that has seen the stop: the
runtime polls its tasks, the timer fires, the checkpoint ends. Nothing is assumed of
clients, of stdin, or of the threads of requests, so `StopLeadsToExit` holds with a request
that never ends. `query` has no fairness: `WorkRunsOut` says that every step uses up some of a
finite amount of work, so with the deadlock check every scheduling of the threads ends the
query.

Conditional properties. Where the code does not keep a promise in all cases, the property
states the hypothesis under which it does, and the module keeps the behaviours outside it:

* `Durable` excepts keys with a write that was acknowledged while the log was not whole and that
  no manifest covers yet (`Exposed`); `ImplementsKeyedStore` has the same exception as `exposed`.
  Everything acknowledged on a whole log, and everything a manifest covers, is claimed.
* `AckedSurvive` and `AckedLsnNotReused` need `Recoverable`: no append stopped half way and no
  reopen failed after a truncation.
* `SettledWhenQuiet`, `NoAckedRowLost` and `NewTableIsEmpty` need catalog changes one at a time and
  no flush by a store whose table was dropped (`disturbed = {}`); the first and the last
  also need that deleting files has not failed. Dropping any one of these hypotheses gives
  a counterexample.
* `SettledWhenQuiet` names the tables whose store did not open: they are in the catalog and
  have none.
* `NoBatchStraddles` excepts the batches of `overtaken` writes and the partitions in `halted`. Each
  other batch, also in the same memtable and in later versions, is claimed.
* `LogIsCatalog` needs that no DDL append failed after its record reached the file.
* `AnswerIsReference` leaves out `CountIgnoresCut` (a count from metadata with an offset or limit
  0) and `NestedOffset` (nested limits with an outer offset); section 6 has both.
* `NoInternalError` names the plans past the validator that do fail inside: groups projected
  otherwise than in order and under their own names (`ProjectedGroups`), and a NULL that no
  column gives a type as a predicate (`Evaluates`). The run has some of each; section 6.
* `DrainIsComplete` is about an exit that neither a second signal nor the timeout forced, and
  leaves out writes of the stdio loop, which is not drained, and of requests whose client
  has gone.

## 4. What is checked and what is proved

Every property is checked by a run of its component. "Proved" names the theorem; a property
with no theorem has the reason.

| Component | Property | Meaning | Proved |
|---|---|---|---|
| `Partition` | `TypeOK` | types of files, memory and control | `TypeCorrect` |
| | `ManifestComplete` | the manifest only references complete files | `ManifestIsComplete` |
| | `FreshLsn` | new lsns are above checkpoint and log | `LsnsAreFresh` |
| | `ImmutableSegments` | referenced files never change | `SegmentsAreImmutable` |
| | `IndexExact` | the index addresses exactly the visible rows | `IndexIsExact` |
| | `NoOrphans` | at rest, and without failed file operations, the files are the open segments | `NothingIsOrphaned` |
| | `ServesTruth` | an open partition serves the last acknowledged write | `ServesAcknowledged` |
| | `Durable` | the disk recovers to the acknowledged state at every instant, or to a later unacknowledged record, but for keys written on a damaged log | `RecoversAcknowledged` |
| | `ImplementsKeyedStore` | refinement of `KeyedStore` | `PartitionIsKeyedStore` |
| | `LockReleased` | operations and recovery end, unless the log does not open | no: liveness |
| `Wal` | `AckedSurvive` | acknowledged records are found by every open | `AcknowledgedSurvive` |
| | `AckedLsnNotReused` | a new record's lsn was never acknowledged and is above the checkpoint | `AcknowledgedLsnsAreFresh` |
| `TableReads` | `ScanIsSnapshot` | a scan that does not fail returns one state of the table | `ScansAreSnapshots` |
| | `GetIsCurrentIfUndisturbed` | a lookup that no flush or compaction overlaps does not fail, and returns its key's row with a value it had meanwhile | `UndisturbedGetsAreCurrent` |
| | `GetIsRightUnlessFlushed` | a lookup that only compactions overlap may miss its row but never returns another | `UnflushedGetsAreRight` |
| `TableWrites` | `AckedIsComplete` | an acknowledged write is in every partition, a refused one in none | `AcknowledgedIsComplete` |
| | `NoBatchStraddles` | a buffered batch has its partition's schema version, unless a change of version overtook its write or failed half way | `NoBatchStraddlesVersions` |
| | `InsertNeverReplaces` | no insert replaces a visible row | `InsertsNeverReplace` |
| `EngineDdl` | `LogIsCatalog` | the log replays to the published catalog | `CatalogIsReplayed` |
| | `SettledWhenQuiet` | with no DDL under way catalog, registry and files agree, but for stores that did not open | `QuietIsSettled` |
| | `NoAckedRowLost` | acknowledged rows stay while their table exists | `AckedRowsKept` |
| | `NewTableIsEmpty` | a new table opens on no old rows | `NewTablesAreEmpty` |
| `Serving` | `SessionsBounded` | never more than `MAX_SESSIONS` | `ServerBoundsSessions` |
| | `SessionServesItsOpener` | a request with a session has its opener's tenant and scopes | `SessionsServeTheirOpeners` |
| | `SessionsEndForAReason` | idle, closed by its owner, or least recent in a full table | `SessionsEndWithReason` |
| | `EffectsAreAuthorized` | stored data changes within the scopes of a key of its tenant | `EffectsNeedAKey` |
| | `KeyIsForLife` | primary key, partition count and columns stay while a table exists | `KeysStay` |
| | `DrainIsComplete` | an exit that nothing forced leaves nothing undone | `DrainsCompletely` |
| | `DrainTimeoutNeedsWork` | only work makes the drain time out | `DrainWaitsForWork` |
| | `StopLeadsToExit` | a stop leads to the exit | no: liveness |
| `SegmentSet` | `MergesAreBounded` | a merge stays within the byte and input limits, and rewrites a single segment only when it is mostly dead | `MergesStayBounded` |
| | `Converges` | a merge leaves fewer segments or fewer suppressed rows | `CompactionConverges` |
| `QueryPath` | `WorkRunsOut` | every step uses up some of a finite amount of work | `WorkIsFinite` |
| | `ReadsWithinBudget` | the threads together read no more than the budget | `ReadsAreCharged` |
| | `PruningIsSound` | a segment skipped on its statistics has no row the filter is true of | `SkippedSegmentsHoldNothing`, unless a JSON column is compared (finding 4) |
| | `AnswerIsReference`, `TruncationIsReported` | section 3 | no: concatenations and selections over all partitions (below) |
| | `NoInternalError` | a validated plan does not fail inside, but for two kinds | no: selections of columns (below) |
| | `QuestionIsUnderstood` | a question of documented phrases asks for what they say | no: about given phrases |

The refinement maps the store to what is served (or recovers, while the process is down),
the current write to `pending`, the doubtful writes to the effects of the records in
`limbo` above the checkpoint, `damaged` to a log that is not whole, and `exposed` to what the
disk recovers to at the keys of the `stray` records above the checkpoint.

### Assumptions

A theorem assumes what its modules assume of their constants, and TLC evaluates these
assumptions in every run. Bounds are natural numbers and sets of faults are among the known
ones. The others are:

* The values that stand for "nothing" are not data: `None` is no value, locator, record or row,
  `Nobody` no process, and `""` and `"unknown"` are not identifiers of sessions.
* A batch is a nonempty sequence of rows; a memtable holds at least one row before its flush; a
  key has one partition, and a table at least one (`TableSchema::validate`).
* Tables and the threads of DDL requests are finitely many (`DdlAssumption`).
* A table is a schema: its columns have the types the code knows and different names. A
  snapshot is as the storage layer makes one: rows of values of their columns' types, and in each
  segment the statistics that `compute_stats` gives for its rows (`StoresAreSnapshots`). A
  request, or a plan handed to the planner, is any one of the form the code's types allow
  (`InputsAreRequests`); a question is any sequence of words, with any `Lexicon`. `MaxDepth` is any
  natural number.
* A configuration lists its keys, what is stored are tables with a schema and rows, and a REST route
  stands for an operation (`ScenariosAssumption`).
* `WalProofs` has one hypothesis of its own, `PayloadsFit`: no payload has 2^32 bytes or more. The
  code compares and writes the length as a u32 (section 6).

Nothing bounds keys, values, rows, payloads, writers, readers, policies, requests, filters, columns,
partitions, sessions, restarts or faults.

### The proofs of a partition

None of the properties is inductive. `PartitionProofs` starts with

    Inv == TypeOK /\ LsnInv /\ IdInv /\ FileInv

* `LsnInv`: while the process runs, `next_lsn` is above the checkpoint, the lsns in memory and
  every record in the log. `FreshLsn` follows at the one step that logs a record. It is
  `Open` that needs `advance_to`: without it the truncated log would not bound the
  checkpoint.
* `IdInv`: every segment id in memory and in the manifest is below `next_segment_id`, so the
  file a flush or a merge writes is a new one; `ImmutableSegments` follows.
* `FileInv`: every segment in memory and in the manifest has a complete file, and the inputs
  of a compaction are out of memory after the merge and out of the manifest when their
  deletion begins. The second half is what makes the deletion harmless, and is why the
  order merge, commit, delete matters.

Its second part, on the index, adds

    IndexInv == Inv /\ LiveInv /\ CheckpointInv

* `LiveInv` is `IndexExact` said of addresses: what the index holds for a key is a visible row with
  that key, and every visible row is what the index holds for its key. It survives a batch
  that repeats a key, since only the last row of a key stays unsuppressed, and a flush or a
  merge, since both give each row they move one new address.
* `CheckpointInv`: no two visible rows of the manifest have one key. Recovery rebuilds the index
  from the manifest in any order, and only this makes the result unique.
* `OrphanInv`: until the first failure of a file operation, and while the process is up, the files are
  the open segments and, between its merge and its end, the inputs of a compaction. A crash in
  between leaves others, which the next `Open` removes.

Its third part, on recovery, adds

    RecoveryInv == IndexInv /\ LogInv /\ StrayInv /\ UnflushedInv /\ RecoveringInv
                     /\ ServesTruth /\ Durable

* `LogInv` orders the lsns: one record each, manifest <= flushed <= applied < pending. Whether a
  record counts at recovery depends on this order alone.
* `StrayInv`: an applied record that no scan returns, and that no manifest covers, is above every
  record of the log, and the log is still damaged; while it is not flushed its keys are in the
  memtable only. So a manifest that covers the last applied record covers all of them, which is
  why truncation and recovery find nothing exposed (`RepairIsCovered`), and what a restart falls
  back to at the key is what the log alone gives.
* `UnflushedInv`: a key whose row is in the memtable is touched by a record, in the log or stray,
  above what has been flushed. It makes the truncation after a flush, and the manifest of a compaction that ran
  while the memtable was not empty, lose nothing.
* `RecoveringInv`: while the log is replayed, what is served is the checkpoint with the records
  replayed so far, and `truth` is what the whole log gives.

Two facts carry the argument: a key's value after recovery is the effect of the last record above
the checkpoint that touches it, or else its value at the checkpoint; and the manifest a flush
or a merge writes has, at every key, the value it would have had after a recovery the instant
before. The second is why a crash before or after the rename of the manifest recovers to the
same rows, and the argument holds of exposed keys as well, whose rows it saves
(`CommittedExposed`). A write whose log append failed in its fsync is another value: `Durable`
allows it, and it is why the abstract store has `doubt`.

`PartitionIsKeyedStore` is the simulation: `Stored`, `InProgress`, `Surfacing`, `Damaged` and
`Exposure` are the abstract variables in terms of the concrete ones, and each lemma maps one kind of step. Appending to the
log is the abstract `Begin`, `Fail` when the append reports an error after its record reached the
file, or `Damage` when it leaves a part of it (`LogMaps`); applying the record is `Acknowledge`
(`ApplyMaps`). A manifest of a flush or compaction that reaches the disk is `Checkpoint`: failed
writes it covers leave doubt, acknowledged ones are no longer exposed (`CommitMaps`). A crash is
`Restart`: what the log holds counts, in progress or in doubt, and nothing else (`CrashMaps`). The
truncation and the opening are `Repair`, a failed reopen is `Damage` (`DamageMaps`). All else is a
stutter (`QuietMaps`): replay, a crash during replay, writing a segment, the merge, the deletion
and operations that fail leave the five the same functions. The simulation also needs `TouchInv`, that
every record in the log touches some key: the abstract store has no empty write.

One lemma per action shows that it preserves an invariant (`LogStep`, `ApplyStep`,
`FlushSegmentStep`, ...). The lemmas before them are about the operators: the `CHOOSE` of a
least or greatest element has a witness, the enumeration of a set of locators is a sequence of
rows, a locator in the index, the bitmaps or the manifest addresses a row that is there. The
model's `Orderings` is a set of sequences rather than a recursive sort, so that this needs no
induction over data.

### The proofs of the log

    WalInv == TypeOK /\ LsnInv /\ (Recoverable => FileInv)

`FileInv` says that, as long as no write stopped half way and no reopen failed, every chunk but the
last is a whole frame, the last is one too while the process is up, lsns increase along the
file, and an acknowledged record above the checkpoint is in it, whole. From this
`ScanFindsWhole` shows that `scan` has exactly one result, the whole frames, though it is a set
of possible results: the cases that could give another are a partial frame before the end
and a length that wraps around, and `FileInv` and `PayloadsFit` exclude them.

### The proofs of reads and writes of a table

`ReadsInv` of `TableReadsProofs` is the index invariant of a partition and one invariant per
reader. A lookup holds an address that leads to an answer or nowhere (`LeadsToAnswer`): to a row of
its key with a value the key has had since it began, in the memtable until a flush and in a segment
for as long as the file exists. A scan has read a part of its snapshot, and what it has still
to read is the rest (`Left`): files do not change and the snapshot has bitmaps of its own. Where a
property has no claim, because a flush or a compaction came between, neither has the invariant.

`WritesInv` of `TableWritesProofs` is about the table's lock. `LockInv` is the mutual exclusion.
`FreeInv` is what the insert's check leaves behind: until it has appended to a partition, no key of
its batch is visible there. It holds because whoever could change that must hold the lock.
`OwnerInv` and `WrittenInv` tie what is in the partitions to what each request has left to do, which
gives `AckedIsComplete` when nothing is left. `VersionInv` says that every batch that is
buffered or would be replayed, and every write under way, has the table's version, or is
`overtaken`. `CurrentInv` says that of the partitions outside `halted`, except while they adopt a
version one by one; then `AdoptInv` says that all memtables are empty and that the partitions that
have adopted it have nothing to replay. Together they give `NoBatchStraddles` after an adoption that
went through, that failed part-way, and after a restart.

### The proofs of the catalog

`Replay` is a recursive function over the length of the log, and that such a function exists is
proved: a run of a log is unique, and by the least length without one each log has one
(`RunExists`, `RunIsUnique`), so that `ReplayAppend` gives one more step. `CatalogIsReplayed`
needs with it that the log replays at all (`catalog.ok`).

The other three properties are about histories in which catalog changes do not overlap
(`disturbed = {}`). `SoundInv` says what must then agree at every instant, not just at rest.
`RegistryInv`: the registry is the catalog, less what is being opened or did not open, plus what is
being closed, and a store holds the file at its path. `CatalogInv`: what is being opened is in the catalog, what
is being closed or deleted is neither there nor in what a restart would recover. `FilesInv` and
`RegisterInv`: what is about to be opened has no file left, and what is about to be registered is
empty and in nobody's hands, unless a deletion failed. `RowsInv`: a file that acknowledged rows went
to, or that a writer is about to write, is at its table's path if the table has not been created
again since and is there still.

### The proofs of the server

`ServerBoundsSessions` is about the whole server (`Serving`). The inductive invariant adds that
the table is finite, which cardinalities need. `StepsOfTheServer` shows that every action of
`Serving` does to the table what `open`, `touch` or `close` does, or nothing; `OpenKeepsBound` is
the argument: either the sweep leaves room or exactly one of the least recently used sessions
goes, which exists because a full table is not empty.

`SessionInv` ties the token a live session is bound to, the opener it had, and the context of
every request that names it: all three grant the same. It holds because the table compares, and
the registry resolves, the same token (`strip_prefix`), and because an identifier is drawn once, so
that no request can have named a session before it was opened. `CloserInv` is its part about
the requests that close a session.

`DrainInv` says when there can be open connections (`HttpInv`: only while the transport is up or
closing, and not before the streams were told to stop), who may still write during the
checkpoint (`LateInv`), and what the checkpoint has left to flush (`DirtyInv`).

`AccessInv`: a request that is worked on has no scopes, or those and the tenant of a key that its
header names; what it asks the engine for is an operation; and the catalog has the form of one.
`TokenIsEntitled` shows that the last match of a token is such a key. `OperationsAreLawful` goes
through all tools: an operation changes nothing, or only the caller's tenant, and that as the scope
it requires allows (`Lawful`). The proof needs of the resolution step only that it keeps the caller,
so it holds whatever other requests did between resolution and effect; for a schema it rests on
`check_evolution`, which is evaluated on the table as it is at the effect.

### The proofs of compaction

The sums of the model are folds over finite sets. `SegmentSetProofs` says what such a fold is: there
is one function on the subsets of the set that is 0 at the empty set and whose value at any other
set is that without one element, plus the element's. That function is the sum in every order, and
`MapThenSumSet` is its value at the whole set. The invariant is only that the segments are
finitely many and typed, with different ids. `MergesStayBounded` then rests on what the taking loop
of `select` leaves: each segment was compared with the sum of those taken before it.
`CompactionConverges` compares two sums: the merged segment has the rows of its inputs less the
suppressed ones, so either one segment takes the place of two or more, or a single one loses its
suppressed rows.

### The proofs of a query

`ScanInv` says that between the start of the scan and its end there is one thread for each
partition, at one of its sources or past the last. `WorkIsFinite` follows step by step: the
coordinator goes to a later phase, the clock runs out once, a thread gets further.

`ReadsAreCharged` needs what is charged and not yet read, over all threads:

    Charged == read + (the sum of what the threads in state "read" are about to read)
               is at most what the budget counts, and at most max_bytes

The second bound is the one that matters: a charge that exceeds the budget is counted
and not read, so the counter itself goes past the limit. The sum over the partitions is a
sequence of running sums (`IsSum`), so that a change of one thread changes it by as
much (`SumChanges`).

`SkippedSegmentsHoldNothing` goes through all the stages a filter passes, with one lemma for each:

1. `QuestionsTranslate`: whatever the words, each pass of the translator keeps the parser's state in form
   (`Shaped`), and what it ends in is a plan request.
2. `RequestsLower`: what `to_ir` makes of a request is a query.
3. `CheckFits`, by the depth of the expression: what the validator accepts compares a column only
   with constants of the column's type (`Fits`), which is what coercion is for.
4. `RewriteFits`, `PlanFits`: pushing the filter below projections, that is renaming its columns to those of the
   table, keeps this; `IsWalk` and `IsPlacing` are the validator and the builder node by node.
5. `SkippedHasNone`: a filter is true of a row only if each of its conjuncts is
   (`ConjunctsHold`, in three-valued logic); an atom is extracted from a conjunct (`AtomsAre`); and
   the statistics of a segment cover each of its values (`StatisticsCover`: minimum and maximum
   in the order of the column's type, the bloom filter, the counts of nulls), so that an atom that
   holds of some row does not exclude the segment (`AtomsKeep`).

The invariant `PlanInv` carries the result of one stage to the next and, for what was skipped,
to the end. The one exception is needed at 5: a JSON column has no minimum, and
`ComparesJson` is exactly where the run `json_pruning` finds the property violated.

### What stays with TLC

* `LockReleased` and `StopLeadsToExit`: liveness under fairness. That `query` is never stuck
  is its deadlock check.
* `AnswerIsReference` and `TruncationIsReported`: the answer is a concatenation over all partitions and a
  selection of rows, compared with another one. That selections distribute over
  concatenations, and partial aggregates over partitions, for every content, is induction over data.
* `NoInternalError`: the columns a plan reads are gathered with `SelectSeq`, which the provers have
  no definition of.
* `QuestionIsUnderstood`: it compares with what each given question asks (`asked`), which is data of the instance.

## 5. Where the code departs from its documentation

Each has a run that finds a violation.

1. `wal_write_error`: a `write_all` that stops half way (wal.rs:308) leaves a partial frame.
   The next appends succeed behind it. At the next open, if the partial frame's declared
   length reaches the end of the file, everything from it on is cut off as a torn tail,
   acknowledged records included. The module documentation (wal.rs:27-29) promises that
   a failing frame before the end "is reported, never silently skipped".
2. `get_returns_its_key`: `get` takes the lock twice (table.rs:914 and 939). A flush and a few
   writes in between make the ordinal of the first step address another key's row, which
   is returned.
3. `half_write`: a batch over several partitions is not all-or-nothing (table.rs:21-22,
   ARCHITECTURE.md:286-287) when the process dies, or an append fails, between two of them.
4. `json_pruning`: `compute_stats` keeps no minimum and maximum for a JSON column (segment.rs:92),
   `all_null` reads that as a column of nulls, and a segment whose rows match an `=` filter on
   the column is skipped, against "may only return `true` when the segment provably contains
   no matching row" (prune.rs:3-4). The `query` run checks the same property over tables
   whose JSON column is not filtered with equality.

## 6. Known gaps of the code that the models show without a run of their own

* A reopen that fails after the rename of `truncate_prefix` (wal.rs:358) sends later
  acknowledged appends to an unlinked file (`Wal` and `Partition`, fault `reopen`): a restart loses
  them unless a manifest came in between.
* Behind a partial frame a truncation, and with it every flush, may fail for ever after the manifest
  is written, and the table may not open again (`Partition`, `tail = "buried"`).
* The u32 cast of the size check (wal.rs:292) wraps at 4 GiB (`Wal`, `LenMod`).
* A failed fsync in `commit_ddl` followed by a retry logs the same creation twice, and the
  system log no longer replays (`EngineDdl`, fault `sync`; `Restart` is then not enabled).
* Overlapping creates and drops of one name can lose acknowledged rows, and a store that
  outlives its table can flush old rows into its successor (`EngineDdl`, `disturbed`).
* A lookup can miss a live key, and a scan can fail, when a compaction runs in between
  (`TableReads`).
* A write that read the schema before a schema change got the lock leaves a memtable that
  cannot be flushed until restart, or longer (`TableWrites`, `overtaken`). A `set_schema` that fails
  between two partitions does the same to later writes (`halted`).
* A store that does not open after its creation was logged leaves a table that is in the catalog and
  cannot be used until it is dropped or the engine restarts (`EngineDdl`, `unopened`).
* A segment that is mostly dead and larger than `max_input_bytes` stops the dead-segment loop
  before younger ones that would fit (compaction.rs:67-70).
* A count answered from metadata ignores an offset and a limit of 0 (`CountIgnoresCut`).
* Nested limits with an outer offset are merged into one cut (`NestedOffset`); no plan request
  gives such a plan.
* Groups that are projected fail inside (`ProjectedGroups`): `Aggregator::finish` takes names and types from
  the output's schema by position (aggregate.rs:329), and `apply_rename` then does not find its
  sources (lib.rs:309-312), against "scan -> filter -> aggregate -> rename" of physical.rs:4-7. A NULL
  literal passes `expect_bool` (validate.rs:529) as a predicate and fails in `eval_bool`, against "a plan
  that is safe to execute" (validate.rs:24). No front end makes either plan; a caller of the planner can.

Met while reading, and outside the models or their instances:

* `drop_database` checks for tables before it holds `ddl_lock` (engine.rs:304), so a table created
  in between is dropped without `cascade` (comment at 293-294).
* Two schema changes may commit in one order and be adopted by the table in the other
  (table.rs:1017).
* A crash while a new log gets its header leaves a file that is neither empty nor complete
  (wal.rs:158).
* An ungrouped integer sum wraps where a grouped one saturates.
* `count(*)` over a table all of whose columns are sensitive is an internal error.
* `ir.rs:128` says that nulls sort first in a descending order; `desc` (150) puts them last.
* A stdio call in flight is cut off at the exit, and the loop keeps reading during the
  drain (main.rs:461). A failed bind beside stdio goes unnoticed until the stop.
* `schema_update` inherits the description from the table it described, which may have been
  replaced. Deleting a session does not end its event streams.
* The number of partitions is truncated to 32 bits.
* The translator: a group phrase may reuse a metric's words ("latest by cat" becomes the
  maximum of cat by cat); "top 2 total amt by cat" sorts rows by cat; conditions no pass knows
  ("between", "in uae") are dropped from a listing although rule.rs:6-7 says everything else
  is refused; "first 2 ... sorted by qty" gets a second sort key; a very large count in
  "last N days" overflows the duration.

## 7. Not modelled

* Append-only tables (no key index): their writes and reads are those of the models without
  index and suppression.
* Operation with `fsync = false`; the header of a new log file; `entries_from`.
* Arithmetic expressions, which no plan request contains; overflow of sums.
* Conversions: JSON rows, Arrow arrays, Parquet, base64, identifiers; rendering (explain,
  interpretation, schema context, tool descriptions, CORS headers).
* String matching and parsing inside the translator (given by `Lexicon`).
* The one-shot `query` and `tools` commands of the server, which run one modelled request and
  exit; the benchmarks.
* Locks poisoned by a panic.

Databases do not interact in the storage code except through the catalog log; `EngineDdl`
has one, `Serving` has two tenants.

## 8. Plan

Done: the storage layer (`Partition`, `KeyedStore`, `Compaction`, `SegmentSet`, `Wal`, `TableReads`,
`TableWrites`, `EngineDdl`), the query path (`Values` to `QueryPath`), the server (`Sessions` to
`Serving`); a theorem for every safety property of the storage modules and of the server, with the
refinement of `KeyedStore`; and theorems for the work, the budget and the pruning of queries.

Left, in order of importance:

1. `AnswerIsReference` for plans without aggregates, from `SkippedSegmentsHoldNothing`: a refinement of the scan
   by one that reads every source.
2. `NoInternalError`, over a selection of columns that is written without `SelectSeq`.
3. Two schema changes that overlap in `TableWrites`, and append-only tables in `Partition`.
