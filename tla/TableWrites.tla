----------------------------- MODULE TableWrites ----------------------------
(***************************************************************************)
(* Writes to a table of several partitions and changes of its schema       *)
(* (adb-storage table.rs, TableStore; adb-engine update_schema): requests  *)
(* run concurrently, serialise on the table's write_lock, and go through   *)
(* the partitions one after the other.                                     *)
(*                                                                         *)
(* A partition's append is one durable step here: module Partition is its  *)
(* implementation.  A row, and a batch, is the number of the request that  *)
(* wrote it; a batch's shape is the schema version it was built for.       *)
(***************************************************************************)
EXTENDS Integers, Sequences, FiniteSetsExt

CONSTANTS
    Keys,
    Partitions,          \* partition numbers
    Route,               \* key -> partition (hash_key % partitions)
    Writers, Evolvers,   \* concurrent requests
    Faults,              \* what may fail: a flush, the write of a manifest
    MaxOps, MaxVersion, MaxRestarts, MaxFaults       \* bounds

Procs == Writers \cup Evolvers
Nobody == "nobody"

ASSUME WritesAssumption ==
    /\ Partitions \subseteq Nat /\ Partitions # {}
    /\ Route \in [Keys -> Partitions]
    /\ Writers \cap Evolvers = {} /\ Nobody \notin Procs
    /\ Faults \subseteq {"flush", "manifest"}
    /\ {MaxOps, MaxVersion, MaxRestarts, MaxFaults} \subseteq Nat

VARIABLES
    table,         \* key -> the write its visible row came from; 0: no row
    memtable,      \* partition -> its buffered batches
    logged,        \* partition -> the batches its manifest does not cover
    adopted,       \* partition -> its schema version (PartitionState.schema)
    schema,        \* TableStore.schema
    catalog,       \* the version in the engine's catalog
    write_lock,
    proc,          \* what each request is doing
    restarts, faults,
    \* history
    ops,           \* the write requests
    overtaken,     \* writes that were running when the table's schema was
                   \* replaced, or that a restart replayed under a later one
    halted         \* partitions a failed set_schema left on another version

vars == <<table, memtable, logged, adopted, schema, catalog, write_lock, proc, restarts, faults,
          ops, overtaken, halted>>

Idle == [pc |-> "idle", op |-> 0, version |-> 0, todo |-> {}]

Init ==
    /\ table = [k \in Keys |-> 0]
    /\ memtable = [p \in Partitions |-> <<>>] /\ logged = memtable
    /\ adopted = [p \in Partitions |-> 1] /\ schema = 1 /\ catalog = 1
    /\ write_lock = Nobody
    /\ proc = [w \in Procs |-> Idle]
    /\ restarts = 0 /\ faults = 0
    /\ ops = <<>> /\ overtaken = {} /\ halted = {}

Goto(w, s) == proc' = [proc EXCEPT ![w] = s]

\* A file operation returns an error.
Fail(kind) ==
    /\ kind \in Faults
    /\ faults < MaxFaults
    /\ faults' = faults + 1

\* A write request ends: the guard is dropped.
End(w, status) ==
    /\ ops' = [ops EXCEPT ![proc[w].op].status = status]
    /\ Goto(w, Idle)
    /\ write_lock' = Nobody

(* Writes. ------------------------------------------------------------------ *)

\* The batch is built and checked against the schema read before the guard.
Begin(w, kind, keys) ==
    /\ proc[w].pc = "idle"
    /\ Len(ops) < MaxOps
    /\ ops' = Append(ops, [kind |-> kind, keys |-> keys, shape |-> schema,
                           status |-> "running", written |-> {}])
    /\ Goto(w, [Idle EXCEPT !.pc = "wait", !.op = Len(ops')])
    /\ UNCHANGED <<table, memtable, logged, adopted, schema, catalog, write_lock, restarts, faults,
                   overtaken, halted>>

\* Mutant: nothing keeps two requests apart.
LockIsFree == TRUE

\* write_lock.lock() returns.
LockAvailable == write_lock = Nobody

Acquire(w) ==
    /\ proc[w].pc \in {"wait", "evolve_wait"}
    /\ LockAvailable
    /\ write_lock' = w
    /\ Goto(w, [proc[w] EXCEPT !.pc = IF @ = "wait" THEN "check" ELSE "evolve_flush"])
    /\ UNCHANGED <<table, memtable, logged, adopted, schema, catalog, restarts, faults, ops,
                   overtaken, halted>>

\* Mutant: only the first group of rows is appended.
FirstTarget(op) == { Min({ Route[k] : k \in op.keys }) }

\* The partitions with rows of the batch.
Targets(op) == { Route[k] : k \in op.keys }

\* The keys of the batch that some partition already has.
Duplicates(op) == { k \in op.keys : table[k] # 0 }

\* An insert looks for its keys in every partition before anything is logged.
Check(w) ==
    LET op == ops[proc[w].op]
    IN  /\ proc[w].pc = "check"
        /\ IF op.kind = "insert" /\ Duplicates(op) # {}
           THEN End(w, "refused")
           ELSE /\ Goto(w, [proc[w] EXCEPT !.pc = "append",
                              !.todo = Targets(op)])
                /\ UNCHANGED <<ops, write_lock>>
        /\ UNCHANGED <<table, memtable, logged, adopted, schema, catalog, restarts, faults,
                       overtaken, halted>>

Shape(i) == ops[i].shape

\* Memtable::concat: several batches must all have the partition's shape.
Concats(p, batches) ==
    Len(batches) <= 1 \/ \A i \in DOMAIN batches : Shape(batches[i]) = adopted[p]

\* What a failed flush leaves in the memtable and uncovered by the manifest: the
\* segment, the manifest or what follows it was not written.
FlushFailed(batches, uncovered) ==
    { <<batches, uncovered>>, <<<<>>, uncovered>>, <<<<>>, <<>>>> }

\* append_rows or delete_keys in the next partition, with the flush that a full
\* memtable brings on.  A flush that fails, or a memtable that cannot be
\* concatenated, fails the request, after the rows were logged and applied.
AppendPartition(w) ==
    LET op    == ops[proc[w].op]
        p     == Min(proc[w].todo)
        keys  == { k \in op.keys : Route[k] = p }
        added == IF op.kind = "delete" THEN <<>> ELSE <<proc[w].op>>
        rest  == proc[w].todo \ {p}
        Leave(mem, log, status) ==
            /\ memtable' = [memtable EXCEPT ![p] = mem]
            /\ logged' = [logged EXCEPT ![p] = log]
            /\ ops' = [ops EXCEPT ![proc[w].op].written = @ \cup keys,
                                  ![proc[w].op].status = status]
            /\ IF status = "running"
               THEN Goto(w, [proc[w] EXCEPT !.todo = rest]) /\ UNCHANGED write_lock
               ELSE Goto(w, Idle) /\ write_lock' = Nobody
        next  == IF rest = {} THEN "ok" ELSE "running"
        mem   == memtable[p] \o added
        log   == logged[p] \o added
    IN  /\ proc[w].pc = "append"
        /\ table' = [k \in Keys |->
              IF k \notin keys THEN table[k]
              ELSE IF op.kind = "delete" THEN 0 ELSE proc[w].op]
        /\ \/ Leave(mem, log, next) /\ UNCHANGED faults
           \/ /\ op.kind # "delete" /\ Concats(p, mem)
              /\ Leave(<<>>, <<>>, next) /\ UNCHANGED faults
           \/ /\ op.kind # "delete" /\ ~Concats(p, mem)
              /\ Leave(mem, log, "failed") /\ UNCHANGED faults
           \/ /\ op.kind # "delete" /\ Concats(p, mem) /\ Fail("flush")
              /\ \E left \in FlushFailed(mem, log) : Leave(left[1], left[2], "failed")
        /\ UNCHANGED <<adopted, schema, catalog, restarts, overtaken, halted>>

(* Engine::update_schema: the catalog first, then TableStore::set_schema. --- *)

CommitSchema(e) ==
    /\ proc[e].pc = "idle"
    /\ catalog < MaxVersion
    /\ catalog' = catalog + 1
    /\ Goto(e, [Idle EXCEPT !.pc = "evolve_read"])
    /\ UNCHANGED <<table, memtable, logged, adopted, schema, write_lock, restarts, faults, ops,
                   overtaken, halted>>

\* The version to adopt is read back from the catalog, after the commit.
ReadSchema(e) ==
    /\ proc[e].pc = "evolve_read"
    /\ Goto(e, [proc[e] EXCEPT !.pc = "evolve_check", !.version = catalog])
    /\ UNCHANGED <<table, memtable, logged, adopted, schema, catalog, write_lock, restarts, faults,
                   ops, overtaken, halted>>

\* check_evolution against the schema read before the guard: a version that
\* lacks columns of a later one is refused.
CheckEvolution(e) ==
    /\ proc[e].pc = "evolve_check"
    /\ Goto(e, IF proc[e].version >= schema
               THEN [proc[e] EXCEPT !.pc = "evolve_wait"] ELSE Idle)
    /\ UNCHANGED <<table, memtable, logged, adopted, schema, catalog, write_lock, restarts, faults,
                   ops, overtaken, halted>>

\* Mutant: only the first partition is flushed.
FlushedFirst(failing) == Partitions \cap {1}

\* Partitions are flushed in order, up to the first that fails.
Flushed(failing) == { p \in Partitions : \A q \in failing : p < q }

\* The flush of each partition.  One with an empty memtable has nothing to write,
\* unless a delete has moved its log on.
FlushAll(e) ==
    LET wedged == { p \in Partitions : ~Concats(p, memtable[p]) }
    IN  /\ proc[e].pc = "evolve_flush"
        /\ \/ /\ memtable' = [p \in Partitions |-> IF p \in Flushed(wedged) THEN <<>> ELSE memtable[p]]
              /\ \E moved \in SUBSET Partitions :
                    logged' = [p \in Partitions |->
                        IF p \in Flushed(wedged) /\ (memtable[p] # <<>> \/ p \in moved)
                        THEN <<>> ELSE logged[p]]
              /\ IF wedged = {}
                 THEN /\ Goto(e, [proc[e] EXCEPT !.pc = "evolve_adopt", !.todo = Partitions])
                      /\ UNCHANGED write_lock
                 ELSE Goto(e, Idle) /\ write_lock' = Nobody
              /\ UNCHANGED faults
           \/ /\ Fail("flush")
              /\ \E f \in Flushed(wedged) : \E left \in FlushFailed(memtable[f], logged[f]) :
                    /\ memtable' = [p \in Partitions |->
                          IF p = f THEN left[1] ELSE IF p < f THEN <<>> ELSE memtable[p]]
                    /\ \E moved \in SUBSET Partitions :
                          logged' = [p \in Partitions |->
                              IF p = f THEN left[2]
                              ELSE IF p < f /\ (memtable[p] # <<>> \/ p \in moved)
                                   THEN <<>> ELSE logged[p]]
              /\ Goto(e, Idle) /\ write_lock' = Nobody
        /\ UNCHANGED <<table, adopted, schema, catalog, restarts, ops, overtaken, halted>>

\* Partition::set_schema in the next partition: its state first, then its
\* manifest.  The table's own schema follows the last partition; when a manifest
\* is not written, or only its fsync fails, it stays behind.
AdoptSchema(e) ==
    LET p    == Min(proc[e].todo)
        rest == proc[e].todo \ {p}
    IN  /\ proc[e].pc = "evolve_adopt"
        /\ adopted' = [adopted EXCEPT ![p] = proc[e].version]
        /\ \/ /\ logged' = [logged EXCEPT ![p] = <<>>]
              /\ IF rest # {}
                 THEN /\ Goto(e, [proc[e] EXCEPT !.todo = rest])
                      /\ UNCHANGED <<schema, write_lock, overtaken, halted>>
                 ELSE /\ schema' = proc[e].version
                      /\ overtaken' = overtaken \cup
                            { proc[w].op : w \in { v \in Writers : proc[v].pc # "idle" } }
                      /\ halted' = {}
                      /\ Goto(e, Idle) /\ write_lock' = Nobody
              /\ UNCHANGED faults
           \/ /\ Fail("manifest")
              /\ logged' \in {logged, [logged EXCEPT ![p] = <<>>]}
              /\ halted' = { q \in Partitions : adopted'[q] # schema }
              /\ Goto(e, Idle) /\ write_lock' = Nobody
              /\ UNCHANGED <<schema, overtaken>>
        /\ UNCHANGED <<table, memtable, catalog, restarts, ops>>

BatchesIn(f) == UNION { { f[p][i] : i \in DOMAIN f[p] } : p \in Partitions }

\* The process dies; open() takes the schema from the catalog and replays the
\* batches no manifest covers, with the shapes they were logged with.
Restart ==
    /\ restarts < MaxRestarts
    /\ restarts' = restarts + 1
    /\ overtaken' = IF schema = catalog THEN overtaken ELSE overtaken \cup BatchesIn(logged)
    /\ halted' = {}
    /\ memtable' = logged
    /\ schema' = catalog /\ adopted' = [p \in Partitions |-> catalog]
    /\ write_lock' = Nobody
    /\ proc' = [w \in Procs |-> Idle]
    /\ ops' = [i \in DOMAIN ops |->
          IF ops[i].status = "running" THEN [ops[i] EXCEPT !.status = "died"] ELSE ops[i]]
    /\ UNCHANGED <<table, logged, catalog, faults>>

Work(w) ==
    \/ Acquire(w) \/ Check(w)
    \/ AppendPartition(w)
    \/ ReadSchema(w) \/ CheckEvolution(w) \/ FlushAll(w) \/ AdoptSchema(w)

Request ==
    \/ \E w \in Writers, kind \in {"insert", "upsert", "delete"},
          keys \in (SUBSET Keys) \ {{}} : Begin(w, kind, keys)
    \/ \E e \in Evolvers : CommitSchema(e)

Next == Request \/ (\E w \in Procs : Work(w)) \/ Restart

Spec == Init /\ [][Next]_vars

-----------------------------------------------------------------------------
(* Properties.                                                             *)

\* An insert never replaces a row, however many requests race for the key: the
\* check and the appends are one critical section of write_lock.
InsertNeverReplaces ==
    [][\A k \in Keys : table'[k] \notin {0, table[k]} /\ ops'[table'[k]].kind = "insert"
          => table[k] = 0]_vars

\* A finished write changed all of its keys or none of them ("all-or-nothing
\* multi-partition writes").
AllOrNothing ==
    \A i \in DOMAIN ops :
        ops[i].status # "running" => ops[i].written \in {{}, ops[i].keys}

\* An acknowledged write took effect on every key, in every partition, and a
\* refused one on none.
AckedIsComplete ==
    \A i \in DOMAIN ops :
        /\ ops[i].status = "ok" => ops[i].written = ops[i].keys
        /\ ops[i].status = "refused" => ops[i].written = {}

\* set_schema: "The memtable is flushed first so no batch straddles two schema
\* versions": a buffered batch has its partition's shape, after any failed flush,
\* failed adoption and restart.  The code does not keep it for a write that was
\* running when the version was adopted (it read the schema before it took the
\* lock), for one that a restart replays under a later version than it was logged
\* for, and in a partition that a failed set_schema left ahead of the table.
NoBatchStraddles ==
    \A p \in Partitions \ halted : \A i \in DOMAIN memtable[p] :
        memtable[p][i] \notin overtaken => Shape(memtable[p][i]) = adopted[p]

=============================================================================
