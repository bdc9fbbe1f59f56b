----------------------------- MODULE TableReads -----------------------------
(***************************************************************************)
(* Readers of one partition against its writer (adb-storage table.rs,      *)
(* adb-exec scan.rs): point lookups and scans take the partition's read    *)
(* lock for single steps and read segment files without it, while writes,  *)
(* flushes and compactions run under the write lock in between.            *)
(*                                                                         *)
(* A step is what happens under one acquisition of the lock, or one file   *)
(* read.  The process does not die here and no file operation fails (that  *)
(* is module Partition), so an operation of the writer is one step.        *)
(***************************************************************************)
EXTENDS Integers, Sequences, FiniteSets, FiniteSetsExt

CONSTANTS
    Keys, Values, None,
    Readers,
    MaxWrites, MaxFlushes, MaxCompactions, MaxReads   \* bounds

Row(k, v) == [key |-> k, val |-> v]

Rows == { Row(k, v) : k \in Keys, v \in Values }
Locator == [src : Nat, ord : Nat \ {0}]

ASSUME ReadsAssumption ==
    /\ None \notin Keys \cup Values \cup Rows
    /\ None \notin Locator
    /\ {MaxWrites, MaxFlushes, MaxCompactions, MaxReads} \subseteq Nat

VARIABLES
    memtable, memtable_suppressed,
    segments,      \* segment id -> suppressed ordinals
    files,         \* segment id -> rows
    key_index,     \* key -> [src, ord], or None; src 0 is the memtable
    next_segment_id,
    reader,        \* what each reader is doing
    count,         \* operations so far
    \* history, of each reader's running or last operation
    held,          \* the values its key has had since it began
    moved,         \* what has run since it began: "flush", "compact"
    expect         \* the table when it took its snapshot

vars == <<memtable, memtable_suppressed, segments, files, key_index,
          next_segment_id, reader, count, held, moved, expect>>
history == <<held, moved, expect>>

RowAt(l) == IF l.src = 0 THEN memtable[l.ord] ELSE files[l.src][l.ord]

LocLess(l, m) == l.src < m.src \/ (l.src = m.src /\ l.ord < m.ord)

MemtableLocs == { [src |-> 0, ord |-> o] : o \in DOMAIN memtable \ memtable_suppressed }

SegmentLocs(ids) ==
    UNION { { [src |-> s, ord |-> o] : o \in DOMAIN files[s] \ segments[s] } : s \in ids }

\* The rows of the table at this instant.
Table == { RowAt(key_index[k]) : k \in { j \in Keys : key_index[j] # None } }

ValueOf(k) == IF key_index[k] = None THEN None ELSE RowAt(key_index[k]).val

\* A reader with a key runs a point lookup, one without a scan.
Idle == [op |-> "idle", key |-> None, loc |-> None, snap |-> None,
         todo |-> {}, out |-> None]

Init ==
    /\ memtable = <<>> /\ memtable_suppressed = {}
    /\ segments = <<>> /\ files = <<>>
    /\ key_index = [k \in Keys |-> None]
    /\ next_segment_id = 1
    /\ reader = [r \in Readers |-> Idle]
    /\ count = [write |-> 0, flush |-> 0, compact |-> 0, read |-> 0]
    /\ held = [r \in Readers |-> {}] /\ moved = [r \in Readers |-> {}]
    /\ expect = [r \in Readers |-> {}]

Within(kind, max) ==
    /\ count[kind] < max
    /\ count' = [count EXCEPT ![kind] = @ + 1]

-----------------------------------------------------------------------------
(* The writer.                                                             *)

\* suppress: the bitmaps are copied on write (Arc::make_mut), so a snapshot
\* that shares one keeps the old one.
Suppress(k) ==
    LET l == key_index[k]
    IN  /\ memtable_suppressed' = IF l # None /\ l.src = 0
              THEN memtable_suppressed \cup {l.ord} ELSE memtable_suppressed
        /\ segments' = [s \in DOMAIN segments |->
              IF l # None /\ l.src = s THEN segments[s] \cup {l.ord} ELSE segments[s]]

\* The readers of a key see one more value of it.
Hold(k, v) ==
    /\ held' = [r \in Readers |-> IF reader[r].key = k THEN held[r] \cup {v} ELSE held[r]]
    /\ UNCHANGED <<moved, expect>>

\* Mutant: the suppressed bitmap of a snapshot changes with the partition's.
ShareBitmap(k) ==
    LET l == key_index[k]
    IN  reader' = [r \in Readers |->
            IF reader[r].op = "scan" /\ l # None /\ l.src \in DOMAIN reader[r].snap.segments
            THEN [reader[r] EXCEPT !.snap.segments[l.src] = @ \cup {l.ord}]
            ELSE reader[r]]

\* What a write does to the snapshots readers hold: nothing.
KeepSnapshots(k) == UNCHANGED reader

Upsert(k, v) ==
    /\ Within("write", MaxWrites)
    /\ Suppress(k)
    /\ memtable' = Append(memtable, Row(k, v))
    /\ key_index' = [key_index EXCEPT ![k] = [src |-> 0, ord |-> Len(memtable) + 1]]
    /\ KeepSnapshots(k)
    /\ Hold(k, v)
    /\ UNCHANGED <<files, next_segment_id>>

Delete(k) ==
    /\ key_index[k] # None
    /\ Within("write", MaxWrites)
    /\ Suppress(k)
    /\ key_index' = [key_index EXCEPT ![k] = None]
    /\ KeepSnapshots(k)
    /\ Hold(k, None)
    /\ UNCHANGED <<memtable, files, next_segment_id>>

Move(kind) ==
    /\ moved' = [r \in Readers |-> moved[r] \cup {kind}]
    /\ UNCHANGED <<held, expect, reader>>

\* Mutant: a merged segment takes over the id of one of its inputs.
ReusedId(gone) == IF gone = {} THEN next_segment_id ELSE Min(gone)

\* The id of a new segment, whatever segments go away with it.
NewId(gone) == next_segment_id

\* The enumeration of a set of locators in scan order, as a singleton set.
Orderings(locs) ==
    { f \in [1 .. Cardinality(locs) -> locs] :
        \A i, j \in DOMAIN f : i < j => LocLess(f[i], f[j]) }

\* The rows at `locs', in order, become the file of a new segment; the segments
\* `gone' and their files go away, and the index follows.
Rewrite(locs, gone) ==
    LET new == IF locs = {} THEN {} ELSE {NewId(gone)}
        ids == (DOMAIN segments \ gone) \cup new
    IN  \E order \in Orderings(locs) :
        /\ files' = [s \in ids |-> IF s \in new THEN [i \in DOMAIN order |-> RowAt(order[i])]
                                   ELSE files[s]]
        /\ segments' = [s \in ids |-> IF s \in new THEN {} ELSE segments[s]]
        /\ key_index' = [k \in Keys |->
              IF key_index[k] \in locs
              THEN [src |-> NewId(gone),
                    ord |-> CHOOSE i \in DOMAIN order : order[i] = key_index[k]]
              ELSE key_index[k]]

Flush ==
    /\ memtable # <<>>
    /\ Within("flush", MaxFlushes)
    /\ Rewrite(MemtableLocs, {})
    /\ next_segment_id' = IF MemtableLocs = {} THEN next_segment_id ELSE next_segment_id + 1
    /\ memtable' = <<>> /\ memtable_suppressed' = {}
    /\ Move("flush")

\* Any choice a policy could make: several segments, or one with dead rows.
Compact(ids) ==
    /\ Cardinality(ids) > 1 \/ \E s \in ids : segments[s] # {}
    /\ Within("compact", MaxCompactions)
    /\ Rewrite(SegmentLocs(ids), ids)
    /\ next_segment_id' = next_segment_id + 1
    /\ UNCHANGED <<memtable, memtable_suppressed>>
    /\ Move("compact")

-----------------------------------------------------------------------------
(* Readers.                                                                *)

Becomes(r, s) ==
    /\ reader' = [reader EXCEPT ![r] = s]
    /\ UNCHANGED <<memtable, memtable_suppressed, segments, files, key_index,
                   next_segment_id>>

Finish(r, result) ==
    /\ Becomes(r, [reader[r] EXCEPT !.op = "done", !.out = result])
    /\ UNCHANGED <<count, history>>

\* The operation returns an error.
FailRead(r) ==
    /\ Becomes(r, [reader[r] EXCEPT !.op = "failed"])
    /\ UNCHANGED <<count, history>>

\* get, first lock: the index is asked for the key's address.
GetLocate(r, k) ==
    /\ reader[r].op \in {"idle", "done", "failed"}
    /\ Within("read", MaxReads)
    /\ Becomes(r, [Idle EXCEPT !.op = IF key_index[k] = None THEN "done" ELSE "get",
                               !.key = k, !.loc = key_index[k]])
    /\ held' = [held EXCEPT ![r] = {ValueOf(k)}]
    /\ moved' = [moved EXCEPT ![r] = {}]
    /\ expect' = [expect EXCEPT ![r] = {}]

\* Mutant: the ordinal is not looked up across all batches.
RowOfLastBatch(l) == memtable[Len(memtable)]

\* The concatenated batches' row at an ordinal.
RowOfBatches(l) == memtable[l.ord]

\* get, second lock, memtable address: the row at that ordinal now.
GetFromMemtable(r) ==
    /\ reader[r].op = "get" /\ reader[r].loc.src = 0
    /\ \/ memtable = <<>> /\ Finish(r, None)
       \/ reader[r].loc.ord \in DOMAIN memtable /\ Finish(r, RowOfBatches(reader[r].loc))
       \/ memtable # <<>> /\ reader[r].loc.ord \notin DOMAIN memtable /\ FailRead(r)

\* get, second lock, segment address: the entry is looked up, the lock dropped.
GetEntry(r) ==
    /\ reader[r].op = "get" /\ reader[r].loc.src > 0
    /\ IF reader[r].loc.src \in DOMAIN segments
       THEN /\ Becomes(r, [reader[r] EXCEPT !.op = "get_read"])
            /\ UNCHANGED <<count, history>>
       ELSE Finish(r, None)

\* get, no lock: the segment file is read; a missing file or row is an error.
GetFromSegment(r) ==
    LET l == reader[r].loc
    IN  /\ reader[r].op = "get_read"
        /\ IF l.src \in DOMAIN files /\ l.ord \in DOMAIN files[l.src]
           THEN Finish(r, files[l.src][l.ord])
           ELSE FailRead(r)

\* snapshot, one lock: memtable batches, bitmaps and segment entries.
Snapshot(r) ==
    /\ reader[r].op \in {"idle", "done", "failed"}
    /\ Within("read", MaxReads)
    /\ Becomes(r, [Idle EXCEPT !.op = "scan", !.todo = DOMAIN segments, !.out = {},
          !.snap = [memtable |-> memtable, suppressed |-> memtable_suppressed,
                    segments |-> segments]])
    /\ held' = [held EXCEPT ![r] = {}]
    /\ moved' = [moved EXCEPT ![r] = {}]
    /\ expect' = [expect EXCEPT ![r] = Table]

\* The rows that are not suppressed.
drop_suppressed(rows, suppressed) == { rows[i] : i \in DOMAIN rows \ suppressed }

\* scan_partition, no lock: the snapshot's next segment is read.
ScanSegment(r) ==
    LET s == Min(reader[r].todo)
    IN  /\ reader[r].op = "scan" /\ reader[r].todo # {}
        /\ IF s \in DOMAIN files
           THEN /\ Becomes(r, [reader[r] EXCEPT !.todo = @ \ {s},
                     !.out = @ \cup drop_suppressed(files[s], reader[r].snap.segments[s])])
                /\ UNCHANGED <<count, history>>
           ELSE FailRead(r)

ScanMemtable(r) ==
    /\ reader[r].op = "scan" /\ reader[r].todo = {}
    /\ Finish(r, reader[r].out
          \cup drop_suppressed(reader[r].snap.memtable, reader[r].snap.suppressed))

Write ==
    \/ \E k \in Keys, v \in Values : Upsert(k, v)
    \/ \E k \in Keys : Delete(k)
    \/ Flush
    \/ \E ids \in SUBSET DOMAIN segments : Compact(ids)

Read(r) ==
    \/ \E k \in Keys : GetLocate(r, k)
    \/ GetFromMemtable(r) \/ GetEntry(r) \/ GetFromSegment(r)
    \/ Snapshot(r) \/ ScanSegment(r) \/ ScanMemtable(r)

Next == Write \/ \E r \in Readers : Read(r)

Spec == Init /\ [][Next]_vars

-----------------------------------------------------------------------------
(* Properties.                                                             *)

GotRow(r)  == reader[r].op = "done" /\ reader[r].key # None
Scanned(r) == reader[r].op = "done" /\ reader[r].key = None
Failed(r)  == reader[r].op = "failed"

\* What a finished point lookup reports for its key.
Answer(r) == IF reader[r].out = None THEN None ELSE reader[r].out.val

\* A scan that completes returns the table as it was when the snapshot was
\* taken, whatever was written, flushed or compacted while it read; it fails
\* only when a compaction has deleted a file under it.
ScanIsSnapshot ==
    \A r \in Readers :
        /\ Scanned(r) => reader[r].out = expect[r]
        /\ Failed(r) /\ reader[r].key = None => "compact" \in moved[r]

\* A point lookup that no flush or compaction overlaps returns a row of the key
\* it was asked for, with a value the key had while the lookup ran.
GetIsCurrentIfUndisturbed ==
    \A r \in Readers : moved[r] = {} =>
        /\ ~Failed(r)
        /\ GotRow(r) => /\ reader[r].out # None => reader[r].out.key = reader[r].key
                        /\ Answer(r) \in held[r]

\* A lookup that compactions overlap, and no flush, may miss its row but never
\* returns another one: segment ids are not reused, so a stale address does not
\* lead into a different file.
GetIsRightUnlessFlushed ==
    \A r \in Readers : "flush" \notin moved[r] /\ GotRow(r) /\ reader[r].out # None =>
        reader[r].out.key = reader[r].key /\ reader[r].out.val \in held[r]

\* "Point lookup by primary key. Returns found rows": whatever runs beside it,
\* the row a lookup returns is one of the key it was asked for.
GetReturnsItsKey ==
    \A r \in Readers : GotRow(r) /\ reader[r].out # None => reader[r].out.key = reader[r].key

=============================================================================
