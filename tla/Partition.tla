----------------------------- MODULE Partition ------------------------------
(***************************************************************************)
(* One partition of a table with a primary key (adb-storage, table.rs):    *)
(* write-ahead log, memtable, key index, immutable segments and manifest,  *)
(* with flush and compaction cut at every point where the process can die  *)
(* or a file operation can fail, and recovery from what the disk then      *)
(* holds.  The bytes of the log are module Wal's; here `wal' is the set of *)
(* records a reader of the file gets, and `tail' what keeps the next ones  *)
(* from it: a partial frame left by a failed write, or a writer that was   *)
(* not re-pointed after a truncation.                                      *)
(*                                                                         *)
(* Everything here runs under the partition's write lock, so one operation *)
(* is in progress at a time and `pc' says how far it is.  Row ordinals are *)
(* 1-based (0-based in the code).  A row is addressed by a locator, whose  *)
(* source is 0 for the memtable and the segment id (ids start at 1)        *)
(* otherwise.                                                              *)
(***************************************************************************)
EXTENDS Compaction, Sequences

CONSTANTS
    Keys, Values,        \* primary keys, and the payload of a row
    None,                \* "no such row"
    Batches,             \* the batches a caller may write
    MemtableMaxRows,     \* StorageConfig.memtable_max_rows
    AutoCompact,         \* StorageConfig.auto_compact
    Faults,              \* the file operations that may fail
    MaxLsn, MaxCrashes, MaxFaults      \* bounds on the exploration

Row     == [key : Keys, val : Values]
Locator == [src : Nat, ord : Nat \ {0}]
Record  == [lsn : Nat \ {0}, rows : Seq(Row), keys : SUBSET Keys]

FaultKinds == {"write", "sync", "segment", "manifest", "truncate", "reopen", "delete"}

ASSUME PartitionAssumption ==
    /\ None \notin Values
    /\ None \notin Locator \cup Record
    /\ Batches \subseteq Seq(Row) \ {<<>>}
    /\ MemtableMaxRows \in Nat \ {0}
    /\ AutoCompact \in BOOLEAN
    /\ Faults \subseteq FaultKinds
    /\ {MaxLsn, MaxCrashes, MaxFaults} \subseteq Nat

VARIABLES
    \* on disk
    wal,         \* the records that a scan of the log returns, ordered by lsn
    tail,        \* what comes after them: see Tails
    manifest,    \* [applied, next, segs]: the checkpoint
    files,       \* segment id -> its rows; <<>> is a file cut short
    \* PartitionState
    memtable, memtable_suppressed,
    segments,    \* segment id -> its suppressed ordinals
    key_index,   \* key -> locator, or None
    applied_lsn, last_lsn, next_segment_id,
    next_lsn,    \* of the FileLogStore
    \* control
    pc,
    pending,     \* the record between append and apply
    inputs,      \* the segments the running compaction merged
    crashes, faults,
    \* history
    truth,       \* what the last applied write or delete left at each key
    limbo,       \* lsns of logged records whose append was not acknowledged
    stray        \* applied records that no scan of the log returns

disk   == <<wal, tail, manifest, files>>
memory == <<memtable, memtable_suppressed, segments, key_index,
            applied_lsn, last_lsn, next_segment_id>>
vars   == <<disk, memory, next_lsn, pc, pending, inputs, crashes, faults,
            truth, limbo, stray>>

-----------------------------------------------------------------------------
(* Rows, records and where rows live.                                      *)

KeysOf(rows) == { rows[i].key : i \in DOMAIN rows }

\* "torn": a partial frame at the end of the file; "buried": frames behind one;
\* "unlinked": the writer's handle is on a file that is no longer at the path.
Tails == {"whole", "torn", "buried", "unlinked"}

\* The greatest number of a set.
Highest(S) == CHOOSE i \in S : \A j \in S : j <= i

LastOf(rows, k) == Highest({ i \in DOMAIN rows : rows[i].key = k })

Touches(r) == r.keys \cup KeysOf(r.rows)

\* What replaying r leaves at a key it touches.
Effect(r, k) == IF k \in KeysOf(r.rows) THEN r.rows[LastOf(r.rows, k)].val ELSE None

MaxOf(a, b) == IF a >= b THEN a ELSE b

RowAt(l) == IF l.src = 0 THEN memtable[l.ord] ELSE files[l.src][l.ord]

\* Mutant: suppressed rows are not left out.
MemtableLocsAll == { [src |-> 0, ord |-> o] : o \in DOMAIN memtable }

MemtableLocs == { [src |-> 0, ord |-> o] : o \in DOMAIN memtable \ memtable_suppressed }

SegmentLocs(segs, ids) ==
    UNION { { [src |-> s, ord |-> o] : o \in DOMAIN files[s] \ segs[s] }
                : s \in ids \cap DOMAIN files }

\* Every row a scan of the partition returns.
Visible == MemtableLocs \cup SegmentLocs(segments, DOMAIN segments)

LocLess(l, m) == l.src < m.src \/ (l.src = m.src /\ l.ord < m.ord)

\* The enumeration of a set of locators in scan order, as a singleton set.
Orderings(locs) ==
    { f \in [1 .. Cardinality(locs) -> locs] :
        \A i, j \in DOMAIN f : i < j => LocLess(f[i], f[j]) }

Latest(locs) == CHOOSE l \in locs : \A m \in locs : m = l \/ LocLess(m, l)

-----------------------------------------------------------------------------
(* What the disk would recover to: the manifest's segments, overridden by  *)
(* the last record above applied_lsn that touches the key.                 *)

Checkpointed(k) ==
    { l \in SegmentLocs(manifest.segs, DOMAIN manifest.segs) : RowAt(l).key = k }

LogTail(k) == { r \in wal : r.lsn > manifest.applied /\ k \in Touches(r) }

LastRecord(recs) == CHOOSE r \in recs : \A q \in recs : q.lsn <= r.lsn

Recovered(k) ==
    IF LogTail(k) # {} THEN Effect(LastRecord(LogTail(k)), k)
    ELSE IF Checkpointed(k) # {} THEN RowAt(Latest(Checkpointed(k))).val
    ELSE None

-----------------------------------------------------------------------------

Init ==
    /\ wal = {} /\ tail = "whole" /\ files = <<>>
    /\ manifest = [applied |-> 0, next |-> 1, segs |-> <<>>]
    /\ memtable = <<>> /\ memtable_suppressed = {} /\ segments = <<>>
    /\ key_index = [k \in Keys |-> None]
    /\ applied_lsn = 0 /\ last_lsn = 0 /\ next_segment_id = 1 /\ next_lsn = 1
    /\ pc = "idle" /\ pending = None /\ inputs = {}
    /\ crashes = 0 /\ faults = 0
    /\ truth = [k \in Keys |-> None] /\ limbo = {} /\ stray = {}

\* A file operation returns an error.
Fail(kind) ==
    /\ kind \in Faults
    /\ faults < MaxFaults
    /\ faults' = faults + 1

\* ... and the operation in progress gives up and returns it.
Abort ==
    /\ pc' = "idle" /\ inputs' = {} /\ pending' = None

(* Writing: log, then apply. ---------------------------------------------- *)

\* A frame, or a part of one, behind a partial frame.
Buried == IF tail = "torn" THEN "buried" ELSE tail

\* FileLogStore::append of one mutation: the lsn is taken first, so a failed
\* append leaves a gap.  A whole frame is found again only on a whole log.  A
\* failed fsync leaves it in the file; a failed write leaves nothing, or a part
\* of the frame.
Log(rows, keys) ==
    LET r == [lsn |-> next_lsn, rows |-> rows, keys |-> keys]
        Written ==
            /\ wal' = IF tail = "whole" THEN wal \cup {r} ELSE wal
            /\ tail' = Buried
            /\ limbo' = limbo \cup {r.lsn}
    IN  /\ next_lsn <= MaxLsn
        /\ next_lsn' = next_lsn + 1
        /\ \/ Written /\ pending' = r /\ pc' = "apply" /\ UNCHANGED <<faults, inputs>>
           \/ Fail("sync") /\ Abort /\ Written
           \/ Fail("write") /\ Abort
              /\ tail' \in {tail, IF tail = "whole" THEN "torn" ELSE Buried}
              /\ UNCHANGED <<wal, limbo>>
        /\ UNCHANGED <<manifest, files, memory, crashes, truth, stray>>

\* TableStore::insert: refused when the batch repeats a key or one exists.
Insert(rows) ==
    /\ pc = "idle"
    /\ Cardinality(KeysOf(rows)) = Len(rows)
    /\ \A k \in KeysOf(rows) : key_index[k] = None
    /\ Log(rows, {})

Upsert(rows) == pc = "idle" /\ Log(rows, {})

\* delete_keys: only the keys that are present are logged.
Delete(keys) ==
    LET present == { k \in keys : key_index[k] # None }
    IN  /\ pc = "idle"
        /\ present # {}
        /\ Log(<<>>, present)

\* Mutants: ordinals off by one, and segment rows not suppressed.
DisplacedOffByOne(keys, s) ==
    { key_index[k].ord - 1 : k \in { j \in keys : key_index[j] # None /\ key_index[j].src = s } }
DisplacedInMemtable(keys, s) ==
    { key_index[k].ord : k \in { j \in keys : s = 0 /\ key_index[j] # None /\ key_index[j].src = 0 } }

\* suppress: the ordinals in source s that the keys are displaced from.
Displaced(keys, s) ==
    { key_index[k].ord : k \in { j \in keys : key_index[j] # None /\ key_index[j].src = s } }

\* apply_rows and apply_deletes: the closed form of their loops over the rows
\* or the keys of a record.
ApplyEntry(r) ==
    LET start == Len(memtable)
    IN  /\ key_index' = [k \in Keys |->
              IF k \in KeysOf(r.rows) THEN [src |-> 0, ord |-> start + LastOf(r.rows, k)]
              ELSE IF k \in r.keys THEN None ELSE key_index[k]]
        /\ memtable_suppressed' = memtable_suppressed \cup Displaced(Touches(r), 0)
              \cup { start + i : i \in { j \in DOMAIN r.rows :
                                          j # LastOf(r.rows, r.rows[j].key) } }
        /\ segments' = [s \in DOMAIN segments |-> segments[s] \cup Displaced(Touches(r), s)]
        /\ memtable' = memtable \o r.rows
        /\ last_lsn' = MaxOf(last_lsn, r.lsn)
        /\ UNCHANGED <<applied_lsn, next_segment_id>>

\* should_flush is consulted after rows, never after deletes.
Apply ==
    /\ pc = "apply"
    /\ ApplyEntry(pending)
    /\ truth' = [k \in Keys |-> IF k \in Touches(pending) THEN Effect(pending, k) ELSE truth[k]]
    /\ limbo' = limbo \ {pending.lsn}
    /\ stray' = IF pending \in wal THEN stray ELSE stray \cup {pending}
    /\ pending' = None
    /\ pc' = IF pending.rows # <<>> /\ Len(memtable') >= MemtableMaxRows
             THEN "flush" ELSE "idle"
    /\ UNCHANGED <<disk, next_lsn, inputs, crashes, faults>>

(* Flush: segment file, manifest, log prefix. ----------------------------- *)

Flush ==
    /\ pc = "idle"
    /\ memtable # <<>> \/ last_lsn # applied_lsn
    /\ pc' = "flush"
    /\ UNCHANGED <<disk, memory, next_lsn, pending, inputs, crashes, faults, truth, limbo, stray>>

\* A segment file with the rows of `order' and the index following them; a key
\* that no longer points at its row is left where it is (KeyIndex::relocate).
WriteSegment(order) ==
    /\ files' = [s \in DOMAIN files \cup {next_segment_id} |->
          IF s = next_segment_id THEN [i \in DOMAIN order |-> RowAt(order[i])] ELSE files[s]]
    /\ key_index' = [k \in Keys |->
          IF \E i \in DOMAIN order : order[i] = key_index[k] /\ RowAt(order[i]).key = k
          THEN [src |-> next_segment_id,
                ord |-> CHOOSE i \in DOMAIN order : order[i] = key_index[k]]
          ELSE key_index[k]]

\* A segment write that does not complete leaves a file cut short.
CutShort ==
    files' = [s \in DOMAIN files \cup {next_segment_id} |->
                IF s = next_segment_id THEN <<>> ELSE files[s]]

\* The write returns an error: nothing in memory has changed yet.
SegmentWriteFails ==
    Fail("segment") /\ Abort /\ CutShort /\ UNCHANGED memory

FlushSegment ==
    /\ pc = "flush"
    /\ \/ MemtableLocs # {} /\ SegmentWriteFails
       \/ /\ IF MemtableLocs = {}
             THEN UNCHANGED <<files, key_index, segments, next_segment_id>>
             ELSE /\ \E order \in Orderings(MemtableLocs) : WriteSegment(order)
                  /\ segments' = [s \in DOMAIN segments \cup {next_segment_id} |->
                                    IF s = next_segment_id THEN {} ELSE segments[s]]
                  /\ next_segment_id' = next_segment_id + 1
          /\ memtable' = <<>> /\ memtable_suppressed' = {}
          /\ applied_lsn' = last_lsn
          /\ pc' = "commit"
          /\ UNCHANGED <<last_lsn, pending, inputs, faults>>
    /\ UNCHANGED <<wal, tail, manifest, next_lsn, crashes, truth, limbo, stray>>

\* Mutants: everything applied counts as checkpointed; the id counter is not saved.
ManifestNowEager == [applied |-> last_lsn, next |-> next_segment_id, segs |-> segments]
ManifestNowStale == [applied |-> applied_lsn, next |-> manifest.next, segs |-> segments]

\* The manifest commit_manifest builds from the state.
ManifestNow == [applied |-> applied_lsn, next |-> next_segment_id, segs |-> segments]

\* put_atomic of the manifest: the old one survives a failure, unless it is the
\* last step, the fsync of the directory, that fails.
CommitManifest(from, to) ==
    /\ pc = from
    /\ \/ /\ manifest' = ManifestNow
          /\ pc' = to
          /\ UNCHANGED <<pending, inputs, faults>>
       \/ Fail("manifest") /\ Abort /\ manifest' \in {manifest, ManifestNow}
    /\ UNCHANGED <<wal, tail, files, memory, next_lsn, crashes, truth, limbo, stray>>

FlushCommit == CommitManifest("commit", "truncate")

segment_facts ==
    { [id |-> s, rows |-> Len(files[s]), bytes |-> Len(files[s]),
       suppressed |-> Cardinality(segments[s])] : s \in DOMAIN segments }

\* truncate_prefix: the records that a scan returns, without the checkpointed
\* prefix, are renamed over the log and the writer is re-pointed; then, with
\* auto_compact, the policy is asked.  The scan may report frames behind a
\* partial one as corruption, any step before the rename may fail, and so may
\* the reopen after it.
FlushTruncate ==
    /\ pc = "truncate"
    /\ \/ /\ wal' = { r \in wal : r.lsn > applied_lsn } /\ tail' = "whole"
          /\ pc' = IF AutoCompact /\ select(segment_facts) # {} THEN "compact" ELSE "idle"
          /\ UNCHANGED <<pending, inputs, faults>>
       \/ tail = "buried" /\ Abort /\ UNCHANGED <<wal, tail, faults>>
       \/ Fail("truncate") /\ Abort /\ UNCHANGED <<wal, tail>>
       \/ Fail("reopen") /\ Abort
          /\ wal' = { r \in wal : r.lsn > applied_lsn } /\ tail' = "unlinked"
    /\ UNCHANGED <<manifest, files, memory, next_lsn, crashes, truth, limbo, stray>>

(* Compaction: merged segment, manifest, old files. ------------------------ *)

Compact ==
    /\ pc = "idle"
    /\ select(segment_facts) # {}
    /\ pc' = "compact"
    /\ UNCHANGED <<disk, memory, next_lsn, pending, inputs, crashes, faults, truth, limbo, stray>>

CompactMerge ==
    LET ids  == select(segment_facts)
        kept == SegmentLocs(segments, ids)
    IN  /\ pc = "compact"
        /\ \/ kept # {} /\ SegmentWriteFails
           \/ /\ IF kept = {}
                 THEN UNCHANGED <<files, key_index>>
                 ELSE \E order \in Orderings(kept) : WriteSegment(order)
              /\ segments' = [s \in (DOMAIN segments \ ids)
                                    \cup (IF kept = {} THEN {} ELSE {next_segment_id}) |->
                                IF s = next_segment_id THEN {} ELSE segments[s]]
              /\ next_segment_id' = next_segment_id + 1
              /\ inputs' = ids
              /\ pc' = "compact_commit"
              /\ UNCHANGED <<memtable, memtable_suppressed, applied_lsn, last_lsn, pending, faults>>
        /\ UNCHANGED <<wal, tail, manifest, next_lsn, crashes, truth, limbo, stray>>

CompactCommit == CommitManifest("compact_commit", "delete")

DeleteFile(s) ==
    /\ files' = [t \in DOMAIN files \ {s} |-> files[t]]
    /\ inputs' = inputs \ {s}

\* Mutant: old files go before the manifest that drops them is committed.
CompactDeleteFirst ==
    /\ pc = "compact_commit" /\ inputs # {}
    /\ \E s \in inputs : DeleteFile(s)
    /\ UNCHANGED <<pc, pending, faults, wal, tail, manifest, memory, next_lsn, crashes, truth, limbo, stray>>

\* Old files go one by one, in id order; a failure leaves the rest behind.
CompactDelete ==
    /\ pc = "delete"
    /\ \/ /\ \E s \in inputs : DeleteFile(s) /\ \A t \in inputs : s <= t
          /\ pc' = IF inputs' = {} THEN "idle" ELSE "delete"
          /\ UNCHANGED <<pending, faults>>
       \/ Fail("delete") /\ Abort /\ UNCHANGED files
    /\ UNCHANGED <<wal, tail, manifest, memory, next_lsn, crashes, truth, limbo, stray>>

(* Crash and recovery. ----------------------------------------------------- *)

\* The process dies, perhaps while it writes a segment file, or a frame (which
\* matters only behind another partial one); every record that a scan of the log
\* returns counts from here on.  Memory is gone.
Crash ==
    /\ pc # "down"
    /\ crashes < MaxCrashes
    /\ crashes' = crashes + 1
    /\ pc' = "down" /\ pending' = None /\ inputs' = {}
    /\ \/ UNCHANGED files
       \/ pc \in {"flush", "compact"} /\ CutShort
    /\ memtable' = <<>> /\ memtable_suppressed' = {} /\ segments' = <<>>
    /\ key_index' = [k \in Keys |-> None]
    /\ applied_lsn' = 0 /\ last_lsn' = 0 /\ next_segment_id' = 1 /\ next_lsn' = 1
    /\ truth' = [k \in Keys |-> Recovered(k)]
    /\ limbo' = {} /\ stray' = {}
    /\ \/ UNCHANGED tail
       \/ pc = "idle" /\ tail' = Buried
    /\ UNCHANGED <<wal, manifest, faults>>

\* Mutants: orphans are kept; the log alone says which lsns were used.
AllFiles == DOMAIN files
LoggedLsns == { r.lsn : r \in wal } \cup {0}

\* The segment files open() keeps: the others are orphans.
Referenced == DOMAIN files \cap DOMAIN manifest.segs

\* The lsns in the log, and what advance_to adds to them.
UsedLsns == { r.lsn : r \in wal } \cup {manifest.applied}

\* Partition::open up to the replay: orphans deleted, the key index rebuilt
\* from the segments in id order, what follows the log's records cut off, and
\* the log positioned after everything the manifest covers (advance_to).  A
\* segment it cannot read fails the open.
Open ==
    /\ pc = "down"
    /\ \A s \in DOMAIN manifest.segs : s \in DOMAIN files /\ files[s] # <<>>
    /\ files' = [s \in Referenced |-> files[s]]
    /\ tail' = "whole"
    /\ memtable' = <<>> /\ memtable_suppressed' = {}
    /\ segments' = manifest.segs
    /\ key_index' = [k \in Keys |->
          IF Checkpointed(k) = {} THEN None ELSE Latest(Checkpointed(k))]
    /\ applied_lsn' = manifest.applied /\ last_lsn' = manifest.applied
    /\ next_segment_id' = manifest.next
    /\ next_lsn' = Highest(UsedLsns) + 1
    /\ pc' = "replay"
    /\ UNCHANGED <<wal, manifest, pending, inputs, crashes, faults, truth, limbo, stray>>

\* Frames behind a partial one may be reported as corruption instead, and the
\* table does not open.
OpenRefused ==
    /\ pc = "down" /\ tail = "buried"
    /\ files' = [s \in Referenced |-> files[s]]
    /\ UNCHANGED <<wal, tail, manifest, memory, next_lsn, pc, pending, inputs, crashes, faults,
                   truth, limbo, stray>>

\* Mutant: the records are replayed from the newest.
NewestOf(todo) == CHOOSE r \in todo : \A q \in todo : q.lsn <= r.lsn

\* The record replayed next.
OldestOf(todo) == CHOOSE r \in todo : \A q \in todo : r.lsn <= q.lsn

\* apply_entry on the next record above applied_lsn, or the end of open.
Replay ==
    LET todo == { r \in wal : r.lsn > last_lsn }
    IN  /\ pc = "replay"
        /\ IF todo = {}
           THEN pc' = "idle" /\ UNCHANGED memory
           ELSE /\ ApplyEntry(OldestOf(todo))
                /\ UNCHANGED pc
        /\ UNCHANGED <<disk, next_lsn, pending, inputs, crashes, faults, truth, limbo, stray>>

Request ==
    \/ \E b \in Batches : Insert(b) \/ Upsert(b)
    \/ \E ks \in SUBSET Keys : Delete(ks)
    \/ Flush
    \/ Compact

Step ==
    \/ Apply
    \/ FlushSegment \/ FlushCommit \/ FlushTruncate
    \/ CompactMerge \/ CompactCommit \/ CompactDelete
    \/ Open \/ OpenRefused \/ Replay

Next == Request \/ Step \/ Crash

Spec == Init /\ [][Next]_vars

\* The thread that holds the lock keeps running and a crashed process is
\* restarted; nothing forces callers to call, or the process to crash.
FairSpec == Spec /\ WF_vars(Step)

-----------------------------------------------------------------------------
(* Properties.                                                             *)

ControlStates == {"idle", "apply", "flush", "commit", "truncate", "compact",
                  "compact_commit", "delete", "down", "replay"}

\* Types of the durable files, of PartitionState and of the control state.
TypeOK ==
    /\ wal \cup stray \subseteq Record /\ tail \in Tails
    /\ DOMAIN manifest = {"applied", "next", "segs"}
    /\ manifest.applied \in Nat /\ manifest.next \in Nat \ {0}
    /\ DOMAIN manifest.segs \subseteq Nat \ {0}
    /\ \A s \in DOMAIN manifest.segs : manifest.segs[s] \subseteq Nat \ {0}
    /\ DOMAIN files \subseteq Nat \ {0}
    /\ \A s \in DOMAIN files : files[s] \in Seq(Row)
    /\ memtable \in Seq(Row) /\ memtable_suppressed \subseteq Nat \ {0}
    /\ DOMAIN segments \subseteq Nat \ {0}
    /\ \A s \in DOMAIN segments : segments[s] \subseteq Nat \ {0}
    /\ key_index \in [Keys -> Locator \cup {None}]
    /\ {applied_lsn, last_lsn} \subseteq Nat
    /\ {next_segment_id, next_lsn} \subseteq Nat \ {0}
    /\ pc \in ControlStates
    /\ pending \in Record \cup {None}
    /\ inputs \subseteq Nat \ {0}
    /\ {crashes, faults} \subseteq Nat
    /\ truth \in [Keys -> Values \cup {None}]
    /\ limbo \subseteq Nat \ {0}

\* What a caller reads at a key through the key index.
Served(k) == IF key_index[k] = None THEN None ELSE RowAt(key_index[k]).val

\* A write of k was acknowledged on a damaged log, and no checkpoint covers it.
Exposed(k) == \E r \in stray : r.lsn > manifest.applied /\ k \in Touches(r)

\* Wherever the process dies, in the middle of a write, a flush or a compaction
\* and after any failed file operation, open() finds on disk what the last
\* acknowledged write left at each key (flush_locked: "never a gap").  It may
\* find a later record that was logged but never acknowledged, and it need not
\* find what was acknowledged behind a partial frame or on an unlinked file,
\* until a manifest covers it.
Durable ==
    \A k \in Keys :
        \/ Recovered(k) = truth[k]
        \/ LogTail(k) # {} /\ LastRecord(LogTail(k)).lsn \in limbo
        \/ Exposed(k)

\* The key index addresses each live key's one visible row, and no other row is
\* visible: a scan, which reads segments and suppression bitmaps, and a point
\* lookup, which reads the index, see the same table through every relocation.
IndexExact ==
    \A k \in Keys :
        { l \in Visible : RowAt(l).key = k }
            = (IF key_index[k] = None THEN {} ELSE {key_index[k]})

\* Whatever flushes, compactions, failures and restarts came in between, an open
\* partition serves the last acknowledged write of each key.
ServesTruth ==
    pc \notin {"down", "replay"} => \A k \in Keys : Served(k) = truth[k]

\* Every segment the manifest references is a complete file, at every instant:
\* segment before manifest, manifest before deletion.  Otherwise open() fails
\* and the table is gone.
ManifestComplete ==
    \A s \in DOMAIN manifest.segs : s \in DOMAIN files /\ files[s] # <<>>

\* Without failed file operations no segment file is left behind: interrupted
\* flushes and compactions are cleaned up by open().
NoOrphans ==
    faults = 0 /\ pc = "idle" => DOMAIN files = DOMAIN segments

\* A new record's lsn is above the checkpoint and every record in the log, also
\* after the log was truncated and the process restarted (advance_to): a reused
\* lsn would be skipped by the next recovery.
FreshLsn ==
    [][\A r \in wal' \ wal :
          r.lsn > manifest.applied /\ \A q \in wal : q.lsn < r.lsn]_vars

\* Segments are immutable: no step changes or removes a file that the manifest
\* references before and after it.
ImmutableSegments ==
    [][\A s \in DOMAIN manifest.segs \cap DOMAIN manifest'.segs \cap DOMAIN files :
          s \in DOMAIN files' /\ files'[s] = files[s]]_vars

-----------------------------------------------------------------------------
(* The abstract map a partition implements.                                *)

Doubtful(k) == LogTail(k) \ {pending}

InDoubt == { k \in Keys : Doubtful(k) # {} /\ LastRecord(Doubtful(k)).lsn \in limbo }

Stored == [k \in Keys |-> IF pc \in {"down", "replay"} THEN Recovered(k) ELSE Served(k)]

InProgress == IF pending = None THEN <<>> ELSE [k \in Touches(pending) |-> Effect(pending, k)]

Surfacing == [k \in InDoubt |-> Effect(LastRecord(Doubtful(k)), k)]

Damaged == tail # "whole"

Exposure == [k \in { j \in Keys : Exposed(j) } |-> Recovered(k)]

Abstract == INSTANCE KeyedStore WITH
    store <- Stored, current <- InProgress, doubt <- Surfacing,
    damaged <- Damaged, exposed <- Exposure

\* Log, memtable, flush, compaction and recovery together implement the map of
\* KeyedStore: a batch becomes visible in one step, flush and compaction change
\* nothing a caller can see, and a restart loses no acknowledged write but those
\* a damaged log exposes.
ImplementsKeyedStore == Abstract!Spec

\* Every write, flush, compaction and recovery comes to an end: the write lock
\* is released again and again, unless frames behind a partial one keep the
\* table from opening.
LockReleased == []<>(pc = "idle" \/ (pc = "down" /\ tail = "buried"))

=============================================================================
