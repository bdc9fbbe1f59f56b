--------------------------- MODULE PartitionProofs --------------------------
(***************************************************************************)
(* Proofs about module Partition, for every set of keys, values and        *)
(* batches, every configuration and every number of crashes and failed     *)
(* file operations, in three parts:                                        *)
(*   1. types, lsns, segment ids and files (Inv);                          *)
(*   2. the key index and the suppression bitmaps describe one table, and  *)
(*      no segment file is left behind (IndexInv, OrphanInv);              *)
(*   3. what a partition serves and what its disk would recover to are the *)
(*      last acknowledged writes, and log, memtable, segments, flush,      *)
(*      compaction and recovery together implement module KeyedStore       *)
(*      (RecoveryInv).                                                     *)
(***************************************************************************)
EXTENDS Partition, FiniteSetTheorems, WellFoundedInduction, TLAPS

-----------------------------------------------------------------------------
(***************************************************************************)
(* Part 1: types, lsns, segment ids and files.                             *)
(***************************************************************************)

-----------------------------------------------------------------------------
(* Least and greatest elements: the CHOOSEs of the model have a witness.   *)

\* A nonempty set of naturals has a least element.
LEMMA LeastExists ==
    ASSUME NEW S, S \subseteq Nat, S # {}
    PROVE  \E x \in S : \A y \in S : x <= y
<1>1. IsWellFoundedOn(OpToRel(<, Nat), Nat)
  BY NatLessThanWellFounded
<1>2. PICK x \in S : \A y \in S : ~(<<y, x>> \in OpToRel(<, Nat))
  BY <1>1, WFMin, Zenon
<1>3. ASSUME NEW y \in S PROVE x <= y
  <2>1. <<y, x>> \in Nat \X Nat
    OBVIOUS
  <2>2. ~(y < x)
    BY <1>2, <2>1 DEF OpToRel
  <2> QED
    BY <2>2
<1> QED
  BY <1>3

\* A nonempty set of naturals with an upper bound has a greatest element.
LEMMA GreatestExists ==
    ASSUME NEW S, NEW n \in Nat, S \subseteq 0 .. n, S # {}
    PROVE  \E x \in S : \A y \in S : y <= x
<1> DEFINE T == { n - i : i \in S }
<1>1. T \subseteq Nat /\ T # {}
  OBVIOUS
<1>2. PICK t \in T : \A u \in T : t <= u
  BY <1>1, LeastExists, Zenon
<1>3. PICK x \in S : t = n - x
  OBVIOUS
<1>4. ASSUME NEW y \in S PROVE y <= x
  <2>1. n - y \in T
    OBVIOUS
  <2>2. n - x <= n - y
    BY <1>2, <1>3, <2>1
  <2> QED
    BY <2>2
<1> QED
  BY <1>4

\* Highest is the greatest element of such a set.
LEMMA HighestIsGreatest ==
    ASSUME NEW S, NEW n \in Nat, S \subseteq 0 .. n, S # {}
    PROVE  Highest(S) \in S /\ \A y \in S : y <= Highest(S)
<1>1. \E x \in S : \A y \in S : y <= x
  BY GreatestExists, Zenon
<1> QED
  BY <1>1, Zenon DEF Highest

\* The last row of a key is a row of that key.
LEMMA LastOfIsARow ==
    ASSUME NEW rows \in Seq(Row), NEW k \in KeysOf(rows)
    PROVE  LastOf(rows, k) \in DOMAIN rows /\ rows[LastOf(rows, k)].key = k
<1> DEFINE S == { i \in DOMAIN rows : rows[i].key = k }
<1>1. S \subseteq 0 .. Len(rows) /\ S # {} /\ Len(rows) \in Nat
  BY DEF KeysOf
<1>2. Highest(S) \in S
  BY <1>1, HighestIsGreatest, Zenon
<1> QED
  BY <1>2 DEF LastOf

\* What a record leaves at a key is a value or nothing.
LEMMA EffectType ==
    ASSUME NEW r \in Record, NEW k
    PROVE  Effect(r, k) \in Values \cup {None}
<1>1. CASE k \in KeysOf(r.rows)
  <2>1. LastOf(r.rows, k) \in DOMAIN r.rows
    BY <1>1, LastOfIsARow DEF Record
  <2>2. r.rows[LastOf(r.rows, k)] \in Row
    BY <2>1 DEF Record
  <2> QED
    BY <1>1, <2>2 DEF Effect, Row
<1>2. CASE k \notin KeysOf(r.rows)
  BY <1>2 DEF Effect
<1> QED
  BY <1>1, <1>2

\* A policy decision names segments it was told about.
LEMMA SelectsFacts ==
    ASSUME NEW facts
    PROVE  select(facts) \subseteq { f.id : f \in facts }
<1>1. ASSUME NEW ahead PROVE TakeWhileAffordable(ahead) \subseteq DOMAIN ahead
  BY DEF TakeWhileAffordable
<1>2. TakeWhileAffordable(ByAge({f \in facts : IsDead(f)})) \subseteq facts
  BY <1>1 DEF ByAge
<1>3. TakeWhileAffordable(BySize(facts)) \subseteq facts
  BY <1>1 DEF BySize
<1> QED
  BY <1>2, <1>3 DEF select

-----------------------------------------------------------------------------
(* The inductive invariant.                                                *)

\* Every lsn in use is below the log's counter, which the bound keeps finite.
LsnInv ==
    /\ \A r \in wal : r.lsn <= MaxLsn
    /\ pc = "apply" => pending \in Record /\ pending.lsn < next_lsn
    /\ pc # "down" =>
          /\ \A r \in wal : r.lsn < next_lsn
          /\ manifest.applied < next_lsn
          /\ applied_lsn < next_lsn
          /\ last_lsn < next_lsn

\* The next segment id is above every id in memory and in the manifest.
IdInv ==
    /\ \A s \in DOMAIN manifest.segs : s < manifest.next
    /\ pc # "down" =>
          /\ manifest.next <= next_segment_id
          /\ \A s \in DOMAIN segments : s < next_segment_id

\* The segments in memory and in the manifest are complete files, and the files
\* a compaction is about to delete are in neither.
FileInv ==
    /\ ManifestComplete
    /\ \A s \in DOMAIN segments : s \in DOMAIN files /\ files[s] # <<>>
    /\ pc \in {"compact_commit", "delete"} => inputs \cap DOMAIN segments = {}
    /\ pc = "delete" => inputs \cap DOMAIN manifest.segs = {}
    /\ pc = "down" => DOMAIN segments = {}

Inv == TypeOK /\ LsnInv /\ IdInv /\ FileInv

-----------------------------------------------------------------------------
(* Where rows live.                                                        *)

\* The ordinals of one source name finitely many locators.
LEMMA LocsOfOneSource ==
    ASSUME NEW src, NEW D, IsFiniteSet(D)
    PROVE  IsFiniteSet({ [src |-> src, ord |-> o] : o \in D })
<1> DEFINE L == { [src |-> src, ord |-> o] : o \in D }
           f == [o \in D |-> [src |-> src, ord |-> o]]
<1>1. f \in Surjection(D, L)
  BY DEF Surjection
<1> QED
  BY <1>1, FS_Surjection, Zenon

\* A sequence has finitely many positions.
LEMMA PositionsFinite ==
    ASSUME NEW T, NEW q \in Seq(T), NEW D, D \subseteq DOMAIN q
    PROVE  IsFiniteSet(D)
<1>1. DOMAIN q = 1 .. Len(q) /\ Len(q) \in Int
  OBVIOUS
<1>2. IsFiniteSet(DOMAIN q)
  BY <1>1, FS_Interval
<1> QED
  BY <1>2, FS_Subset, Zenon

\* The visible rows of the memtable: finitely many rows.
LEMMA MemtableLocsRows ==
    ASSUME TypeOK
    PROVE  /\ IsFiniteSet(MemtableLocs)
           /\ \A l \in MemtableLocs : RowAt(l) \in Row
<1>1. memtable \in Seq(Row)
  BY DEF TypeOK
<1>2. IsFiniteSet(DOMAIN memtable \ memtable_suppressed)
  BY <1>1, PositionsFinite
<1>3. IsFiniteSet(MemtableLocs)
  BY <1>2, LocsOfOneSource DEF MemtableLocs
<1>4. \A l \in MemtableLocs : RowAt(l) \in Row
  BY <1>1 DEF MemtableLocs, RowAt
<1> QED
  BY <1>3, <1>4

\* A visible row of a segment is a row of its file.
LEMMA SegmentLocIsRow ==
    ASSUME TypeOK, NEW segs, NEW ids, NEW l \in SegmentLocs(segs, ids)
    PROVE  /\ l.src \in ids /\ l.src \in DOMAIN files
           /\ l.ord \in DOMAIN files[l.src]
           /\ l.ord \in Nat \ {0} /\ l.ord <= Len(files[l.src])
           /\ l \in Locator
           /\ RowAt(l) = files[l.src][l.ord]
           /\ RowAt(l) \in Row
<1>1. PICK s \in ids \cap DOMAIN files :
          l \in { [src |-> s, ord |-> o] : o \in DOMAIN files[s] \ segs[s] }
  BY DEF SegmentLocs
<1>2. PICK o \in DOMAIN files[s] : l = [src |-> s, ord |-> o]
  BY <1>1
<1>3. s \in Nat \ {0} /\ files[s] \in Seq(Row)
  BY DEF TypeOK
<1>4. o \in Nat \ {0} /\ o <= Len(files[s]) /\ files[s][o] \in Row
  BY <1>2, <1>3
<1> QED
  BY <1>2, <1>3, <1>4 DEF Locator, RowAt

\* Finitely many segments hold finitely many visible rows.
LEMMA SegmentLocsFinite ==
    ASSUME TypeOK, NEW segs, NEW ids, NEW n \in Nat, ids \subseteq 1 .. n
    PROVE  IsFiniteSet(SegmentLocs(segs, ids))
<1> DEFINE D == ids \cap DOMAIN files
           LocsIn(s) == { [src |-> s, ord |-> o] : o \in DOMAIN files[s] \ segs[s] }
           All == { LocsIn(s) : s \in D }
           f == [s \in D |-> LocsIn(s)]
<1>1. IsFiniteSet(D)
  <2>1. IsFiniteSet(1 .. n)
    BY FS_Interval
  <2> QED
    BY <2>1, FS_Subset, Zenon
<1>2. IsFiniteSet(All)
  <2>1. f \in Surjection(D, All)
    BY DEF Surjection
  <2> QED
    BY <1>1, <2>1, FS_Surjection, Zenon
<1>3. ASSUME NEW L \in All PROVE IsFiniteSet(L)
  <2>1. PICK s \in D : L = LocsIn(s)
    OBVIOUS
  <2>2. files[s] \in Seq(Row)
    BY DEF TypeOK
  <2>3. IsFiniteSet(DOMAIN files[s] \ segs[s])
    BY <2>2, PositionsFinite
  <2> QED
    BY <2>1, <2>3, LocsOfOneSource
<1>4. IsFiniteSet(UNION All)
  BY <1>2, <1>3, FS_UNION, Zenon
<1> QED
  BY <1>4, Zenon DEF SegmentLocs

\* The scan order of finitely many rows is a nonempty sequence of them.
LEMMA OrderingIsSequence ==
    ASSUME NEW locs, IsFiniteSet(locs), locs # {}, NEW order \in Orderings(locs)
    PROVE  \E n \in Nat \ {0} : order \in [1 .. n -> locs]
<1>1. Cardinality(locs) \in Nat /\ Cardinality(locs) # 0
  BY FS_CardinalityType, FS_EmptySet
<1> QED
  BY <1>1 DEF Orderings

\* The index entry rebuild_key_index leaves at a checkpointed key is one of the
\* key's checkpointed rows: the last segment wins, and in it the last row.
LEMMA LatestIsCheckpointed ==
    ASSUME Inv, NEW k, Checkpointed(k) # {}
    PROVE  Latest(Checkpointed(k)) \in Checkpointed(k)
<1> DEFINE C == Checkpointed(k)
           Srcs == { l.src : l \in C }
<1>1. \A l \in C : /\ l.src \in DOMAIN manifest.segs
                   /\ l.src \in Nat /\ l.src < manifest.next
                   /\ files[l.src] \in Seq(Row)
                   /\ l.ord \in Nat /\ l.ord <= Len(files[l.src])
                   /\ l = [src |-> l.src, ord |-> l.ord]
  <2> SUFFICES ASSUME NEW l \in C
               PROVE  /\ l.src \in DOMAIN manifest.segs
                      /\ l.src \in Nat /\ l.src < manifest.next
                      /\ files[l.src] \in Seq(Row)
                      /\ l.ord \in Nat /\ l.ord <= Len(files[l.src])
                      /\ l = [src |-> l.src, ord |-> l.ord]
    OBVIOUS
  <2>1. TypeOK /\ l \in SegmentLocs(manifest.segs, DOMAIN manifest.segs)
    BY DEF Checkpointed, Inv
  <2>2. /\ l.src \in DOMAIN manifest.segs /\ l.src \in DOMAIN files
        /\ l.ord \in Nat \ {0} /\ l.ord <= Len(files[l.src])
        /\ l \in Locator
    BY <2>1, SegmentLocIsRow, Zenon
  <2> QED
    BY <2>1, <2>2 DEF Inv, TypeOK, IdInv, Locator
<1>2. manifest.next \in Nat
  BY DEF Inv, TypeOK
<1>3. Srcs \subseteq 0 .. manifest.next /\ Srcs # {}
  BY <1>1, <1>2
<1>4. PICK s \in Srcs : \A t \in Srcs : t <= s
  BY <1>2, <1>3, GreatestExists, Zenon
<1> DEFINE Ords == { l.ord : l \in { m \in C : m.src = s } }
<1>5. Ords \subseteq 0 .. Len(files[s]) /\ Ords # {} /\ Len(files[s]) \in Nat
  BY <1>1, <1>4
<1>6. PICK o \in Ords : \A p \in Ords : p <= o
  BY <1>5, GreatestExists, Zenon
<1>7. PICK l \in C : l.src = s /\ l.ord = o
  BY <1>6
<1>8. ASSUME NEW m \in C PROVE m = l \/ LocLess(m, l)
  <2>1. m.src <= s
    BY <1>4
  <2>2. m.src = s => m.ord <= o
    BY <1>6
  <2>3. m.src = s /\ m.ord = o => m = l
    BY <1>1, <1>7, Zenon
  <2> QED
    BY <1>1, <1>7, <2>1, <2>2, <2>3 DEF LocLess
<1> QED
  BY <1>8, Zenon DEF Latest

\* The last record of a key's log tail is one of the log's records.
LEMMA LastRecordIsLogged ==
    ASSUME Inv, NEW recs, recs \subseteq wal, recs # {}
    PROVE  LastRecord(recs) \in recs
<1> DEFINE L == { r.lsn : r \in recs }
<1>1. \A r \in recs : r.lsn \in Nat /\ r.lsn <= MaxLsn
  BY DEF Inv, TypeOK, LsnInv, Record
<1>2. MaxLsn \in Nat
  BY PartitionAssumption
<1>3. L \subseteq 0 .. MaxLsn /\ L # {}
  BY <1>1, <1>2
<1>4. PICK x \in L : \A y \in L : y <= x
  BY <1>2, <1>3, GreatestExists, Zenon
<1>5. \E r \in recs : \A q \in recs : q.lsn <= r.lsn
  BY <1>4
<1> QED
  BY <1>5, Zenon DEF LastRecord

\* The record that replay takes next is one of the records left.
LEMMA OldestOfIsLeft ==
    ASSUME Inv, NEW recs, recs \subseteq wal, recs # {}
    PROVE  OldestOf(recs) \in recs
<1> DEFINE L == { r.lsn : r \in recs }
<1>1. L \subseteq Nat /\ L # {}
  BY DEF Inv, TypeOK, Record
<1>2. PICK x \in L : \A y \in L : x <= y
  BY <1>1, LeastExists, Zenon
<1>3. \E r \in recs : \A q \in recs : r.lsn <= q.lsn
  BY <1>2
<1> QED
  BY <1>3, Zenon DEF OldestOf

\* What the disk recovers to at a key is a value or nothing.
LEMMA RecoveredType ==
    ASSUME Inv, NEW k
    PROVE  Recovered(k) \in Values \cup {None}
<1>1. CASE LogTail(k) # {}
  <2>1. LogTail(k) \subseteq wal
    BY DEF LogTail
  <2>2. LastRecord(LogTail(k)) \in Record
    BY <1>1, <2>1, LastRecordIsLogged DEF Inv, TypeOK
  <2>3. Effect(LastRecord(LogTail(k)), k) \in Values \cup {None}
    BY <2>2, EffectType, Zenon
  <2> QED
    BY <1>1, <2>3, Zenon DEF Recovered
<1>2. CASE LogTail(k) = {} /\ Checkpointed(k) # {}
  <2>1. Latest(Checkpointed(k)) \in SegmentLocs(manifest.segs, DOMAIN manifest.segs)
    BY <1>2, LatestIsCheckpointed DEF Checkpointed
  <2>2. RowAt(Latest(Checkpointed(k))) \in Row
    BY <2>1, SegmentLocIsRow, Zenon DEF Inv
  <2> QED
    BY <1>2, <2>2 DEF Recovered, Row
<1>3. CASE LogTail(k) = {} /\ Checkpointed(k) = {}
  BY <1>3 DEF Recovered
<1> QED
  BY <1>1, <1>2, <1>3

-----------------------------------------------------------------------------
(* Every action preserves the invariant.                                   *)

\* A new partition, with an empty log and no segments, satisfies the invariant.
LEMMA InitInv == Init => Inv
<1> SUFFICES ASSUME Init PROVE Inv
  OBVIOUS
<1>1. TypeOK
  BY PartitionAssumption DEF Init, TypeOK, ControlStates, Tails
<1>2. LsnInv /\ IdInv /\ FileInv
  BY DEF Init, LsnInv, IdInv, FileInv, ManifestComplete
<1> QED
  BY <1>1, <1>2 DEF Inv

\* Insert, Upsert and Delete: the record gets the next lsn, in the log or not.
LEMMA LogStep ==
    ASSUME Inv, pc = "idle", NEW rows \in Seq(Row), NEW keys \in SUBSET Keys, Log(rows, keys)
    PROVE  Inv'
<1> DEFINE r == [lsn |-> next_lsn, rows |-> rows, keys |-> keys]
<1> USE PartitionAssumption
<1>1. r \in Record /\ next_lsn <= MaxLsn /\ next_lsn' = next_lsn + 1
  BY DEF Inv, TypeOK, Record, Log
<1>2. /\ wal' \in {wal, wal \cup {r}}
      /\ tail' \in Tails
      /\ limbo' \in {limbo, limbo \cup {next_lsn}}
      /\ faults' \in {faults, faults + 1}
      /\ inputs' \in {inputs, {}}
      /\ \/ pc' = "apply" /\ pending' = r
         \/ pc' = "idle" /\ pending' = None
  <2>1. tail' \in Tails
    BY DEF Log, Buried, Tails, Inv, TypeOK
  <2> QED
    BY <2>1 DEF Log, Fail, Abort
<1>3. UNCHANGED <<manifest, files, memory, crashes, truth, stray>>
  BY DEF Log
<1>4. TypeOK'
  <2>1. wal' \subseteq Record /\ pending' \in Record \cup {None}
    BY <1>1, <1>2 DEF Inv, TypeOK
  <2>2. limbo' \subseteq Nat \ {0} /\ inputs' \subseteq Nat \ {0}
    BY <1>2 DEF Inv, TypeOK
  <2>3. faults' \in Nat /\ next_lsn' \in Nat \ {0} /\ pc' \in ControlStates
    BY <1>1, <1>2 DEF Inv, TypeOK, ControlStates
  <2> QED
    BY <1>2, <1>3, <2>1, <2>2, <2>3 DEF Inv, TypeOK, memory
<1>5. LsnInv'
  <2>1. next_lsn \in Nat /\ manifest.applied \in Nat /\ applied_lsn \in Nat /\ last_lsn \in Nat
        /\ \A q \in wal : q.lsn \in Nat
    BY DEF Inv, TypeOK, Record
  <2>2. \A q \in wal' : q.lsn <= MaxLsn /\ q.lsn < next_lsn'
    <3>1. \A q \in wal' : q \in wal \/ q = r
      BY <1>2
    <3>2. \A q \in wal : q.lsn <= MaxLsn /\ q.lsn < next_lsn'
      BY <1>1, <2>1 DEF Inv, LsnInv
    <3>3. r.lsn <= MaxLsn /\ r.lsn < next_lsn'
      BY <1>1, <2>1
    <3> QED
      BY <3>1, <3>2, <3>3, Zenon
  <2>3. manifest.applied < next_lsn' /\ applied_lsn < next_lsn' /\ last_lsn < next_lsn'
    BY <1>1, <2>1 DEF Inv, LsnInv
  <2>4. pc' = "apply" => pending' \in Record /\ pending'.lsn < next_lsn'
    BY <1>1, <1>2, <2>1
  <2> QED
    BY <1>3, <2>2, <2>3, <2>4 DEF LsnInv, memory
<1>6. IdInv' /\ FileInv'
  BY <1>2, <1>3 DEF Inv, IdInv, FileInv, ManifestComplete, memory
<1> QED
  BY <1>4, <1>5, <1>6 DEF Inv

\* Flush and Compact: only control moves.
LEMMA RequestStep ==
    ASSUME Inv, Flush \/ Compact
    PROVE  Inv'
<1>1. UNCHANGED <<disk, memory, next_lsn, pending, inputs, crashes, faults, truth, limbo, stray>>
  BY DEF Flush, Compact
<1>2. pc = "idle" /\ pc' \in {"flush", "compact"}
  BY DEF Flush, Compact
<1>3. TypeOK'
  BY <1>1, <1>2 DEF Inv, TypeOK, disk, memory, ControlStates
<1>4. LsnInv' /\ IdInv' /\ FileInv'
  BY <1>1, <1>2 DEF Inv, LsnInv, IdInv, FileInv, ManifestComplete, disk, memory
<1> QED
  BY <1>3, <1>4 DEF Inv

\* apply_entry, run for a new write and by replay.
LEMMA ApplyEntryTypes ==
    ASSUME Inv, NEW r \in Record, ApplyEntry(r)
    PROVE  /\ memtable' \in Seq(Row) /\ memtable_suppressed' \subseteq Nat \ {0}
           /\ DOMAIN segments' = DOMAIN segments
           /\ \A s \in DOMAIN segments' : segments'[s] \subseteq Nat \ {0}
           /\ key_index' \in [Keys -> Locator \cup {None}]
           /\ last_lsn' \in {last_lsn, r.lsn}
           /\ UNCHANGED <<applied_lsn, next_segment_id>>
<1>1. r.rows \in Seq(Row) /\ r.lsn \in Nat \ {0}
  BY DEF Record
<1>2. memtable \in Seq(Row) /\ Len(memtable) \in Nat
  BY DEF Inv, TypeOK
<1>3. memtable' \in Seq(Row)
  BY <1>1, <1>2 DEF ApplyEntry
<1>4. \A k \in KeysOf(r.rows) : LastOf(r.rows, k) \in Nat \ {0}
  BY <1>1, LastOfIsARow
<1>5. key_index' \in [Keys -> Locator \cup {None}]
  <2>1. ASSUME NEW k \in KeysOf(r.rows)
        PROVE  [src |-> 0, ord |-> Len(memtable) + LastOf(r.rows, k)] \in Locator
    BY <1>2, <1>4 DEF Locator
  <2>2. key_index \in [Keys -> Locator \cup {None}]
    BY DEF Inv, TypeOK
  <2> QED
    BY <2>1, <2>2, Zenon DEF ApplyEntry
<1>6. ASSUME NEW ks, NEW s, ks \subseteq Keys PROVE Displaced(ks, s) \subseteq Nat \ {0}
  <2>1. \A k \in Keys : key_index[k] # None => key_index[k] \in Locator
    BY DEF Inv, TypeOK
  <2>2. \A k \in Keys : key_index[k] # None => key_index[k].ord \in Nat \ {0}
    BY <2>1 DEF Locator
  <2> QED
    BY <1>6, <2>2, Zenon DEF Displaced
<1>7. Touches(r) \subseteq Keys
  <2>1. \A i \in DOMAIN r.rows : r.rows[i] \in Row
    BY <1>1
  <2> QED
    BY <2>1 DEF Touches, KeysOf, Record, Row
<1>8. memtable_suppressed' \subseteq Nat \ {0}
  <2>1. Displaced(Touches(r), 0) \subseteq Nat \ {0}
    BY <1>6, <1>7
  <2>2. { Len(memtable) + i : i \in { j \in DOMAIN r.rows :
                     j # LastOf(r.rows, r.rows[j].key) } } \subseteq Nat \ {0}
    BY <1>1, <1>2
  <2>3. memtable_suppressed \subseteq Nat \ {0}
    BY DEF Inv, TypeOK
  <2> QED
    BY <2>1, <2>2, <2>3, Zenon DEF ApplyEntry
<1>9. /\ DOMAIN segments' = DOMAIN segments
      /\ \A s \in DOMAIN segments' : segments'[s] \subseteq Nat \ {0}
  <2>1. segments' = [s \in DOMAIN segments |-> segments[s] \cup Displaced(Touches(r), s)]
    BY DEF ApplyEntry
  <2>2. \A s \in DOMAIN segments : segments[s] \cup Displaced(Touches(r), s) \subseteq Nat \ {0}
    BY <1>6, <1>7 DEF Inv, TypeOK
  <2> QED
    BY <2>1, <2>2, Zenon
<1>10. last_lsn' \in {last_lsn, r.lsn} /\ UNCHANGED <<applied_lsn, next_segment_id>>
  BY DEF ApplyEntry, MaxOf
<1> QED
  BY <1>3, <1>5, <1>8, <1>9, <1>10

\* Applying the logged record to memtable, bitmaps and index keeps the invariant.
LEMMA ApplyStep ==
    ASSUME Inv, Apply
    PROVE  Inv'
<1>1. pending \in Record /\ pending.lsn < next_lsn /\ pending.lsn \in Nat
  BY DEF Inv, LsnInv, Apply, Record
<1>2. ApplyEntry(pending)
  BY DEF Apply
<1>3. /\ memtable' \in Seq(Row) /\ memtable_suppressed' \subseteq Nat \ {0}
      /\ DOMAIN segments' = DOMAIN segments
      /\ \A s \in DOMAIN segments' : segments'[s] \subseteq Nat \ {0}
      /\ key_index' \in [Keys -> Locator \cup {None}]
      /\ last_lsn' \in {last_lsn, pending.lsn}
      /\ UNCHANGED <<applied_lsn, next_segment_id>>
  BY <1>1, <1>2, ApplyEntryTypes, Zenon
<1>4. truth' \in [Keys -> Values \cup {None}]
  <2>1. \A k \in Keys : Effect(pending, k) \in Values \cup {None}
    BY <1>1, EffectType, Zenon
  <2>2. truth \in [Keys -> Values \cup {None}]
    BY DEF Inv, TypeOK
  <2> QED
    BY <2>1, <2>2, Zenon DEF Apply
<1>5. /\ pc = "apply" /\ pc' \in {"flush", "idle"} /\ pending' = None
      /\ limbo' \subseteq limbo
      /\ UNCHANGED <<disk, next_lsn, inputs, crashes, faults>>
  BY DEF Apply
<1>6. TypeOK'
  <2>1. stray' \subseteq Record
    BY <1>1, <1>2 DEF Apply, Inv, TypeOK
  <2> QED
    BY <1>1, <1>3, <1>4, <1>5, <2>1 DEF Inv, TypeOK, disk, ControlStates
<1>7. LsnInv'
  BY <1>1, <1>3, <1>5 DEF Inv, LsnInv, disk
<1>8. IdInv' /\ FileInv'
  BY <1>3, <1>5 DEF Inv, IdInv, FileInv, ManifestComplete, disk
<1> QED
  BY <1>6, <1>7, <1>8 DEF Inv

\* A new segment file: complete, and no other file changes.
LEMMA WriteSegmentTypes ==
    ASSUME Inv, NEW locs, IsFiniteSet(locs), locs # {},
           \A l \in locs : RowAt(l) \in Row,
           NEW order \in Orderings(locs), WriteSegment(order)
    PROVE  /\ DOMAIN files' = DOMAIN files \cup {next_segment_id}
           /\ files'[next_segment_id] \in Seq(Row) \ {<<>>}
           /\ \A s \in DOMAIN files \ {next_segment_id} : files'[s] = files[s]
           /\ key_index' \in [Keys -> Locator \cup {None}]
<1>1. PICK n \in Nat \ {0} : order \in [1 .. n -> locs]
  BY OrderingIsSequence, Zenon
<1> DEFINE new == [i \in DOMAIN order |-> RowAt(order[i])]
<1>2. new \in [1 .. n -> Row]
  BY <1>1
<1>3. new \in Seq(Row) /\ new # <<>>
  BY <1>2
<1>4. /\ DOMAIN files' = DOMAIN files \cup {next_segment_id}
      /\ files'[next_segment_id] = new
      /\ \A s \in DOMAIN files \ {next_segment_id} : files'[s] = files[s]
  BY DEF WriteSegment
<1>5. key_index' \in [Keys -> Locator \cup {None}]
  <2>1. ASSUME NEW k \in Keys, \E i \in DOMAIN order : order[i] = key_index[k]
        PROVE  [src |-> next_segment_id,
                ord |-> CHOOSE i \in DOMAIN order : order[i] = key_index[k]] \in Locator
    <3>1. (CHOOSE i \in DOMAIN order : order[i] = key_index[k]) \in DOMAIN order
      BY <2>1, Zenon
    <3>2. DOMAIN order \subseteq Nat \ {0}
      BY <1>1
    <3> QED
      BY <3>1, <3>2 DEF Inv, TypeOK, Locator
  <2>2. key_index \in [Keys -> Locator \cup {None}]
    BY DEF Inv, TypeOK
  <2> QED
    BY <2>1, <2>2, Zenon DEF WriteSegment
<1> QED
  BY <1>3, <1>4, <1>5

\* A segment file cut short: it is not one that memory or the manifest knows.
LEMMA CutShortStep ==
    ASSUME Inv, pc # "down", CutShort
    PROVE  /\ DOMAIN files' \subseteq Nat \ {0}
           /\ \A s \in DOMAIN files' : files'[s] \in Seq(Row)
           /\ \A s \in DOMAIN manifest.segs \cup DOMAIN segments :
                 s \in DOMAIN files' /\ files'[s] = files[s]
<1>1. /\ DOMAIN files' = DOMAIN files \cup {next_segment_id}
      /\ files'[next_segment_id] = <<>>
      /\ \A s \in DOMAIN files \ {next_segment_id} : files'[s] = files[s]
  BY DEF CutShort
<1>2. /\ DOMAIN files' \subseteq Nat \ {0}
      /\ \A s \in DOMAIN files' : files'[s] \in Seq(Row)
  <2>1. <<>> \in Seq(Row) /\ next_segment_id \in Nat \ {0}
    BY DEF Inv, TypeOK
  <2>2. DOMAIN files \subseteq Nat \ {0} /\ \A s \in DOMAIN files : files[s] \in Seq(Row)
    BY DEF Inv, TypeOK
  <2> QED
    BY <1>1, <2>1, <2>2
<1>3. \A s \in DOMAIN manifest.segs \cup DOMAIN segments :
          s \in DOMAIN files /\ s # next_segment_id
  BY DEF Inv, TypeOK, IdInv, FileInv, ManifestComplete
<1> QED
  BY <1>1, <1>2, <1>3

\* A segment write that returns an error keeps it: only a file cut short is left.
LEMMA SegmentWriteFailsStep ==
    ASSUME Inv, pc \in {"flush", "compact"}, SegmentWriteFails,
           UNCHANGED <<wal, tail, manifest, next_lsn, crashes, truth, limbo, stray>>
    PROVE  Inv'
<1>1. /\ faults' = faults + 1 /\ CutShort /\ UNCHANGED memory
      /\ pc' = "idle" /\ inputs' = {} /\ pending' = None
  BY DEF SegmentWriteFails, Fail, Abort
<1>2. /\ DOMAIN files' \subseteq Nat \ {0}
      /\ \A s \in DOMAIN files' : files'[s] \in Seq(Row)
      /\ \A s \in DOMAIN manifest.segs \cup DOMAIN segments :
            s \in DOMAIN files' /\ files'[s] = files[s]
  BY <1>1, CutShortStep
<1>3. TypeOK'
  <2>1. faults' \in Nat
    BY <1>1 DEF Inv, TypeOK
  <2> QED
    BY <1>1, <1>2, <2>1 DEF Inv, TypeOK, memory, ControlStates
<1>4. LsnInv' /\ IdInv'
  BY <1>1 DEF Inv, LsnInv, IdInv, memory
<1>5. FileInv'
  BY <1>1, <1>2 DEF Inv, FileInv, ManifestComplete, memory
<1> QED
  BY <1>3, <1>4, <1>5 DEF Inv

\* Writing the memtable as a new segment keeps it.
LEMMA FlushSegmentStep ==
    ASSUME Inv, FlushSegment
    PROVE  Inv'
<1> DEFINE Rest == UNCHANGED <<wal, tail, manifest, next_lsn, crashes, truth, limbo, stray>>
<1>1. pc = "flush" /\ Rest
  BY DEF FlushSegment
<1>2. CASE SegmentWriteFails
  BY <1>1, <1>2, SegmentWriteFailsStep
<1>3. CASE /\ memtable' = <<>> /\ memtable_suppressed' = {}
           /\ applied_lsn' = last_lsn
           /\ pc' = "commit"
           /\ UNCHANGED <<last_lsn, pending, inputs, faults>>
           /\ MemtableLocs = {}
           /\ UNCHANGED <<files, key_index, segments, next_segment_id>>
  <2>1. TypeOK'
    BY <1>1, <1>3 DEF Inv, TypeOK, ControlStates
  <2>2. LsnInv' /\ IdInv' /\ FileInv'
    BY <1>1, <1>3 DEF Inv, LsnInv, IdInv, FileInv, ManifestComplete
  <2> QED
    BY <2>1, <2>2 DEF Inv
<1>4. CASE /\ memtable' = <<>> /\ memtable_suppressed' = {}
           /\ applied_lsn' = last_lsn
           /\ pc' = "commit"
           /\ UNCHANGED <<last_lsn, pending, inputs, faults>>
           /\ MemtableLocs # {}
           /\ \E order \in Orderings(MemtableLocs) : WriteSegment(order)
           /\ segments' = [s \in DOMAIN segments \cup {next_segment_id} |->
                              IF s = next_segment_id THEN {} ELSE segments[s]]
           /\ next_segment_id' = next_segment_id + 1
  <2>1. PICK order \in Orderings(MemtableLocs) : WriteSegment(order)
    BY <1>4
  <2>2. IsFiniteSet(MemtableLocs) /\ \A l \in MemtableLocs : RowAt(l) \in Row
    BY MemtableLocsRows DEF Inv
  <2>3. /\ DOMAIN files' = DOMAIN files \cup {next_segment_id}
        /\ files'[next_segment_id] \in Seq(Row) \ {<<>>}
        /\ \A s \in DOMAIN files \ {next_segment_id} : files'[s] = files[s]
        /\ key_index' \in [Keys -> Locator \cup {None}]
    BY <1>4, <2>1, <2>2, WriteSegmentTypes, Zenon
  <2>4. next_segment_id \in Nat \ {0}
    BY DEF Inv, TypeOK
  <2>5. /\ DOMAIN segments' = DOMAIN segments \cup {next_segment_id}
        /\ \A s \in DOMAIN segments' : segments'[s] \subseteq Nat \ {0}
    BY <1>4 DEF Inv, TypeOK
  <2>6. /\ DOMAIN files' \subseteq Nat \ {0}
        /\ \A s \in DOMAIN files' : files'[s] \in Seq(Row)
    BY <2>3, <2>4 DEF Inv, TypeOK
  <2>7. TypeOK'
    BY <1>1, <1>4, <2>3, <2>4, <2>5, <2>6 DEF Inv, TypeOK, ControlStates
  <2>8. LsnInv'
    BY <1>1, <1>4 DEF Inv, LsnInv
  <2>9. IdInv'
    BY <1>1, <1>4, <2>4, <2>5 DEF Inv, TypeOK, IdInv
  <2>10. FileInv'
    <3>1. \A s \in DOMAIN manifest.segs : s # next_segment_id
      BY <1>1, <2>4 DEF Inv, TypeOK, IdInv
    <3> QED
      BY <1>1, <1>4, <2>3, <2>5, <3>1 DEF Inv, FileInv, ManifestComplete
  <2> QED
    BY <2>7, <2>8, <2>9, <2>10 DEF Inv
<1> QED
  BY <1>2, <1>3, <1>4 DEF FlushSegment

\* Committing the manifest, in a flush and in a compaction.
LEMMA CommitManifestStep ==
    ASSUME Inv, FlushCommit \/ CompactCommit
    PROVE  Inv'
<1>1. /\ UNCHANGED <<wal, tail, files, memory, next_lsn, crashes, truth, limbo, stray>>
      /\ \/ pc = "commit" \/ pc = "compact_commit"
  BY DEF FlushCommit, CompactCommit, CommitManifest
<1>2. CASE /\ manifest' = ManifestNow /\ UNCHANGED <<pending, inputs, faults>>
           /\ \/ pc = "commit" /\ pc' = "truncate"
              \/ pc = "compact_commit" /\ pc' = "delete"
  <2>1. /\ DOMAIN manifest' = {"applied", "next", "segs"}
        /\ manifest'.applied = applied_lsn /\ manifest'.next = next_segment_id
        /\ manifest'.segs = segments
    BY <1>2 DEF ManifestNow
  <2>2. TypeOK'
    BY <1>1, <1>2, <2>1 DEF Inv, TypeOK, memory, ControlStates
  <2>3. LsnInv' /\ IdInv'
    BY <1>1, <1>2, <2>1 DEF Inv, TypeOK, LsnInv, IdInv, memory
  <2>4. FileInv'
    BY <1>1, <1>2, <2>1 DEF Inv, FileInv, ManifestComplete, memory
  <2> QED
    BY <2>2, <2>3, <2>4 DEF Inv
<1>3. CASE Fail("manifest") /\ Abort /\ UNCHANGED manifest
  <2>1. pc' = "idle" /\ inputs' = {} /\ pending' = None /\ faults' \in Nat
    BY <1>3 DEF Fail, Abort, Inv, TypeOK
  <2>2. TypeOK'
    BY <1>1, <1>3, <2>1 DEF Inv, TypeOK, memory, ControlStates
  <2>3. LsnInv' /\ IdInv' /\ FileInv'
    BY <1>1, <1>3, <2>1 DEF Inv, LsnInv, IdInv, FileInv, ManifestComplete, memory
  <2> QED
    BY <2>2, <2>3 DEF Inv
<1>4. CASE Fail("manifest") /\ Abort /\ manifest' = ManifestNow
  <2>1. /\ DOMAIN manifest' = {"applied", "next", "segs"}
        /\ manifest'.applied = applied_lsn /\ manifest'.next = next_segment_id
        /\ manifest'.segs = segments
    BY <1>4 DEF ManifestNow
  <2>2. pc' = "idle" /\ inputs' = {} /\ pending' = None /\ faults' \in Nat
    BY <1>4 DEF Fail, Abort, Inv, TypeOK
  <2>3. TypeOK'
    BY <1>1, <2>1, <2>2 DEF Inv, TypeOK, memory, ControlStates
  <2>4. LsnInv' /\ IdInv'
    BY <1>1, <2>1, <2>2 DEF Inv, TypeOK, LsnInv, IdInv, memory
  <2>5. FileInv'
    BY <1>1, <2>1, <2>2 DEF Inv, FileInv, ManifestComplete, memory
  <2> QED
    BY <2>3, <2>4, <2>5 DEF Inv
<1> QED
  BY <1>2, <1>3, <1>4 DEF FlushCommit, CompactCommit, CommitManifest

\* Rewriting the log without the checkpointed prefix keeps it.
LEMMA FlushTruncateStep ==
    ASSUME Inv, FlushTruncate
    PROVE  Inv'
<1>1. /\ UNCHANGED <<manifest, files, memory, next_lsn, crashes, truth, limbo, stray>>
      /\ pc = "truncate" /\ wal' \subseteq wal /\ tail' \in {tail, "whole", "unlinked"}
      /\ pc' \in {"compact", "idle"}
      /\ pending' \in {pending, None} /\ inputs' \in {inputs, {}}
      /\ faults' \in {faults, faults + 1}
  BY DEF FlushTruncate, Fail, Abort
<1>2. TypeOK'
  <2>1. wal' \subseteq Record /\ tail' \in Tails
    BY <1>1 DEF Inv, TypeOK, Tails
  <2>2. inputs' \subseteq Nat \ {0} /\ faults' \in Nat
    BY <1>1 DEF Inv, TypeOK
  <2> QED
    BY <1>1, <2>1, <2>2 DEF Inv, TypeOK, memory, ControlStates
<1>3. LsnInv' /\ IdInv' /\ FileInv'
  BY <1>1 DEF Inv, LsnInv, IdInv, FileInv, ManifestComplete, memory
<1> QED
  BY <1>2, <1>3 DEF Inv

\* The inputs of a compaction are segments in memory.
LEMMA SelectsSegments == select(segment_facts) \subseteq DOMAIN segments
<1>1. { f.id : f \in segment_facts } \subseteq DOMAIN segments
  BY DEF segment_facts
<1> QED
  BY <1>1, SelectsFacts, Zenon

\* Merging segments into a new one, or into none, keeps it.
LEMMA CompactMergeStep ==
    ASSUME Inv, CompactMerge
    PROVE  Inv'
<1> DEFINE ids  == select(segment_facts)
           kept == SegmentLocs(segments, ids)
           new  == IF kept = {} THEN {} ELSE {next_segment_id}
<1>1. pc = "compact" /\ UNCHANGED <<wal, tail, manifest, next_lsn, crashes, truth, limbo, stray>>
  BY DEF CompactMerge
<1>2. CASE SegmentWriteFails
  BY <1>1, <1>2, SegmentWriteFailsStep
<1>3. CASE /\ IF kept = {} THEN UNCHANGED <<files, key_index>>
              ELSE \E order \in Orderings(kept) : WriteSegment(order)
           /\ segments' = [s \in (DOMAIN segments \ ids) \cup new |->
                              IF s = next_segment_id THEN {} ELSE segments[s]]
           /\ next_segment_id' = next_segment_id + 1
           /\ inputs' = ids /\ pc' = "compact_commit"
           /\ UNCHANGED <<memtable, memtable_suppressed, applied_lsn, last_lsn, pending, faults>>
  <2>1. next_segment_id \in Nat \ {0}
    BY DEF Inv, TypeOK
  <2>2. ids \subseteq DOMAIN segments /\ ids \subseteq 1 .. next_segment_id
        /\ next_segment_id \notin ids
    <3>1. ids \subseteq DOMAIN segments
      BY SelectsSegments
    <3>2. \A s \in DOMAIN segments : s \in Nat \ {0} /\ s < next_segment_id
      BY <1>1 DEF Inv, TypeOK, IdInv
    <3> QED
      BY <2>1, <3>1, <3>2
  <2>3. /\ DOMAIN files' = DOMAIN files \cup new
        /\ \A s \in new : files'[s] \in Seq(Row) \ {<<>>}
        /\ \A s \in DOMAIN files \ {next_segment_id} : files'[s] = files[s]
        /\ key_index' \in [Keys -> Locator \cup {None}]
    <3>1. CASE kept = {}
      BY <1>3, <3>1 DEF Inv, TypeOK
    <3>2. CASE kept # {}
      <4>1. PICK order \in Orderings(kept) : WriteSegment(order)
        BY <1>3, <3>2
      <4>2. IsFiniteSet(kept)
        BY <2>1, <2>2, SegmentLocsFinite DEF Inv
      <4>3. \A l \in kept : RowAt(l) \in Row
        BY SegmentLocIsRow DEF Inv
      <4>4. /\ DOMAIN files' = DOMAIN files \cup {next_segment_id}
            /\ files'[next_segment_id] \in Seq(Row) \ {<<>>}
            /\ \A s \in DOMAIN files \ {next_segment_id} : files'[s] = files[s]
            /\ key_index' \in [Keys -> Locator \cup {None}]
        BY <3>2, <4>1, <4>2, <4>3, WriteSegmentTypes, Zenon
      <4> QED
        BY <3>2, <4>4
    <3> QED
      BY <3>1, <3>2
  <2> HIDE DEF ids, kept
  <2>4. new \subseteq {next_segment_id}
    OBVIOUS
  <2> HIDE DEF new
  <2>5. DOMAIN segments' = (DOMAIN segments \ ids) \cup new
    BY <1>3
  <2>6. \A s \in DOMAIN segments' : segments'[s] \subseteq Nat \ {0}
    BY <1>3, <2>4 DEF Inv, TypeOK
  <2>7. DOMAIN files' \subseteq Nat \ {0} /\ \A s \in DOMAIN files' : files'[s] \in Seq(Row)
    <3>1. DOMAIN files \subseteq Nat \ {0} /\ \A s \in DOMAIN files : files[s] \in Seq(Row)
      BY DEF Inv, TypeOK
    <3>2. \A s \in DOMAIN files \ new : files'[s] \in Seq(Row)
      <4>1. next_segment_id \notin new => files'[next_segment_id] = files[next_segment_id]
        BY <1>3, <2>3 DEF new
      <4> QED
        BY <2>3, <2>4, <3>1, <4>1
    <3> QED
      BY <2>1, <2>3, <2>4, <3>1, <3>2
  <2>8. \A s \in DOMAIN manifest.segs \cup DOMAIN segments :
            s # next_segment_id /\ s \in DOMAIN files /\ files[s] # <<>>
    BY <1>1, <2>1 DEF Inv, TypeOK, IdInv, FileInv, ManifestComplete
  <2>9. TypeOK'
    <3>1. DOMAIN segments' \subseteq Nat \ {0} /\ ids \subseteq Nat \ {0}
      BY <2>1, <2>2, <2>4, <2>5 DEF Inv, TypeOK
    <3>2. next_segment_id' \in Nat \ {0}
      BY <1>3, <2>1
    <3> QED
      BY <1>1, <1>3, <2>3, <2>6, <2>7, <3>1, <3>2 DEF Inv, TypeOK, ControlStates
  <2>10. LsnInv'
    BY <1>1, <1>3 DEF Inv, LsnInv
  <2>11. IdInv'
    <3>1. manifest.next \in Nat /\ manifest.next <= next_segment_id
      BY <1>1 DEF Inv, TypeOK, IdInv
    <3>2. \A s \in DOMAIN segments : s \in Nat /\ s < next_segment_id
      BY <1>1 DEF Inv, TypeOK, IdInv
    <3>3. manifest.next <= next_segment_id'
      BY <1>3, <2>1, <3>1
    <3>4. next_segment_id' = next_segment_id + 1
      BY <1>3
    <3>5. \A s \in DOMAIN segments' : s \in DOMAIN segments \/ s = next_segment_id
      BY <2>4, <2>5
    <3>6. \A s \in DOMAIN segments' : s < next_segment_id'
      BY <2>1, <3>2, <3>4, <3>5
    <3> QED
      BY <1>1, <3>3, <3>6 DEF Inv, IdInv
  <2>12. FileInv'
    <3>1. \A s \in DOMAIN manifest.segs \cup DOMAIN segments' :
              s \in DOMAIN files' /\ files'[s] # <<>>
      BY <2>3, <2>5, <2>8
    <3>2. inputs' \cap DOMAIN segments' = {}
      BY <1>3, <2>2, <2>4, <2>5
    <3> QED
      BY <1>1, <1>3, <3>1, <3>2 DEF FileInv, ManifestComplete
  <2> QED
    BY <2>9, <2>10, <2>11, <2>12 DEF Inv
<1> QED
  BY <1>2, <1>3 DEF CompactMerge

\* Deleting a merged segment's file keeps it: no manifest references the file.
LEMMA CompactDeleteStep ==
    ASSUME Inv, CompactDelete
    PROVE  Inv'
<1>1. pc = "delete" /\ UNCHANGED <<wal, tail, manifest, memory, next_lsn, crashes, truth, limbo, stray>>
  BY DEF CompactDelete
<1>2. ASSUME NEW s \in inputs, DeleteFile(s), pc' \in {"idle", "delete"},
             UNCHANGED <<pending, faults>>
      PROVE  Inv'
  <2>1. /\ files' = [t \in DOMAIN files \ {s} |-> files[t]]
        /\ inputs' = inputs \ {s}
    BY <1>2 DEF DeleteFile
  <2>2. s \notin DOMAIN manifest.segs /\ s \notin DOMAIN segments
    BY <1>1 DEF Inv, FileInv
  <2>3. TypeOK'
    <3>1. /\ DOMAIN files' \subseteq Nat \ {0} /\ inputs' \subseteq Nat \ {0}
          /\ \A t \in DOMAIN files' : files'[t] \in Seq(Row)
      BY <2>1 DEF Inv, TypeOK
    <3> QED
      BY <1>1, <1>2, <3>1 DEF Inv, TypeOK, memory, ControlStates
  <2>4. LsnInv' /\ IdInv'
    BY <1>1, <1>2 DEF Inv, LsnInv, IdInv, memory
  <2>5. FileInv'
    BY <1>1, <1>2, <2>1, <2>2 DEF Inv, FileInv, ManifestComplete, memory
  <2> QED
    BY <2>3, <2>4, <2>5 DEF Inv
<1>3. CASE Fail("delete") /\ Abort /\ UNCHANGED files
  <2>1. pc' = "idle" /\ inputs' = {} /\ pending' = None /\ faults' \in Nat
    BY <1>3 DEF Fail, Abort, Inv, TypeOK
  <2>2. TypeOK'
    BY <1>1, <1>3, <2>1 DEF Inv, TypeOK, memory, ControlStates
  <2>3. LsnInv' /\ IdInv' /\ FileInv'
    BY <1>1, <1>3, <2>1 DEF Inv, LsnInv, IdInv, FileInv, ManifestComplete, memory
  <2> QED
    BY <2>2, <2>3 DEF Inv
<1> QED
  BY <1>2, <1>3 DEF CompactDelete

\* Losing the memory, at any point of any operation, keeps it.
LEMMA CrashStep ==
    ASSUME Inv, Crash
    PROVE  Inv'
<1>1. /\ pc # "down" /\ pc' = "down" /\ pending' = None /\ inputs' = {}
      /\ crashes' = crashes + 1 /\ limbo' = {} /\ stray' = {}
      /\ memtable' = <<>> /\ memtable_suppressed' = {} /\ segments' = <<>>
      /\ key_index' = [k \in Keys |-> None]
      /\ applied_lsn' = 0 /\ last_lsn' = 0 /\ next_segment_id' = 1 /\ next_lsn' = 1
      /\ UNCHANGED <<wal, manifest, faults>>
  BY DEF Crash
<1>2. truth' \in [Keys -> Values \cup {None}]
  BY RecoveredType, Zenon DEF Crash
<1>3. /\ DOMAIN files' \subseteq Nat \ {0}
      /\ \A s \in DOMAIN files' : files'[s] \in Seq(Row)
      /\ \A s \in DOMAIN manifest.segs : s \in DOMAIN files' /\ files'[s] = files[s]
  <2>1. CASE UNCHANGED files
    BY <2>1 DEF Inv, TypeOK, FileInv, ManifestComplete
  <2>2. CASE CutShort
    BY <1>1, <2>2, CutShortStep
  <2> QED
    BY <2>1, <2>2 DEF Crash
<1>4. TypeOK'
  <2>1. crashes' \in Nat /\ <<>> \in Seq(Row) /\ DOMAIN segments' = {}
    BY <1>1 DEF Inv, TypeOK
  <2>2. tail' \in Tails
    BY DEF Crash, Buried, Tails, Inv, TypeOK
  <2> QED
    BY <1>1, <1>2, <1>3, <2>1, <2>2 DEF Inv, TypeOK, ControlStates
<1>5. LsnInv' /\ IdInv' /\ FileInv'
  BY <1>1, <1>3 DEF Inv, LsnInv, IdInv, FileInv, ManifestComplete
<1> QED
  BY <1>4, <1>5 DEF Inv

\* Recovery up to the replay keeps it.
LEMMA OpenStep ==
    ASSUME Inv, Open
    PROVE  Inv'
<1>1. /\ files' = [s \in Referenced |-> files[s]]
      /\ memtable' = <<>> /\ memtable_suppressed' = {}
      /\ segments' = manifest.segs
      /\ applied_lsn' = manifest.applied /\ last_lsn' = manifest.applied
      /\ next_segment_id' = manifest.next
      /\ next_lsn' = Highest(UsedLsns) + 1
      /\ pc' = "replay" /\ tail' = "whole"
      /\ UNCHANGED <<wal, manifest, pending, inputs, crashes, faults, truth, limbo, stray>>
  BY DEF Open
<1>2. /\ Highest(UsedLsns) \in Nat
      /\ manifest.applied <= Highest(UsedLsns)
      /\ \A r \in wal : r.lsn <= Highest(UsedLsns)
  <2> DEFINE n == MaxLsn + manifest.applied
  <2>1. /\ manifest.applied \in Nat /\ MaxLsn \in Nat /\ n \in Nat
        /\ \A r \in wal : r.lsn \in Nat /\ r.lsn <= MaxLsn
    BY PartitionAssumption DEF Inv, TypeOK, LsnInv, Record
  <2>2. UsedLsns \subseteq 0 .. n /\ UsedLsns # {}
    <3>1. \A r \in wal : r.lsn \in 0 .. n
      BY <2>1
    <3>2. manifest.applied \in 0 .. n
      BY <2>1
    <3> QED
      BY <3>1, <3>2, Zenon DEF UsedLsns
  <2>3. Highest(UsedLsns) \in UsedLsns /\ \A y \in UsedLsns : y <= Highest(UsedLsns)
    <3> HIDE DEF n
    <3> QED
      BY <2>1, <2>2, HighestIsGreatest, Zenon
  <2>4. Highest(UsedLsns) \in Nat
    <3>1. 0 .. n \subseteq Nat
      BY <2>1
    <3> QED
      BY <2>2, <2>3, <3>1, Zenon
  <2>5. manifest.applied \in UsedLsns /\ \A r \in wal : r.lsn \in UsedLsns
    BY DEF UsedLsns
  <2> QED
    BY <2>3, <2>4, <2>5
<1>3. key_index' \in [Keys -> Locator \cup {None}]
  <2>1. ASSUME NEW k \in Keys, Checkpointed(k) # {}
        PROVE  Latest(Checkpointed(k)) \in Locator
    <3>1. Latest(Checkpointed(k)) \in SegmentLocs(manifest.segs, DOMAIN manifest.segs)
      BY <2>1, LatestIsCheckpointed DEF Checkpointed
    <3> QED
      BY <3>1, SegmentLocIsRow, Zenon DEF Inv
  <2> QED
    BY <2>1, Zenon DEF Open
<1>4. TypeOK'
  <2>1. /\ DOMAIN files' \subseteq Nat \ {0}
        /\ \A s \in DOMAIN files' : files'[s] \in Seq(Row)
    BY <1>1 DEF Inv, TypeOK, Referenced
  <2>2. next_lsn' \in Nat \ {0} /\ <<>> \in Seq(Row)
    BY <1>1, <1>2
  <2> QED
    BY <1>1, <1>3, <2>1, <2>2 DEF Inv, TypeOK, ControlStates, Tails
<1>5. LsnInv'
  <2>1. manifest.applied \in Nat /\ \A r \in wal : r.lsn \in Nat
    BY DEF Inv, TypeOK, Record
  <2> QED
    BY <1>1, <1>2, <2>1 DEF Inv, LsnInv
<1>6. IdInv'
  BY <1>1 DEF Inv, TypeOK, IdInv
<1>7. FileInv'
  BY <1>1 DEF Inv, FileInv, ManifestComplete, Referenced
<1> QED
  BY <1>4, <1>5, <1>6, <1>7 DEF Inv

\* A log that is refused is left as it is.
LEMMA OpenRefusedStep ==
    ASSUME Inv, OpenRefused
    PROVE  Inv'
<1>1. /\ files' = [s \in Referenced |-> files[s]] /\ pc = "down"
      /\ UNCHANGED <<wal, tail, manifest, memory, next_lsn, pc, pending, inputs, crashes, faults,
                     truth, limbo, stray>>
  BY DEF OpenRefused
<1>2. TypeOK'
  <2>1. /\ DOMAIN files' \subseteq Nat \ {0}
        /\ \A s \in DOMAIN files' : files'[s] \in Seq(Row)
    BY <1>1 DEF Inv, TypeOK, Referenced
  <2> QED
    BY <1>1, <2>1 DEF Inv, TypeOK, memory
<1>3. LsnInv' /\ IdInv'
  BY <1>1 DEF Inv, LsnInv, IdInv
<1>4. FileInv'
  BY <1>1 DEF Inv, FileInv, IdInv, ManifestComplete, Referenced, memory
<1> QED
  BY <1>2, <1>3, <1>4 DEF Inv

\* Replaying one record keeps it.
LEMMA ReplayStep ==
    ASSUME Inv, Replay
    PROVE  Inv'
<1> DEFINE todo == { r \in wal : r.lsn > last_lsn }
<1>1. /\ pc = "replay"
      /\ UNCHANGED <<disk, next_lsn, pending, inputs, crashes, faults, truth, limbo, stray>>
  BY DEF Replay
<1>2. CASE pc' = "idle" /\ UNCHANGED memory
  <2>1. TypeOK'
    BY <1>1, <1>2 DEF Inv, TypeOK, disk, memory, ControlStates
  <2>2. LsnInv' /\ IdInv' /\ FileInv'
    BY <1>1, <1>2 DEF Inv, LsnInv, IdInv, FileInv, ManifestComplete, disk, memory
  <2> QED
    BY <2>1, <2>2 DEF Inv
<1>3. CASE todo # {} /\ ApplyEntry(OldestOf(todo)) /\ UNCHANGED pc
  <2> DEFINE r == OldestOf(todo)
  <2>1. r \in wal
    BY <1>3, OldestOfIsLeft, Zenon
  <2>2. r \in Record /\ r.lsn \in Nat /\ r.lsn < next_lsn
    BY <1>1, <2>1 DEF Inv, TypeOK, LsnInv, Record
  <2> HIDE DEF r
  <2>3. ApplyEntry(r)
    BY <1>3 DEF r
  <2>4. /\ memtable' \in Seq(Row) /\ memtable_suppressed' \subseteq Nat \ {0}
        /\ DOMAIN segments' = DOMAIN segments
        /\ \A s \in DOMAIN segments' : segments'[s] \subseteq Nat \ {0}
        /\ key_index' \in [Keys -> Locator \cup {None}]
        /\ last_lsn' \in {last_lsn, r.lsn}
        /\ UNCHANGED <<applied_lsn, next_segment_id>>
    BY <2>2, <2>3, ApplyEntryTypes, Zenon
  <2>5. TypeOK'
    BY <1>1, <1>3, <2>2, <2>4 DEF Inv, TypeOK, disk
  <2>6. LsnInv'
    BY <1>1, <1>3, <2>2, <2>4 DEF Inv, LsnInv, disk
  <2>7. IdInv' /\ FileInv'
    BY <1>1, <1>3, <2>4 DEF Inv, IdInv, FileInv, ManifestComplete, disk
  <2> QED
    BY <2>5, <2>6, <2>7 DEF Inv
<1> QED
  BY <1>2, <1>3 DEF Replay

\* Inv is inductive.
LEMMA NextInv == Inv /\ [Next]_vars => Inv'
<1> SUFFICES ASSUME Inv, [Next]_vars PROVE Inv'
  OBVIOUS
<1>1. ASSUME NEW b \in Batches, Insert(b) \/ Upsert(b) PROVE Inv'
  <2>1. b \in Seq(Row) /\ {} \in SUBSET Keys
    BY PartitionAssumption
  <2>2. pc = "idle" /\ Log(b, {})
    BY <1>1 DEF Insert, Upsert
  <2> QED
    BY <2>1, <2>2, LogStep
<1>2. ASSUME NEW ks \in SUBSET Keys, Delete(ks) PROVE Inv'
  <2> DEFINE present == { k \in ks : key_index[k] # None }
  <2>1. <<>> \in Seq(Row) /\ present \in SUBSET Keys
    OBVIOUS
  <2>2. pc = "idle" /\ Log(<<>>, present)
    BY <1>2 DEF Delete
  <2> QED
    BY <2>1, <2>2, LogStep
<1>3. CASE Flush \/ Compact
  BY <1>3, RequestStep
<1>4. CASE Apply
  BY <1>4, ApplyStep
<1>5. CASE FlushSegment
  BY <1>5, FlushSegmentStep
<1>6. CASE FlushCommit \/ CompactCommit
  BY <1>6, CommitManifestStep
<1>7. CASE FlushTruncate
  BY <1>7, FlushTruncateStep
<1>8. CASE CompactMerge
  BY <1>8, CompactMergeStep
<1>9. CASE CompactDelete
  BY <1>9, CompactDeleteStep
<1>10. CASE Open
  BY <1>10, OpenStep
<1>11. CASE Replay
  BY <1>11, ReplayStep
<1>12. CASE Crash
  BY <1>12, CrashStep
<1>13. CASE OpenRefused
  BY <1>13, OpenRefusedStep
<1>14. CASE UNCHANGED vars
  <2>1. TypeOK'
    BY <1>14 DEF Inv, TypeOK, vars, disk, memory
  <2>2. LsnInv' /\ IdInv' /\ FileInv'
    BY <1>14 DEF Inv, LsnInv, IdInv, FileInv, ManifestComplete, vars, disk, memory
  <2> QED
    BY <2>1, <2>2 DEF Inv
<1> QED
  BY <1>1, <1>2, <1>3, <1>4, <1>5, <1>6, <1>7, <1>8, <1>9, <1>10, <1>11, <1>12, <1>13,
     <1>14 DEF Next, Request, Step

\* The invariant holds throughout every run of a partition.
LEMMA Invariance == Spec => []Inv
  BY InitInv, NextInv, PTL DEF Spec

-----------------------------------------------------------------------------
(* Theorems.                                                               *)

\* The durable files, PartitionState and the control state have their types in
\* every reachable state: index entries are locators whatever apply_rows,
\* relocate and rebuild_key_index did, and every file is a sequence of rows.
THEOREM TypeCorrect == Spec => []TypeOK
<1>1. Inv => TypeOK
  BY DEF Inv
<1> QED
  BY Invariance, <1>1, PTL

\* open() never finds the manifest naming a segment file that is missing or cut
\* short, wherever in a flush or a compaction the process died and whichever
\* file operations failed before: commit_manifest runs after write_segment, and
\* compact_locked deletes only after it.
THEOREM ManifestIsComplete == Spec => []ManifestComplete
<1>1. Inv => ManifestComplete
  BY DEF Inv, FileInv
<1> QED
  BY Invariance, <1>1, PTL

\* A record appended by FileLogStore has an lsn above the checkpoint and above
\* every record in the log, also after truncate_prefix emptied the log and the
\* process restarted.
THEOREM LsnsAreFresh == Spec => FreshLsn
<1> DEFINE A == \A r \in wal' \ wal :
                   r.lsn > manifest.applied /\ \A q \in wal : q.lsn < r.lsn
<1>1. Inv /\ [Next]_vars => [A]_vars
  <2> SUFFICES ASSUME Inv, Next, NEW r \in wal' \ wal
               PROVE  r.lsn > manifest.applied /\ \A q \in wal : q.lsn < r.lsn
    BY DEF vars
  <2>1. pc = "idle" /\ r.lsn = next_lsn
    <3>1. ASSUME NEW rows, NEW keys, Log(rows, keys) PROVE r.lsn = next_lsn
      BY <3>1 DEF Log
    <3>2. \/ \E b \in Batches : pc = "idle" /\ Log(b, {})
          \/ \E ks \in SUBSET Keys :
                pc = "idle" /\ Log(<<>>, { k \in ks : key_index[k] # None })
      <4>1. CASE Request
        BY <4>1 DEF Request, Insert, Upsert, Delete, Flush, Compact, disk
      <4>2. CASE Step \/ Crash
        <5>1. wal' \subseteq wal
          BY <4>2 DEF Step, Crash, Apply, FlushSegment, FlushCommit, FlushTruncate,
             CompactMerge, CompactCommit, CommitManifest, CompactDelete, Open, OpenRefused, Replay, disk
        <5> QED
          BY <5>1
      <4> QED
        BY <4>1, <4>2 DEF Next
    <3> QED
      BY <3>1, <3>2
  <2>2. /\ manifest.applied < next_lsn /\ \A q \in wal : q.lsn < next_lsn
        /\ manifest.applied \in Nat /\ next_lsn \in Nat
    BY <2>1 DEF Inv, TypeOK, LsnInv
  <2> QED
    BY <2>1, <2>2
<1> QED
  BY Invariance, <1>1, PTL DEF Spec, FreshLsn

\* No step of write, flush, compaction, crash or recovery changes or removes a
\* segment file that the manifest references: new files get ids the manifest has
\* never named, and only inputs it no longer names are deleted.
LEMMA ReferencedFilesKept ==
    ASSUME Inv, Next, NEW s \in DOMAIN manifest.segs
    PROVE  s \in DOMAIN files /\ s \in DOMAIN files' /\ files'[s] = files[s]
<1> DEFINE Kept == s \in DOMAIN files' /\ files'[s] = files[s]
<1>1. s \in DOMAIN files /\ (pc # "down" => s # next_segment_id)
  BY DEF Inv, TypeOK, IdInv, FileInv, ManifestComplete
<1>2. ASSUME NEW order, WriteSegment(order), pc # "down" PROVE Kept
  BY <1>1, <1>2 DEF WriteSegment
<1>3. ASSUME CutShort, pc # "down" PROVE Kept
  BY <1>1, <1>3 DEF CutShort
<1>4. CASE FlushSegment
  BY <1>1, <1>2, <1>3, <1>4 DEF FlushSegment, SegmentWriteFails
<1>5. CASE CompactMerge
  BY <1>1, <1>2, <1>3, <1>5 DEF CompactMerge, SegmentWriteFails
<1>6. CASE CompactDelete
  <2>1. ASSUME NEW t \in inputs, DeleteFile(t) PROVE Kept
    <3>1. s # t
      BY <1>6 DEF CompactDelete, Inv, FileInv
    <3> QED
      BY <1>1, <2>1, <3>1 DEF DeleteFile
  <2> QED
    BY <1>1, <1>6, <2>1 DEF CompactDelete
<1>7. CASE Open \/ OpenRefused
  BY <1>1, <1>7 DEF Open, OpenRefused, Referenced
<1>8. CASE Crash
  BY <1>1, <1>3, <1>8 DEF Crash
<1>9. CASE Request \/ Apply \/ FlushCommit \/ FlushTruncate \/ CompactCommit \/ Replay
  BY <1>1, <1>9 DEF Request, Insert, Upsert, Delete, Log, Flush, Compact, Apply, FlushCommit,
     FlushTruncate, CompactCommit, CommitManifest, Replay, disk
<1> QED
  BY <1>1, <1>4, <1>5, <1>6, <1>7, <1>8, <1>9 DEF Next, Step

\* Segments are immutable, and the manifest's survive every step.
THEOREM SegmentsAreImmutable == Spec => ImmutableSegments
<1> DEFINE A == \A s \in DOMAIN manifest.segs \cap DOMAIN manifest'.segs \cap DOMAIN files :
                   s \in DOMAIN files' /\ files'[s] = files[s]
<1>1. Inv /\ [Next]_vars => [A]_vars
  BY ReferencedFilesKept DEF vars
<1> QED
  BY Invariance, <1>1, PTL DEF Spec, ImmutableSegments

-----------------------------------------------------------------------------
(***************************************************************************)
(* Part 2: the key index.                                                  *)
(***************************************************************************)

-----------------------------------------------------------------------------
(* The inductive invariant.                                                *)

\* The visible rows, as a condition on a locator.
Live ==
    { l \in Locator :
        \/ l.src = 0 /\ l.ord \in DOMAIN memtable \ memtable_suppressed
        \/ l.src \in DOMAIN segments /\ l.ord \in DOMAIN files[l.src] \ segments[l.src] }

\* The rows recovery would rebuild the index from.
CheckpointedRows ==
    { l \in Locator :
        l.src \in DOMAIN manifest.segs
          /\ l.ord \in DOMAIN files[l.src] \ manifest.segs[l.src] }

\* Every index entry addresses a live row of its key, and every live row is
\* addressed by its key's entry; bitmaps name rows that exist.
LiveInv ==
    /\ memtable_suppressed \subseteq DOMAIN memtable
    /\ \A k \in Keys : key_index[k] # None =>
          key_index[k] \in Live /\ RowAt(key_index[k]).key = k
    /\ \A l \in Live : key_index[RowAt(l).key] = l

\* The manifest's segments hold at most one unsuppressed row of a key: recovery
\* suppresses nothing when it rebuilds the index.
CheckpointInv ==
    \A l, m \in CheckpointedRows : RowAt(l).key = RowAt(m).key => l = m

IndexInv == Inv /\ LiveInv /\ CheckpointInv

-----------------------------------------------------------------------------
(* Locators and the rows at them.                                          *)

\* A locator is its source and its ordinal.
LEMMA LocatorEq ==
    ASSUME NEW l \in Locator, NEW m \in Locator, l.src = m.src, l.ord = m.ord
    PROVE  l = m
BY DEF Locator

\* Every locator of the model is one.
LEMMA LocatorIs ==
    ASSUME NEW s \in Nat, NEW o \in Nat \ {0}
    PROVE  [src |-> s, ord |-> o] \in Locator
BY DEF Locator

\* A live locator leads to a row, whose key is a key.
LEMMA LiveIsRow ==
    ASSUME Inv, NEW l \in Live
    PROVE  RowAt(l) \in Row /\ RowAt(l).key \in Keys
<1>1. CASE l.src = 0 /\ l.ord \in DOMAIN memtable
  <2>1. memtable \in Seq(Row)
    BY DEF Inv, TypeOK
  <2>2. memtable[l.ord] \in Row
    BY <1>1, <2>1
  <2> QED
    BY <1>1, <2>2 DEF RowAt, Row
<1>2. CASE l.src \in DOMAIN segments /\ l.ord \in DOMAIN files[l.src]
  <2>1. files[l.src] \in Seq(Row) /\ l.src # 0
    BY <1>2 DEF Inv, TypeOK, FileInv
  <2>2. files[l.src][l.ord] \in Row
    BY <1>2, <2>1
  <2> QED
    BY <2>1, <2>2 DEF RowAt, Row
<1> QED
  BY <1>1, <1>2 DEF Live

\* Live is the set of rows a scan returns.
LEMMA LiveIsVisible ==
    ASSUME Inv
    PROVE  Live = Visible
<1>1. ASSUME NEW l \in Live PROVE l \in Visible
  <2>1. l = [src |-> l.src, ord |-> l.ord]
    BY DEF Live, Locator
  <2>2. CASE l.src = 0 /\ l.ord \in DOMAIN memtable \ memtable_suppressed
    <3>1. l = [src |-> 0, ord |-> l.ord]
      BY <2>1, <2>2
    <3> QED
      BY <2>2, <3>1, Zenon DEF Visible, MemtableLocs
  <2>3. CASE l.src \in DOMAIN segments /\ l.ord \in DOMAIN files[l.src] \ segments[l.src]
    <3>1. l.src \in DOMAIN segments \cap DOMAIN files
      BY <2>3 DEF Inv, FileInv
    <3>2. l \in { [src |-> l.src, ord |-> o] : o \in DOMAIN files[l.src] \ segments[l.src] }
      BY <2>1, <2>3
    <3> QED
      BY <3>1, <3>2 DEF Visible, SegmentLocs
  <2> QED
    BY <2>2, <2>3 DEF Live
<1>2. ASSUME NEW l \in MemtableLocs PROVE l \in Live
  <2>1. PICK o \in DOMAIN memtable \ memtable_suppressed : l = [src |-> 0, ord |-> o]
    BY DEF MemtableLocs
  <2>2. o \in Nat \ {0}
    BY DEF Inv, TypeOK
  <2> QED
    BY <2>1, <2>2, LocatorIs DEF Live
<1>3. ASSUME NEW l \in SegmentLocs(segments, DOMAIN segments) PROVE l \in Live
  <2>1. PICK s \in DOMAIN segments \cap DOMAIN files :
            l \in { [src |-> s, ord |-> o] : o \in DOMAIN files[s] \ segments[s] }
    BY DEF SegmentLocs
  <2>2. PICK o \in DOMAIN files[s] \ segments[s] : l = [src |-> s, ord |-> o]
    BY <2>1
  <2>3. l \in Locator
    BY SegmentLocIsRow DEF Inv
  <2> QED
    BY <2>2, <2>3 DEF Live
<1> QED
  BY <1>1, <1>2, <1>3, Zenon DEF Visible

-----------------------------------------------------------------------------
(* Applying a record.                                                      *)

\* suppress leaves out exactly the rows the keys' entries address.
LEMMA DisplacedIs ==
    ASSUME Inv, NEW ks \in SUBSET Keys, NEW l \in Locator
    PROVE  l.ord \in Displaced(ks, l.src) <=> \E k \in ks : key_index[k] = l
<1>1. ASSUME NEW k \in ks, key_index[k] # None, key_index[k].src = l.src, key_index[k].ord = l.ord
      PROVE  key_index[k] = l
  <2>1. key_index[k] \in Locator
    BY <1>1 DEF Inv, TypeOK
  <2> QED
    BY <1>1, <2>1, LocatorEq, Zenon
<1>2. l # None
  BY PartitionAssumption
<1> QED
  BY <1>1, <1>2, Zenon DEF Displaced

\* Which rows are live after a record: the old ones that no touched key's entry
\* addressed, and the last new row of each key; and where they are.
LEMMA ApplyEntryLive ==
    ASSUME Inv, LiveInv, NEW r \in Record, ApplyEntry(r), UNCHANGED files
    PROVE  /\ memtable_suppressed' \subseteq DOMAIN memtable'
           /\ \A l \in Live' :
                 \/ l \in Live /\ \A k \in Touches(r) : key_index[k] # l
                 \/ \E k \in KeysOf(r.rows) :
                       l = [src |-> 0, ord |-> Len(memtable) + LastOf(r.rows, k)]
           /\ \A l \in Live : (\A k \in Touches(r) : key_index[k] # l) =>
                 l \in Live' /\ RowAt(l)' = RowAt(l)
           /\ \A k \in KeysOf(r.rows), l \in Locator :
                 l.src = 0 /\ l.ord = Len(memtable) + LastOf(r.rows, k) =>
                    l \in Live' /\ RowAt(l)' = r.rows[LastOf(r.rows, k)]
<1> DEFINE n == Len(memtable)
           stale == { n + i : i \in { j \in DOMAIN r.rows :
                                        j # LastOf(r.rows, r.rows[j].key) } }
           NewLoc(k) == [src |-> 0, ord |-> n + LastOf(r.rows, k)]
<1>1. /\ r.rows \in Seq(Row) /\ memtable \in Seq(Row) /\ n \in Nat
      /\ DOMAIN memtable = 1 .. n /\ DOMAIN r.rows = 1 .. Len(r.rows) /\ Len(r.rows) \in Nat
  BY DEF Inv, TypeOK, Record
<1>2. /\ memtable' = memtable \o r.rows
      /\ memtable_suppressed' = memtable_suppressed \cup Displaced(Touches(r), 0) \cup stale
      /\ segments' = [s \in DOMAIN segments |-> segments[s] \cup Displaced(Touches(r), s)]
  BY DEF ApplyEntry
<1>3. /\ DOMAIN memtable' = 1 .. n + Len(r.rows)
      /\ \A o \in 1 .. n : memtable'[o] = memtable[o]
      /\ \A i \in 1 .. Len(r.rows) : memtable'[n + i] = r.rows[i]
  BY <1>1, <1>2
<1>4. Touches(r) \in SUBSET Keys
  <2>1. \A i \in DOMAIN r.rows : r.rows[i] \in Row
    BY <1>1
  <2> QED
    BY <2>1 DEF Touches, KeysOf, Record, Row
<1>5. \A k \in KeysOf(r.rows) :
         LastOf(r.rows, k) \in 1 .. Len(r.rows) /\ r.rows[LastOf(r.rows, k)].key = k
  BY <1>1, LastOfIsARow, Zenon
<1>6. \A k \in KeysOf(r.rows) : NewLoc(k) \in Locator
  <2>1. \A k \in KeysOf(r.rows) : n + LastOf(r.rows, k) \in Nat \ {0}
    BY <1>1, <1>5
  <2> QED
    BY <2>1 DEF Locator
<1>7. Displaced(Touches(r), 0) \subseteq 1 .. n
  <2> SUFFICES ASSUME NEW k \in Keys, key_index[k] # None, key_index[k].src = 0
               PROVE  key_index[k].ord \in 1 .. n
    BY <1>4, Zenon DEF Displaced
  <2>1. key_index[k] \in Live
    BY DEF LiveInv
  <2>2. 0 \notin DOMAIN segments
    BY DEF Inv, TypeOK
  <2> QED
    BY <1>1, <2>1, <2>2 DEF Live
<1>8. memtable_suppressed \subseteq 1 .. n
  BY <1>1 DEF LiveInv
<1>9. stale \subseteq n + 1 .. n + Len(r.rows)
  BY <1>1
<1>10. memtable_suppressed' \subseteq DOMAIN memtable'
  <2>1. 1 .. n \subseteq DOMAIN memtable' /\ n + 1 .. n + Len(r.rows) \subseteq DOMAIN memtable'
    BY <1>1, <1>3
  <2> HIDE DEF n, stale
  <2> QED
    BY <1>2, <1>7, <1>8, <1>9, <2>1
<1>11. ASSUME NEW l \in Live'
       PROVE  \/ l \in Live /\ \A k \in Touches(r) : key_index[k] # l
              \/ \E k \in KeysOf(r.rows) : l = NewLoc(k)
  <2>1. l \in Locator
    BY DEF Live
  <2>2. CASE l.src \in DOMAIN segments' /\ l.ord \in DOMAIN files'[l.src] \ segments'[l.src]
    <3>1. l.src \in DOMAIN segments /\ l.ord \in DOMAIN files[l.src] \ segments[l.src]
          /\ l.ord \notin Displaced(Touches(r), l.src)
      BY <1>2, <2>2
    <3> QED
      BY <1>4, <2>1, <3>1, DisplacedIs, Zenon DEF Live
  <2>3. CASE l.src = 0 /\ l.ord \in DOMAIN memtable' \ memtable_suppressed' /\ l.ord \in 1 .. n
    <3>1. l.ord \in DOMAIN memtable \ memtable_suppressed /\ l.ord \notin Displaced(Touches(r), l.src)
      BY <1>1, <1>2, <2>3
    <3>2. l \in Live
      BY <2>1, <2>3, <3>1 DEF Live
    <3> QED
      BY <1>4, <2>1, <3>1, <3>2, DisplacedIs, Zenon
  <2>4. CASE l.src = 0 /\ l.ord \in DOMAIN memtable' \ memtable_suppressed' /\ l.ord \notin 1 .. n
    <3> DEFINE i == l.ord - n
    <3>1. i \in 1 .. Len(r.rows) /\ l.ord = n + i
      BY <1>1, <1>3, <2>4
    <3>2. l.ord \notin stale
      BY <1>2, <2>4
    <3>3. i = LastOf(r.rows, r.rows[i].key) /\ r.rows[i].key \in KeysOf(r.rows)
      <4> HIDE DEF i
      <4> QED
        BY <1>1, <3>1, <3>2 DEF KeysOf
    <3>4. l = NewLoc(r.rows[i].key)
      <4>1. NewLoc(r.rows[i].key) \in Locator /\ NewLoc(r.rows[i].key).src = 0
            /\ NewLoc(r.rows[i].key).ord = l.ord
        BY <1>6, <3>1, <3>3
      <4> QED
        BY <2>1, <2>4, <4>1, LocatorEq
    <3> QED
      BY <3>3, <3>4
  <2> QED
    BY <2>2, <2>3, <2>4 DEF Live
<1>12. ASSUME NEW l \in Live, \A k \in Touches(r) : key_index[k] # l
       PROVE  l \in Live' /\ RowAt(l)' = RowAt(l)
  <2>1. l \in Locator
    BY DEF Live
  <2>2. l.ord \notin Displaced(Touches(r), l.src)
    BY <1>4, <1>12, <2>1, DisplacedIs, Zenon
  <2>3. CASE l.src = 0 /\ l.ord \in DOMAIN memtable \ memtable_suppressed
    <3>1. l.ord \in 1 .. n /\ l.ord \notin stale /\ l.ord \in DOMAIN memtable'
      BY <1>1, <1>3, <1>9, <2>3
    <3>2. l.ord \notin memtable_suppressed'
      BY <1>2, <2>2, <2>3, <3>1
    <3> QED
      BY <1>3, <2>1, <2>3, <3>1, <3>2 DEF Live, RowAt
  <2>4. CASE l.src \in DOMAIN segments /\ l.ord \in DOMAIN files[l.src] \ segments[l.src]
    <3>1. l.src # 0
      BY <2>4 DEF Inv, TypeOK
    <3> QED
      BY <1>2, <2>1, <2>2, <2>4, <3>1 DEF Live, RowAt
  <2> QED
    BY <2>3, <2>4 DEF Live
<1>13. ASSUME NEW k \in KeysOf(r.rows), NEW l \in Locator,
              l.src = 0, l.ord = n + LastOf(r.rows, k)
       PROVE  l \in Live' /\ RowAt(l)' = r.rows[LastOf(r.rows, k)]
  <2> DEFINE i == LastOf(r.rows, k)
  <2>1. i \in 1 .. Len(r.rows) /\ r.rows[i].key = k
    BY <1>5
  <2>2. n + i \in DOMAIN memtable' /\ memtable'[n + i] = r.rows[i] /\ n + i \notin 1 .. n
    <3> HIDE DEF i
    <3> QED
      BY <1>1, <1>3, <2>1
  <2>3. n + i \notin stale
    <3> SUFFICES ASSUME NEW j \in 1 .. Len(r.rows), n + i = n + j
                 PROVE  j = LastOf(r.rows, r.rows[j].key)
      BY <1>1
    <3>1. j = i
      <4> HIDE DEF i
      <4> QED
        BY <1>1, <2>1
    <3> QED
      BY <2>1, <3>1
  <2>4. n + i \notin memtable_suppressed'
    BY <1>2, <1>7, <1>8, <2>2, <2>3
  <2>5. l.ord = n + i
    BY <1>13
  <2> HIDE DEF i, n
  <2> QED
    BY <1>13, <2>2, <2>4, <2>5 DEF Live, RowAt, i
<1> QED
  BY <1>10, <1>11, <1>12, <1>13

\* apply_rows and apply_deletes keep index, bitmaps and rows together, and leave
\* at each key what the record says.
LEMMA ApplyEntryIndex ==
    ASSUME Inv, LiveInv, NEW r \in Record, ApplyEntry(r), UNCHANGED files
    PROVE  /\ LiveInv'
           /\ \A k \in Keys :
                 Served(k)' = IF k \in Touches(r) THEN Effect(r, k) ELSE Served(k)
<1> DEFINE n == Len(memtable)
<1>1. /\ memtable_suppressed' \subseteq DOMAIN memtable'
      /\ \A l \in Live' :
            \/ l \in Live /\ \A k \in Touches(r) : key_index[k] # l
            \/ \E k \in KeysOf(r.rows) : l = [src |-> 0, ord |-> n + LastOf(r.rows, k)]
      /\ \A l \in Live : (\A k \in Touches(r) : key_index[k] # l) =>
            l \in Live' /\ RowAt(l)' = RowAt(l)
      /\ \A k \in KeysOf(r.rows), l \in Locator :
            l.src = 0 /\ l.ord = n + LastOf(r.rows, k) =>
               l \in Live' /\ RowAt(l)' = r.rows[LastOf(r.rows, k)]
  BY ApplyEntryLive
<1>2. key_index' = [k \in Keys |->
          IF k \in KeysOf(r.rows) THEN [src |-> 0, ord |-> n + LastOf(r.rows, k)]
          ELSE IF k \in r.keys THEN None ELSE key_index[k]]
  BY DEF ApplyEntry
<1>3. Touches(r) \subseteq Keys /\ KeysOf(r.rows) \subseteq Touches(r) /\ r.keys \subseteq Touches(r)
  <2>1. \A i \in DOMAIN r.rows : r.rows[i] \in Row
    BY DEF Record
  <2> QED
    BY <2>1 DEF Touches, KeysOf, Record, Row
<1>4. \A k \in KeysOf(r.rows) : /\ r.rows[LastOf(r.rows, k)].key = k
                                /\ n + LastOf(r.rows, k) \in Nat \ {0}
  <2>1. n \in Nat /\ r.rows \in Seq(Row)
    BY DEF Inv, TypeOK, Record
  <2>2. \A k \in KeysOf(r.rows) :
            LastOf(r.rows, k) \in DOMAIN r.rows /\ r.rows[LastOf(r.rows, k)].key = k
    BY <2>1, LastOfIsARow, Zenon
  <2>3. DOMAIN r.rows \subseteq Nat \ {0}
    BY <2>1
  <2> QED
    BY <2>1, <2>2, <2>3
<1> HIDE DEF n
<1>5. ASSUME NEW k \in KeysOf(r.rows), NEW l, l = [src |-> 0, ord |-> n + LastOf(r.rows, k)]
      PROVE  l \in Locator /\ l \in Live' /\ RowAt(l)' = r.rows[LastOf(r.rows, k)]
  <2>1. l \in Locator /\ l.src = 0 /\ l.ord = n + LastOf(r.rows, k)
    BY <1>4, <1>5, LocatorIs
  <2> QED
    BY <1>1, <2>1, Zenon
<1>6. ASSUME NEW k \in Keys \ Touches(r), key_index[k] # None
      PROVE  /\ key_index[k] \in Live
             /\ \A j \in Touches(r) : key_index[j] # key_index[k]
  <2>1. \A j \in Keys : key_index[j] # None =>
            key_index[j] \in Live /\ RowAt(key_index[j]).key = j
    BY DEF LiveInv
  <2> QED
    BY <1>3, <1>6, <2>1, Zenon
<1>7. ASSUME NEW k \in Keys, NEW l, l = key_index'[k], l # None
      PROVE  /\ l \in Live' /\ RowAt(l)'.key = k
             /\ RowAt(l)'.val = IF k \in Touches(r) THEN Effect(r, k) ELSE Served(k)
  <2>1. CASE k \in KeysOf(r.rows)
    <3>1. l \in Live' /\ RowAt(l)' = r.rows[LastOf(r.rows, k)]
      BY <1>2, <1>5, <1>7, <2>1, Zenon
    <3> QED
      BY <1>3, <1>4, <2>1, <3>1 DEF Effect
  <2>2. CASE k \notin KeysOf(r.rows)
    <3>1. k \notin Touches(r) /\ l = key_index[k] /\ key_index[k] # None
      BY <1>2, <1>7, <2>2, Zenon DEF Touches
    <3>2. l \in Live' /\ RowAt(l)' = RowAt(l)
      BY <1>1, <1>6, <3>1, Zenon
    <3>3. RowAt(l).key = k /\ RowAt(l).val = Served(k)
      BY <3>1 DEF LiveInv, Served
    <3> QED
      BY <3>1, <3>2, <3>3
  <2> QED
    BY <2>1, <2>2
<1>8. ASSUME NEW k \in Keys, key_index'[k] = None
      PROVE  None = IF k \in Touches(r) THEN Effect(r, k) ELSE Served(k)
  <2>1. k \notin KeysOf(r.rows)
    <3> SUFFICES ASSUME k \in KeysOf(r.rows) PROVE FALSE
      OBVIOUS
    <3>1. None \in Locator
      BY <1>2, <1>5, <1>8, Zenon
    <3> QED
      BY <3>1, PartitionAssumption
  <2>2. CASE k \in r.keys
    BY <1>3, <2>1, <2>2 DEF Effect
  <2>3. CASE k \notin r.keys
    <3>1. k \notin Touches(r) /\ key_index[k] = None
      BY <1>2, <1>8, <2>1, <2>3, Zenon DEF Touches
    <3> QED
      BY <3>1 DEF Served
  <2> QED
    BY <2>2, <2>3
<1>9. ASSUME NEW l \in Live', NEW k, k = RowAt(l)'.key
      PROVE  key_index'[k] = l
  <2>1. CASE \E j \in KeysOf(r.rows) : l = [src |-> 0, ord |-> n + LastOf(r.rows, j)]
    <3>1. PICK j \in KeysOf(r.rows) : l = [src |-> 0, ord |-> n + LastOf(r.rows, j)]
      BY <2>1
    <3>2. k = j
      BY <1>4, <1>5, <1>9, <3>1
    <3> QED
      BY <1>2, <1>3, <3>1, <3>2
  <2>2. CASE l \in Live /\ \A j \in Touches(r) : key_index[j] # l
    <3>1. k = RowAt(l).key /\ k \in Keys /\ key_index[k] = l
      BY <1>1, <1>9, <2>2, LiveIsRow DEF LiveInv
    <3>2. k \notin Touches(r)
      BY <2>2, <3>1
    <3> QED
      BY <1>2, <1>3, <3>1, <3>2
  <2> QED
    BY <1>1, <2>1, <2>2, Zenon
<1>10. LiveInv'
  <2>1. \A k \in Keys : key_index'[k] # None =>
            key_index'[k] \in Live' /\ RowAt(key_index[k])'.key = k
    BY <1>7 DEF RowAt
  <2>2. \A l \in Live' : key_index'[RowAt(l)'.key] = l
    BY <1>9
  <2> QED
    BY <1>1, <2>1, <2>2 DEF LiveInv
<1>11. ASSUME NEW k \in Keys
       PROVE  Served(k)' = IF k \in Touches(r) THEN Effect(r, k) ELSE Served(k)
  <2>1. CASE key_index'[k] = None
    BY <1>8, <2>1 DEF Served
  <2>2. CASE key_index'[k] # None
    <3>1. Served(k)' = RowAt(key_index[k])'.val
      BY <2>2 DEF Served
    <3> QED
      BY <1>7, <2>2, <3>1 DEF RowAt
  <2> QED
    BY <2>1, <2>2
<1> QED
  BY <1>10, <1>11

-----------------------------------------------------------------------------
(* Relocating rows into a new segment.                                     *)

\* The rows of a flush or a merge are written once each, and all of them.
LEMMA OrderingEnumerates ==
    ASSUME NEW locs \in SUBSET Locator, IsFiniteSet(locs), locs # {},
           NEW order \in Orderings(locs)
    PROVE  /\ DOMAIN order \subseteq Nat \ {0}
           /\ \A i \in DOMAIN order : order[i] \in locs
           /\ \A i, j \in DOMAIN order : order[i] = order[j] => i = j
           /\ \A l \in locs : \E i \in DOMAIN order : order[i] = l
<1> DEFINE n == Cardinality(locs)
<1>1. n \in Nat
  BY FS_CardinalityType
<1>2. order \in [1 .. n -> locs] /\ \A i, j \in 1 .. n : i < j => LocLess(order[i], order[j])
  BY DEF Orderings
<1>3. ASSUME NEW i \in 1 .. n, NEW j \in 1 .. n, i < j PROVE order[i] # order[j]
  <2>1. LocLess(order[i], order[j]) /\ order[i] \in Locator
    BY <1>2, <1>3
  <2> QED
    BY <2>1 DEF LocLess, Locator
<1>4. \A i, j \in 1 .. n : order[i] = order[j] => i = j
  <2> SUFFICES ASSUME NEW i \in 1 .. n, NEW j \in 1 .. n, i # j
               PROVE  order[i] # order[j]
    OBVIOUS
  <2>1. i < j \/ j < i
    BY <1>1
  <2> QED
    BY <1>3, <2>1
<1>5. order \in Injection(1 .. n, locs)
  BY <1>2, <1>4 DEF Injection, IsInjective
<1>6. Cardinality(1 .. n) = n
  BY <1>1, FS_Interval
<1>7. order \in Surjection(1 .. n, locs)
  BY <1>5, <1>6, FS_Injection, Zenon
<1>8. \A l \in locs : \E i \in 1 .. n : order[i] = l
  BY <1>7 DEF Surjection
<1>9. DOMAIN order = 1 .. n
  BY <1>2
<1> QED
  BY <1>1, <1>2, <1>4, <1>8, <1>9

\* KeyIndex::relocate after a new segment was written: whoever drops the old
\* copies of the rows, and only those, finds the index exact again, and no key
\* reads differently.
LEMMA RelocateIndex ==
    ASSUME Inv, LiveInv, next_segment_id \notin DOMAIN segments,
           NEW locs \in SUBSET Live, IsFiniteSet(locs), locs # {},
           NEW order \in Orderings(locs), WriteSegment(order),
           memtable_suppressed' \subseteq DOMAIN memtable',
           \A l \in Live' : l \in Live \ locs \/ l.src = next_segment_id,
           \A l \in Live \ locs : l \in Live' /\ RowAt(l)' = RowAt(l),
           \A l \in Locator : l.src = next_segment_id /\ l.ord \in DOMAIN order => l \in Live'
    PROVE  LiveInv' /\ \A k \in Keys : Served(k)' = Served(k)
<1> DEFINE new == next_segment_id
<1>1. new \in Nat \ {0}
  BY DEF Inv, TypeOK
<1>2. locs \in SUBSET Locator
  BY DEF Live
<1>3. /\ DOMAIN order \subseteq Nat \ {0}
      /\ \A i \in DOMAIN order : order[i] \in locs
      /\ \A i, j \in DOMAIN order : order[i] = order[j] => i = j
      /\ \A l \in locs : \E i \in DOMAIN order : order[i] = l
  BY <1>2, OrderingEnumerates
<1>4. files'[new] = [i \in DOMAIN order |-> RowAt(order[i])]
  BY DEF WriteSegment
<1>5. key_index' = [k \in Keys |->
          IF \E i \in DOMAIN order : order[i] = key_index[k] /\ RowAt(order[i]).key = k
          THEN [src |-> new, ord |-> CHOOSE i \in DOMAIN order : order[i] = key_index[k]]
          ELSE key_index[k]]
  BY DEF WriteSegment
<1> HIDE DEF new
<1>6. ASSUME NEW l \in Live', l.src = new
      PROVE  l \in Locator /\ l.ord \in DOMAIN order
  <2>1. l.ord \in DOMAIN files'[new]
    BY <1>1, <1>6 DEF Live
  <2> QED
    BY <1>4, <1>6, <2>1 DEF Live
<1>7. ASSUME NEW l \in Locator, l.src = new, l.ord \in DOMAIN order
      PROVE  l \in Live' /\ RowAt(l)' = RowAt(order[l.ord])
  <2>1. RowAt(l)' = files'[new][l.ord]
    BY <1>1, <1>7 DEF RowAt
  <2> QED
    BY <1>4, <1>7, <2>1 DEF new
<1>8. ASSUME NEW i \in DOMAIN order, NEW k \in Keys, key_index[k] = order[i],
             NEW l \in Locator, l.src = new, l.ord = i
      PROVE  key_index'[k] = l /\ RowAt(order[i]).key = k
  <2>1. order[i] # None /\ RowAt(order[i]).key = k
    BY <1>2, <1>3, <1>8, PartitionAssumption DEF LiveInv
  <2>2. (CHOOSE j \in DOMAIN order : order[j] = key_index[k]) = i
    BY <1>3, <1>8
  <2>3. l = [src |-> new, ord |-> i]
    BY <1>8 DEF Locator
  <2> QED
    BY <1>5, <1>8, <2>1, <2>2, <2>3
<1>9. ASSUME NEW k \in Keys, key_index[k] \notin locs
      PROVE  key_index'[k] = key_index[k]
  BY <1>3, <1>5, <1>9
<1>10. ASSUME NEW k \in Keys, NEW l, l = key_index'[k], l # None
       PROVE  /\ l \in Live' /\ RowAt(l)'.key = k
              /\ key_index[k] # None /\ RowAt(l)' = RowAt(key_index[k])
  <2>1. CASE key_index[k] \in locs
    <3>1. PICK i \in DOMAIN order : order[i] = key_index[k]
      BY <1>3, <2>1
    <3>2. PICK m \in Locator : m.src = new /\ m.ord = i
      <4>1. [src |-> new, ord |-> i] \in Locator
        BY <1>1, <1>3, LocatorIs
      <4> QED
        BY <4>1
    <3>3. l = m /\ RowAt(order[i]).key = k
      BY <1>8, <1>10, <3>1, <3>2
    <3>4. m \in Live' /\ RowAt(m)' = RowAt(order[i])
      BY <1>7, <3>1, <3>2
    <3> QED
      BY <1>2, <2>1, <3>1, <3>3, <3>4, PartitionAssumption
  <2>2. CASE key_index[k] \notin locs
    <3>1. l = key_index[k] /\ l \in Live \ locs /\ RowAt(l).key = k
      BY <1>9, <1>10, <2>2 DEF LiveInv
    <3> QED
      BY <1>10, <3>1
  <2> QED
    BY <2>1, <2>2
<1>11. ASSUME NEW k \in Keys, key_index'[k] = None
       PROVE  key_index[k] = None
  <2>1. CASE key_index[k] \in locs
    <3>1. PICK i \in DOMAIN order : order[i] = key_index[k]
      BY <1>3, <2>1
    <3>2. PICK m \in Locator : m.src = new /\ m.ord = i
      <4>1. [src |-> new, ord |-> i] \in Locator
        BY <1>1, <1>3, LocatorIs
      <4> QED
        BY <4>1
    <3> QED
      BY <1>8, <1>11, <3>1, <3>2, PartitionAssumption
  <2> QED
    BY <1>9, <1>11, <2>1
<1>12. ASSUME NEW l \in Live', NEW k, k = RowAt(l)'.key
       PROVE  key_index'[k] = l
  <2>1. CASE l \in Live \ locs
    <3>1. k \in Keys /\ key_index[k] = l
      BY <1>12, <2>1, LiveIsRow DEF LiveInv
    <3> QED
      BY <1>9, <2>1, <3>1
  <2>2. CASE l.src = new
    <3>1. l \in Locator /\ l.ord \in DOMAIN order
      BY <1>6, <2>2
    <3>2. RowAt(l)' = RowAt(order[l.ord])
      BY <1>7, <2>2, <3>1
    <3>3. order[l.ord] \in Live
      BY <1>3, <3>1
    <3>4. k \in Keys /\ key_index[k] = order[l.ord]
      BY <1>12, <3>2, <3>3, LiveIsRow DEF LiveInv
    <3> QED
      BY <1>8, <2>2, <3>1, <3>4
  <2> QED
    BY <2>1, <2>2 DEF new
<1>13. LiveInv'
  <2>1. \A k \in Keys : key_index'[k] # None =>
            key_index'[k] \in Live' /\ RowAt(key_index[k])'.key = k
    BY <1>10 DEF RowAt
  <2>2. \A l \in Live' : key_index'[RowAt(l)'.key] = l
    BY <1>12
  <2> QED
    BY <2>1, <2>2 DEF LiveInv
<1>14. ASSUME NEW k \in Keys PROVE Served(k)' = Served(k)
  <2>1. CASE key_index'[k] = None
    BY <1>11, <2>1 DEF Served
  <2>2. CASE key_index'[k] # None
    <3>1. Served(k)' = RowAt(key_index[k])'.val
      BY <2>2 DEF Served
    <3>2. RowAt(key_index[k])' = RowAt(key_index[k]) /\ key_index[k] # None
      BY <1>10, <2>2 DEF RowAt
    <3> QED
      BY <3>1, <3>2 DEF Served
  <2> QED
    BY <2>1, <2>2
<1> QED
  BY <1>13, <1>14

-----------------------------------------------------------------------------
(* Every action keeps index, bitmaps and rows together.                    *)

\* The id of the next segment is not in use.
LEMMA NextIdIsNew ==
    ASSUME Inv, pc # "down"
    PROVE  next_segment_id \notin DOMAIN segments \cup DOMAIN manifest.segs
BY DEF Inv, TypeOK, IdInv

\* While memory and the files of its segments stay, so does what is served.
LEMMA MemoryKeptIndex ==
    ASSUME Inv, LiveInv, UNCHANGED memory,
           \A s \in DOMAIN segments : s \in DOMAIN files' /\ files'[s] = files[s]
    PROVE  LiveInv' /\ \A k \in Keys : Served(k)' = Served(k)
<1>1. UNCHANGED <<memtable, memtable_suppressed, segments, key_index>>
  BY DEF memory
<1>2. Live' = Live
  BY <1>1 DEF Live
<1>3. ASSUME NEW l \in Live PROVE RowAt(l)' = RowAt(l)
  <2>1. l.src = 0 \/ l.src \in DOMAIN segments
    BY DEF Live
  <2> QED
    BY <1>1, <2>1 DEF RowAt
<1>4. ASSUME NEW k \in Keys, key_index[k] # None
      PROVE  RowAt(key_index[k])' = RowAt(key_index[k])
  <2>1. key_index[k] \in Live
    BY <1>4 DEF LiveInv
  <2> QED
    BY <1>1, <1>3, <2>1 DEF RowAt
<1>5. LiveInv'
  <2>1. \A k \in Keys : key_index'[k] # None =>
            key_index'[k] \in Live' /\ RowAt(key_index[k])'.key = k
    BY <1>1, <1>2, <1>4 DEF LiveInv
  <2>2. \A l \in Live' : key_index'[RowAt(l)'.key] = l
    BY <1>1, <1>2, <1>3 DEF LiveInv
  <2>3. memtable_suppressed' \subseteq DOMAIN memtable'
    BY <1>1 DEF LiveInv
  <2> QED
    BY <2>1, <2>2, <2>3 DEF LiveInv
<1>6. \A k \in Keys : Served(k)' = Served(k)
  BY <1>1, <1>4 DEF Served
<1> QED
  BY <1>5, <1>6

\* A segment file cut short changes nothing memory refers to.
LEMMA SegmentWriteFailsIndex ==
    ASSUME Inv, LiveInv, pc # "down", SegmentWriteFails
    PROVE  LiveInv' /\ \A k \in Keys : Served(k)' = Served(k)
<1>1. CutShort /\ UNCHANGED memory
  BY DEF SegmentWriteFails
<1>2. \A s \in DOMAIN segments : s \in DOMAIN files' /\ files'[s] = files[s]
  BY <1>1, CutShortStep DEF Inv, FileInv
<1> QED
  BY <1>1, <1>2, MemoryKeptIndex

\* Flushing the memtable moves its live rows and drops the others.
LEMMA FlushSegmentIndex ==
    ASSUME Inv, LiveInv, FlushSegment
    PROVE  LiveInv' /\ \A k \in Keys : Served(k)' = Served(k)
<1>1. pc = "flush"
  BY DEF FlushSegment
<1>2. CASE SegmentWriteFails
  BY <1>1, <1>2, SegmentWriteFailsIndex
<1>3. MemtableLocs = { l \in Live : l.src = 0 }
  <2>1. ASSUME NEW l \in MemtableLocs PROVE l \in Live /\ l.src = 0
    <3>1. l \in Live
      BY LiveIsVisible DEF Visible
    <3> QED
      BY <3>1 DEF MemtableLocs
  <2>2. ASSUME NEW l \in Live, l.src = 0 PROVE l \in MemtableLocs
    <3>1. l \notin SegmentLocs(segments, DOMAIN segments)
      <4>1. 0 \notin DOMAIN segments
        BY DEF Inv, TypeOK
      <4> QED
        BY <2>2, <4>1, SegmentLocIsRow DEF Inv
    <3> QED
      BY <3>1, LiveIsVisible DEF Visible
  <2> QED
    BY <2>1, <2>2
<1>4. CASE /\ memtable' = <<>> /\ memtable_suppressed' = {}
           /\ MemtableLocs = {}
           /\ UNCHANGED <<files, key_index, segments, next_segment_id>>
  <2>1. Live' = Live
    <3>1. \A l \in Live : l.src # 0
      BY <1>3, <1>4
    <3> QED
      BY <1>4, <3>1 DEF Live
  <2>2. ASSUME NEW l \in Live PROVE RowAt(l)' = RowAt(l)
    <3>1. l.src # 0
      BY <1>3, <1>4
    <3> QED
      BY <1>4, <3>1 DEF RowAt
  <2>3. ASSUME NEW k \in Keys, key_index[k] # None
        PROVE  key_index[k] \in Live /\ RowAt(key_index[k])' = RowAt(key_index[k])
    <3>1. key_index[k] \in Live
      BY <2>3 DEF LiveInv
    <3> QED
      BY <1>4, <2>2, <3>1 DEF RowAt
  <2>4. LiveInv'
    <3>1. \A k \in Keys : key_index'[k] # None =>
              key_index'[k] \in Live' /\ RowAt(key_index[k])'.key = k
      BY <1>4, <2>1, <2>3 DEF LiveInv
    <3>2. \A l \in Live' : key_index'[RowAt(l)'.key] = l
      BY <1>4, <2>1, <2>2 DEF LiveInv
    <3>3. memtable_suppressed' \subseteq DOMAIN memtable'
      BY <1>4
    <3> QED
      BY <3>1, <3>2, <3>3 DEF LiveInv
  <2> QED
    BY <1>4, <2>3, <2>4 DEF Served
<1>5. CASE /\ memtable' = <<>> /\ memtable_suppressed' = {}
           /\ MemtableLocs # {}
           /\ \E order \in Orderings(MemtableLocs) : WriteSegment(order)
           /\ segments' = [s \in DOMAIN segments \cup {next_segment_id} |->
                              IF s = next_segment_id THEN {} ELSE segments[s]]
  <2>1. PICK order \in Orderings(MemtableLocs) : WriteSegment(order)
    BY <1>5
  <2>2. IsFiniteSet(MemtableLocs) /\ MemtableLocs \in SUBSET Live
    BY <1>3, MemtableLocsRows DEF Inv
  <2>3. next_segment_id \notin DOMAIN segments /\ next_segment_id # 0
    BY <1>1, NextIdIsNew DEF Inv, TypeOK
  <2>4. /\ files'[next_segment_id] = [i \in DOMAIN order |-> RowAt(order[i])]
        /\ \A s \in DOMAIN segments : s \in DOMAIN files' /\ files'[s] = files[s]
    BY <2>1, <2>3 DEF WriteSegment, Inv, FileInv
  <2>5. memtable_suppressed' \subseteq DOMAIN memtable'
    BY <1>5
  <2>6. ASSUME NEW l \in Live' PROVE l \in Live \ MemtableLocs \/ l.src = next_segment_id
    <3>1. /\ l \in Locator /\ l.src \in DOMAIN segments'
          /\ l.ord \in DOMAIN files'[l.src] \ segments'[l.src]
      <4>1. DOMAIN memtable' = {}
        BY <1>5
      <4> QED
        BY <4>1 DEF Live
    <3>2. CASE l.src # next_segment_id
      <4>1. l.src \in DOMAIN segments /\ l.src # 0
            /\ l.ord \in DOMAIN files[l.src] \ segments[l.src]
        BY <1>5, <2>4, <3>1, <3>2 DEF Inv, TypeOK
      <4> QED
        BY <1>3, <3>1, <4>1 DEF Live
    <3> QED
      BY <3>2
  <2>7. ASSUME NEW l \in Live \ MemtableLocs PROVE l \in Live' /\ RowAt(l)' = RowAt(l)
    <3>1. l.src \in DOMAIN segments /\ l.src # 0 /\ l.src # next_segment_id
      BY <1>3, <2>3 DEF Live
    <3> QED
      BY <1>5, <2>4, <3>1 DEF Live, RowAt
  <2>8. ASSUME NEW l \in Locator, l.src = next_segment_id, l.ord \in DOMAIN order
        PROVE  l \in Live'
    BY <1>5, <2>4, <2>8 DEF Live
  <2> QED
    BY <1>5, <2>1, <2>2, <2>3, <2>5, <2>6, <2>7, <2>8, RelocateIndex
<1> QED
  BY <1>2, <1>4, <1>5 DEF FlushSegment

\* Merging segments moves the live rows of the inputs and drops the others.
LEMMA CompactMergeIndex ==
    ASSUME Inv, LiveInv, CompactMerge
    PROVE  LiveInv' /\ \A k \in Keys : Served(k)' = Served(k)
<1> DEFINE ids  == select(segment_facts)
           kept == SegmentLocs(segments, ids)
<1>1. pc = "compact"
  BY DEF CompactMerge
<1>2. CASE SegmentWriteFails
  BY <1>1, <1>2, SegmentWriteFailsIndex
<1>3. ids \subseteq DOMAIN segments
  BY SelectsSegments
<1>4. next_segment_id \notin DOMAIN segments /\ next_segment_id \in Nat \ {0}
  BY <1>1, NextIdIsNew DEF Inv, TypeOK
<1>5. kept = { l \in Live : l.src \in ids }
  <2> HIDE DEF ids
  <2>1. ASSUME NEW l \in kept PROVE l \in Live /\ l.src \in ids
    <3>1. l.src \in ids /\ l \in SegmentLocs(segments, DOMAIN segments)
      BY <1>3, SegmentLocIsRow DEF Inv, SegmentLocs
    <3> QED
      BY <3>1, LiveIsVisible DEF Visible
  <2>2. ASSUME NEW l \in Live, l.src \in ids PROVE l \in kept
    <3>1. l \in SegmentLocs(segments, DOMAIN segments)
      <4>1. l \notin MemtableLocs
        <5>1. 0 \notin DOMAIN segments
          BY DEF Inv, TypeOK
        <5> QED
          BY <1>3, <2>2, <5>1 DEF MemtableLocs
      <4> QED
        BY <4>1, LiveIsVisible DEF Visible
    <3>2. PICK s \in DOMAIN segments \cap DOMAIN files :
              l \in { [src |-> s, ord |-> o] : o \in DOMAIN files[s] \ segments[s] }
      BY <3>1 DEF SegmentLocs
    <3>3. s = l.src
      BY <3>2
    <3> QED
      BY <2>2, <3>2, <3>3 DEF SegmentLocs
  <2> QED
    BY <2>1, <2>2
<1>6. CASE /\ kept = {} /\ UNCHANGED <<files, key_index, memtable, memtable_suppressed>>
           /\ segments' = [s \in DOMAIN segments \ ids |->
                              IF s = next_segment_id THEN {} ELSE segments[s]]
  <2> HIDE DEF ids, kept
  <2>1. Live' = Live
    <3>1. \A l \in Live : l.src \notin ids
      BY <1>5, <1>6
    <3>2. \A s \in DOMAIN segments' : s \in DOMAIN segments /\ segments'[s] = segments[s]
      BY <1>4, <1>6
    <3>3. \A s \in DOMAIN segments \ ids : s \in DOMAIN segments'
      BY <1>6
    <3> QED
      BY <1>6, <3>1, <3>2, <3>3 DEF Live
  <2>2. \A l : RowAt(l)' = RowAt(l)
    BY <1>6 DEF RowAt
  <2>3. \A k \in Keys : RowAt(key_index[k])' = RowAt(key_index[k])
    BY <1>6 DEF RowAt
  <2> QED
    BY <1>6, <2>1, <2>2, <2>3 DEF LiveInv, Served
<1>7. CASE /\ kept # {} /\ \E order \in Orderings(kept) : WriteSegment(order)
           /\ segments' = [s \in (DOMAIN segments \ ids) \cup {next_segment_id} |->
                              IF s = next_segment_id THEN {} ELSE segments[s]]
           /\ UNCHANGED <<memtable, memtable_suppressed>>
  <2>1. IsFiniteSet(kept)
    <3>1. ids \subseteq 1 .. next_segment_id
      <4>1. \A s \in DOMAIN segments : s \in Nat \ {0} /\ s < next_segment_id
        BY <1>1 DEF Inv, TypeOK, IdInv
      <4> QED
        BY <1>3, <1>4, <4>1
    <3> QED
      BY <1>4, <3>1, SegmentLocsFinite DEF Inv
  <2> HIDE DEF ids, kept
  <2>2. PICK order \in Orderings(kept) : WriteSegment(order)
    BY <1>7
  <2>3. kept \in SUBSET Live
    BY <1>5
  <2>4. /\ files'[next_segment_id] = [i \in DOMAIN order |-> RowAt(order[i])]
        /\ \A s \in DOMAIN segments : s \in DOMAIN files' /\ files'[s] = files[s]
    BY <1>4, <2>2 DEF WriteSegment, Inv, FileInv
  <2>5. memtable_suppressed' \subseteq DOMAIN memtable'
    BY <1>7 DEF LiveInv
  <2>6. ASSUME NEW l \in Live' PROVE l \in Live \ kept \/ l.src = next_segment_id
    <3>1. CASE l.src \in DOMAIN segments' /\ l.src # next_segment_id
               /\ l.ord \in DOMAIN files'[l.src] \ segments'[l.src]
      <4>1. l.src \in DOMAIN segments \ ids /\ l.ord \in DOMAIN files[l.src] \ segments[l.src]
        BY <1>7, <2>4, <3>1
      <4> QED
        BY <1>5, <4>1 DEF Live
    <3>2. CASE l.src = 0 /\ l.ord \in DOMAIN memtable' \ memtable_suppressed'
      <4>1. 0 \notin ids
        BY <1>3 DEF Inv, TypeOK
      <4> QED
        BY <1>5, <1>7, <3>2, <4>1 DEF Live
    <3> QED
      BY <3>1, <3>2 DEF Live
  <2>7. ASSUME NEW l \in Live \ kept PROVE l \in Live' /\ RowAt(l)' = RowAt(l)
    <3>1. CASE l.src = 0 /\ l.ord \in DOMAIN memtable \ memtable_suppressed
      BY <1>7, <3>1 DEF Live, RowAt
    <3>2. CASE l.src \in DOMAIN segments /\ l.ord \in DOMAIN files[l.src] \ segments[l.src]
      <4>1. l.src \in DOMAIN segments' /\ l.src # next_segment_id /\ l.src # 0
        BY <1>4, <1>5, <1>7, <3>2 DEF Inv, TypeOK
      <4> QED
        BY <1>7, <2>4, <3>2, <4>1 DEF Live, RowAt
    <3> QED
      BY <3>1, <3>2 DEF Live
  <2>8. ASSUME NEW l \in Locator, l.src = next_segment_id, l.ord \in DOMAIN order
        PROVE  l \in Live'
    BY <1>7, <2>4, <2>8 DEF Live
  <2> QED
    BY <1>4, <1>7, <2>1, <2>2, <2>3, <2>5, <2>6, <2>7, <2>8, RelocateIndex
<1> QED
  <2>1. \/ SegmentWriteFails
        \/ /\ IF kept = {} THEN UNCHANGED <<files, key_index>>
              ELSE \E order \in Orderings(kept) : WriteSegment(order)
           /\ segments' = [s \in (DOMAIN segments \ ids)
                                    \cup (IF kept = {} THEN {} ELSE {next_segment_id}) |->
                              IF s = next_segment_id THEN {} ELSE segments[s]]
           /\ UNCHANGED <<memtable, memtable_suppressed>>
    BY DEF CompactMerge
  <2> HIDE DEF ids, kept
  <2> QED
    BY <1>2, <1>6, <1>7, <2>1

\* A checkpointed locator leads to a row of a referenced segment.
LEMMA CheckpointedIsRow ==
    ASSUME Inv, NEW l \in CheckpointedRows
    PROVE  /\ RowAt(l) = files[l.src][l.ord] /\ RowAt(l) \in Row
           /\ l.src \in DOMAIN files /\ l.src # 0
<1>1. l.src \in DOMAIN manifest.segs /\ l.ord \in DOMAIN files[l.src]
  BY DEF CheckpointedRows
<1>2. l.src \in DOMAIN files /\ files[l.src] \in Seq(Row) /\ l.src # 0
  BY <1>1 DEF Inv, TypeOK, FileInv, ManifestComplete
<1>3. files[l.src][l.ord] \in Row
  BY <1>1, <1>2
<1> QED
  BY <1>2, <1>3 DEF RowAt

\* CheckpointedRows holds what rebuild_key_index reads, whatever the key.
LEMMA CheckpointedIs ==
    ASSUME Inv, NEW k
    PROVE  Checkpointed(k) = { l \in CheckpointedRows : RowAt(l).key = k }
<1> DEFINE M == SegmentLocs(manifest.segs, DOMAIN manifest.segs)
<1>1. ASSUME NEW l \in CheckpointedRows PROVE l \in M
  <2>1. /\ l.src \in DOMAIN manifest.segs \cap DOMAIN files
        /\ l.ord \in DOMAIN files[l.src] \ manifest.segs[l.src]
        /\ l = [src |-> l.src, ord |-> l.ord]
    BY CheckpointedIsRow DEF CheckpointedRows, Locator
  <2>2. l \in { [src |-> l.src, ord |-> o] : o \in DOMAIN files[l.src] \ manifest.segs[l.src] }
    BY <2>1
  <2> QED
    BY <2>1, <2>2 DEF SegmentLocs
<1>2. ASSUME NEW l \in M PROVE l \in CheckpointedRows
  <2>1. PICK s \in DOMAIN manifest.segs \cap DOMAIN files :
            l \in { [src |-> s, ord |-> o] : o \in DOMAIN files[s] \ manifest.segs[s] }
    BY DEF SegmentLocs
  <2>2. PICK o \in DOMAIN files[s] \ manifest.segs[s] : l = [src |-> s, ord |-> o]
    BY <2>1
  <2>3. l \in Locator
    BY SegmentLocIsRow DEF Inv
  <2> QED
    BY <2>2, <2>3 DEF CheckpointedRows
<1> QED
  BY <1>1, <1>2, Zenon DEF Checkpointed

\* What recovery finds at a key before it reads the log.
CheckpointValue(k) ==
    IF Checkpointed(k) # {} THEN RowAt(Latest(Checkpointed(k))).val ELSE None

\* rebuild_key_index: each key's entry is its one checkpointed row.
LEMMA OpenIndex ==
    ASSUME Inv, CheckpointInv, Open
    PROVE  LiveInv' /\ \A k \in Keys : Served(k)' = CheckpointValue(k)
<1>1. /\ files' = [s \in Referenced |-> files[s]]
      /\ memtable' = <<>> /\ memtable_suppressed' = {} /\ segments' = manifest.segs
      /\ key_index' = [k \in Keys |->
            IF Checkpointed(k) = {} THEN None ELSE Latest(Checkpointed(k))]
  BY DEF Open
<1>2. \A s \in DOMAIN manifest.segs : s \in DOMAIN files' /\ files'[s] = files[s]
  BY <1>1 DEF Inv, FileInv, ManifestComplete, Referenced
<1>3. Live' = CheckpointedRows
  <2>1. DOMAIN memtable' = {}
    BY <1>1
  <2> QED
    BY <1>1, <1>2, <2>1 DEF Live, CheckpointedRows
<1>4. ASSUME NEW l \in CheckpointedRows PROVE RowAt(l)' = RowAt(l) /\ RowAt(l).key \in Keys
  <2>1. l.src \in DOMAIN manifest.segs /\ l.src # 0 /\ RowAt(l) \in Row
    BY CheckpointedIsRow DEF CheckpointedRows
  <2> QED
    BY <1>2, <2>1 DEF RowAt, Row
<1>5. ASSUME NEW k \in Keys, NEW l, l = key_index'[k], l # None
      PROVE  /\ l \in Live' /\ RowAt(l)'.key = k
             /\ Checkpointed(k) # {} /\ l = Latest(Checkpointed(k)) /\ RowAt(l)' = RowAt(l)
  <2>1. Checkpointed(k) # {} /\ l = Latest(Checkpointed(k))
    BY <1>1, <1>5
  <2>2. l \in CheckpointedRows /\ RowAt(l).key = k
    BY <2>1, LatestIsCheckpointed, CheckpointedIs
  <2> QED
    BY <1>3, <1>4, <2>1, <2>2
<1>6. ASSUME NEW k \in Keys, key_index'[k] = None PROVE Checkpointed(k) = {}
  <2> SUFFICES ASSUME Checkpointed(k) # {} PROVE FALSE
    OBVIOUS
  <2>1. Latest(Checkpointed(k)) \in CheckpointedRows
    BY LatestIsCheckpointed, CheckpointedIs
  <2> QED
    BY <1>1, <1>6, <2>1, PartitionAssumption DEF CheckpointedRows
<1>7. ASSUME NEW l \in Live', NEW k, k = RowAt(l)'.key PROVE key_index'[k] = l
  <2>1. l \in CheckpointedRows /\ k = RowAt(l).key /\ k \in Keys
    BY <1>3, <1>4, <1>7
  <2>2. l \in Checkpointed(k)
    BY <2>1, CheckpointedIs
  <2>3. Latest(Checkpointed(k)) \in Checkpointed(k)
    BY <2>2, LatestIsCheckpointed
  <2>4. Latest(Checkpointed(k)) = l
    BY <2>1, <2>2, <2>3, CheckpointedIs DEF CheckpointInv
  <2> QED
    BY <1>1, <2>1, <2>2, <2>4
<1>8. LiveInv'
  <2>1. \A k \in Keys : key_index'[k] # None =>
            key_index'[k] \in Live' /\ RowAt(key_index[k])'.key = k
    BY <1>5 DEF RowAt
  <2>2. \A l \in Live' : key_index'[RowAt(l)'.key] = l
    BY <1>7
  <2>3. memtable_suppressed' \subseteq DOMAIN memtable'
    BY <1>1
  <2> QED
    BY <2>1, <2>2, <2>3 DEF LiveInv
<1>9. ASSUME NEW k \in Keys PROVE Served(k)' = CheckpointValue(k)
  <2>1. CASE key_index'[k] = None
    BY <1>6, <2>1 DEF Served, CheckpointValue
  <2>2. CASE key_index'[k] # None
    <3>1. Served(k)' = RowAt(key_index[k])'.val
      BY <2>2 DEF Served
    <3>2. RowAt(key_index[k])' = RowAt(Latest(Checkpointed(k))) /\ Checkpointed(k) # {}
      <4>1. PICK l : l = key_index'[k]
        OBVIOUS
      <4>2. RowAt(key_index[k])' = RowAt(l)'
        BY <4>1 DEF RowAt
      <4> QED
        BY <1>5, <2>2, <4>1, <4>2
    <3> QED
      BY <3>1, <3>2 DEF CheckpointValue
  <2> QED
    BY <2>1, <2>2
<1> QED
  BY <1>8, <1>9

\* A crash leaves an empty memory, which is trivially exact.
LEMMA CrashIndex ==
    ASSUME Crash
    PROVE  LiveInv'
<1>1. /\ memtable' = <<>> /\ memtable_suppressed' = {} /\ segments' = <<>>
      /\ key_index' = [k \in Keys |-> None]
  BY DEF Crash
<1>2. Live' = {}
  <2>1. DOMAIN memtable' = {} /\ DOMAIN segments' = {}
    BY <1>1
  <2> QED
    BY <2>1 DEF Live
<1> QED
  BY <1>1, <1>2 DEF LiveInv

\* The steps that leave memory and its segments' files alone.
LEMMA MemoryKept ==
    ASSUME Inv, [Next]_vars,
           ~Apply, ~FlushSegment, ~CompactMerge, ~Open, ~Crash,
           ~(Replay /\ ~UNCHANGED memory)
    PROVE  /\ UNCHANGED memory
           /\ \A s \in DOMAIN segments : s \in DOMAIN files' /\ files'[s] = files[s]
<1>1. \A s \in DOMAIN segments : s \in DOMAIN files
  BY DEF Inv, FileInv
<1>2. CASE Request \/ FlushCommit \/ CompactCommit \/ FlushTruncate
           \/ (Replay /\ UNCHANGED memory) \/ UNCHANGED vars
  <2>1. UNCHANGED memory /\ UNCHANGED files
    BY <1>2 DEF Request, Insert, Upsert, Delete, Log, Flush, Compact, FlushCommit,
       CompactCommit, CommitManifest, FlushTruncate, Replay, vars, disk
  <2> QED
    BY <1>1, <2>1
<1>3. CASE CompactDelete
  <2>1. UNCHANGED memory /\ pc = "delete"
    BY <1>3 DEF CompactDelete
  <2>2. ASSUME NEW t \in inputs, DeleteFile(t), NEW s \in DOMAIN segments
        PROVE  s \in DOMAIN files' /\ files'[s] = files[s]
    <3>1. s # t
      BY <2>1, <2>2 DEF Inv, FileInv
    <3> QED
      BY <1>1, <2>2, <3>1 DEF DeleteFile
  <2> QED
    BY <1>1, <1>3, <2>1, <2>2 DEF CompactDelete
<1>4. CASE OpenRefused
  BY <1>4 DEF OpenRefused, Inv, FileInv
<1> QED
  BY <1>2, <1>3, <1>4 DEF Next, Step

\* Which steps change the manifest, and to what.
LEMMA ManifestSteps ==
    ASSUME [Next]_vars
    PROVE  \/ manifest' = manifest
           \/ /\ FlushCommit \/ CompactCommit
              /\ manifest' = ManifestNow
              /\ UNCHANGED <<wal, tail, files, memory, next_lsn, crashes, truth, limbo, stray>>
<1>1. CASE FlushCommit \/ CompactCommit
  BY <1>1 DEF FlushCommit, CompactCommit, CommitManifest
<1>2. CASE ~(FlushCommit \/ CompactCommit)
  BY <1>2 DEF Next, Request, Insert, Upsert, Delete, Log, Flush, Compact, Step, Apply,
     FlushSegment, FlushTruncate, CompactMerge, CompactDelete, Open, OpenRefused, Replay, Crash,
     vars, disk
<1> QED
  BY <1>1, <1>2

\* A manifest is committed from an exact state, and its files stay.
LEMMA CheckpointStep ==
    ASSUME Inv, LiveInv, CheckpointInv, [Next]_vars
    PROVE  CheckpointInv'
<1>1. CASE manifest' = manifest
  <2>1. \A s \in DOMAIN manifest.segs : s \in DOMAIN files' /\ files'[s] = files[s]
    BY ReferencedFilesKept DEF vars, disk, Inv, FileInv, ManifestComplete
  <2>2. CheckpointedRows' = CheckpointedRows
    BY <1>1, <2>1 DEF CheckpointedRows
  <2>3. ASSUME NEW l \in CheckpointedRows PROVE RowAt(l)' = RowAt(l)
    <3>1. l.src \in DOMAIN manifest.segs /\ l.src # 0
      BY CheckpointedIsRow DEF CheckpointedRows
    <3> QED
      BY <2>1, <3>1 DEF RowAt
  <2> QED
    BY <2>2, <2>3 DEF CheckpointInv
<1>2. CASE manifest' = ManifestNow /\ UNCHANGED <<files, memory>>
  <2>1. manifest'.segs = segments /\ UNCHANGED <<files, memtable>>
    BY <1>2 DEF ManifestNow, memory
  <2>2. CheckpointedRows' \subseteq Live
    BY <2>1 DEF CheckpointedRows, Live
  <2>3. \A l : RowAt(l)' = RowAt(l)
    BY <2>1 DEF RowAt
  <2>4. \A l, m \in Live : RowAt(l).key = RowAt(m).key => l = m
    BY DEF LiveInv
  <2> QED
    BY <2>2, <2>3, <2>4 DEF CheckpointInv
<1> QED
  BY <1>1, <1>2, ManifestSteps

\* IndexInv holds of a new partition and every step keeps it.
LEMMA IndexInvInductive ==
    /\ Init => IndexInv
    /\ IndexInv /\ [Next]_vars => IndexInv'
<1>1. ASSUME Init PROVE IndexInv
  <2>1. Live = {} /\ CheckpointedRows = {}
    <3>1. DOMAIN memtable = {} /\ DOMAIN segments = {} /\ DOMAIN manifest.segs = {}
      BY <1>1 DEF Init
    <3> QED
      BY <3>1 DEF Live, CheckpointedRows
  <2> QED
    BY <1>1, <2>1, InitInv DEF IndexInv, LiveInv, CheckpointInv, Init
<1>2. ASSUME IndexInv, [Next]_vars PROVE IndexInv'
  <2>1. Inv /\ LiveInv /\ CheckpointInv
    BY <1>2 DEF IndexInv
  <2>2. Inv' /\ CheckpointInv'
    BY <1>2, <2>1, NextInv, CheckpointStep
  <2>3. CASE Apply
    <3>1. pending \in Record /\ ApplyEntry(pending) /\ UNCHANGED files
      BY <2>1, <2>3 DEF Inv, LsnInv, Apply, disk
    <3> QED
      BY <2>1, <2>2, <3>1, ApplyEntryIndex DEF IndexInv
  <2>4. CASE Replay /\ ~UNCHANGED memory
    <3>1. PICK r \in Record : ApplyEntry(r) /\ UNCHANGED files
      <4> DEFINE todo == { q \in wal : q.lsn > last_lsn }
      <4>1. todo # {} /\ ApplyEntry(OldestOf(todo)) /\ UNCHANGED files
        BY <2>4 DEF Replay, disk
      <4>2. OldestOf(todo) \in wal
        BY <2>1, <4>1, OldestOfIsLeft, Zenon
      <4>3. OldestOf(todo) \in Record
        BY <2>1, <4>2 DEF Inv, TypeOK
      <4> HIDE DEF todo
      <4> QED
        BY <4>1, <4>3
    <3> QED
      BY <2>1, <2>2, <3>1, ApplyEntryIndex DEF IndexInv
  <2>5. CASE FlushSegment
    BY <2>1, <2>2, <2>5, FlushSegmentIndex DEF IndexInv
  <2>6. CASE CompactMerge
    BY <2>1, <2>2, <2>6, CompactMergeIndex DEF IndexInv
  <2>7. CASE Open
    BY <2>1, <2>2, <2>7, OpenIndex DEF IndexInv
  <2>8. CASE Crash
    BY <2>2, <2>8, CrashIndex DEF IndexInv
  <2>9. CASE ~Apply /\ ~FlushSegment /\ ~CompactMerge /\ ~Open /\ ~Crash
             /\ ~(Replay /\ ~UNCHANGED memory)
    BY <1>2, <2>1, <2>2, <2>9, MemoryKept, MemoryKeptIndex DEF IndexInv
  <2> QED
    BY <2>3, <2>4, <2>5, <2>6, <2>7, <2>8, <2>9
<1> QED
  BY <1>1, <1>2

\* It holds in every reachable state.
LEMMA IndexInvariance == Spec => []IndexInv
BY IndexInvInductive, PTL DEF Spec

-----------------------------------------------------------------------------
(* Files that nothing references.                                          *)

\* Without failed file operations the files on disk are the segments in memory
\* and, while a compaction is finishing, the inputs it has yet to delete.
OrphanInv ==
    faults = 0 /\ pc # "down" =>
        DOMAIN files = DOMAIN segments
            \cup (IF pc \in {"compact_commit", "delete"} THEN inputs ELSE {})

\* No step without a failure leaves another file.
LEMMA OrphanStep ==
    ASSUME Inv, OrphanInv, [Next]_vars
    PROVE  OrphanInv'
<1> SUFFICES ASSUME faults' = 0, pc' # "down"
             PROVE  DOMAIN files' = DOMAIN segments'
                        \cup (IF pc' \in {"compact_commit", "delete"} THEN inputs' ELSE {})
  BY DEF OrphanInv
<1>1. \A kind : ~Fail(kind)
  BY DEF Fail, Inv, TypeOK
<1>2. CASE Open
  BY <1>2 DEF Open, Referenced
<1>3. CASE Crash
  BY <1>3 DEF Crash
<1>4. CASE UNCHANGED vars
  BY <1>4 DEF OrphanInv, vars, disk, memory
<1>5. CASE Request
  BY <1>1, <1>5 DEF OrphanInv, Request, Insert, Upsert, Delete, Log, Flush, Compact, disk, memory
<1>6. CASE Apply
  <2>1. DOMAIN segments' = DOMAIN segments /\ faults = 0
    BY <1>6 DEF Apply, ApplyEntry
  <2> QED
    BY <1>6, <2>1 DEF OrphanInv, Apply, disk
<1>7. CASE FlushSegment
  <2>1. ~SegmentWriteFails /\ pc = "flush" /\ faults = 0 /\ pc' = "commit"
    BY <1>1, <1>7 DEF FlushSegment, SegmentWriteFails
  <2>2. CASE MemtableLocs = {}
    BY <1>7, <2>1, <2>2 DEF OrphanInv, FlushSegment
  <2>3. CASE MemtableLocs # {}
    <3>1. DOMAIN files' = DOMAIN files \cup {next_segment_id}
          /\ DOMAIN segments' = DOMAIN segments \cup {next_segment_id}
      BY <1>7, <2>1, <2>3 DEF FlushSegment, WriteSegment
    <3> QED
      BY <2>1, <3>1 DEF OrphanInv
  <2> QED
    BY <2>2, <2>3
<1>8. CASE FlushCommit \/ CompactCommit
  <2>1. UNCHANGED <<files, segments, inputs, faults>>
        /\ \/ pc = "commit" /\ pc' = "truncate"
           \/ pc = "compact_commit" /\ pc' = "delete"
    BY <1>1, <1>8 DEF FlushCommit, CompactCommit, CommitManifest, memory
  <2> QED
    BY <2>1 DEF OrphanInv
<1>9. CASE FlushTruncate
  BY <1>1, <1>9 DEF OrphanInv, FlushTruncate, Abort, memory
<1>10. CASE CompactMerge
  <2> DEFINE ids  == select(segment_facts)
             kept == SegmentLocs(segments, ids)
  <2>1. ids \subseteq DOMAIN segments
    BY SelectsSegments
  <2>2. /\ ~SegmentWriteFails /\ pc = "compact" /\ faults = 0
        /\ pc' = "compact_commit" /\ inputs' = ids
        /\ IF kept = {} THEN UNCHANGED <<files, key_index>>
           ELSE \E order \in Orderings(kept) : WriteSegment(order)
        /\ DOMAIN segments' = (DOMAIN segments \ ids)
                                 \cup (IF kept = {} THEN {} ELSE {next_segment_id})
    BY <1>1, <1>10 DEF CompactMerge, SegmentWriteFails
  <2> HIDE DEF ids, kept
  <2>3. DOMAIN files' = DOMAIN files \cup (IF kept = {} THEN {} ELSE {next_segment_id})
    BY <2>2 DEF WriteSegment
  <2> QED
    BY <2>1, <2>2, <2>3 DEF OrphanInv
<1>11. CASE CompactDelete
  <2>1. PICK s \in inputs : DeleteFile(s)
    BY <1>1, <1>11 DEF CompactDelete
  <2>2. /\ pc = "delete" /\ UNCHANGED <<faults, segments>>
        /\ pc' = IF inputs' = {} THEN "idle" ELSE "delete"
    BY <1>1, <1>11 DEF CompactDelete, memory
  <2>3. s \notin DOMAIN segments
    BY <2>2 DEF Inv, FileInv
  <2>4. DOMAIN files' = DOMAIN files \ {s} /\ inputs' = inputs \ {s}
    BY <2>1 DEF DeleteFile
  <2> QED
    BY <2>2, <2>3, <2>4 DEF OrphanInv
<1>12. CASE Replay
  <2>1. pc = "replay" /\ pc' \in {"replay", "idle"} /\ UNCHANGED <<files, faults>>
        /\ DOMAIN segments' = DOMAIN segments
    BY <1>12 DEF Replay, ApplyEntry, memory, disk
  <2> QED
    BY <2>1 DEF OrphanInv
<1>13. CASE OpenRefused
  BY <1>13 DEF OpenRefused
<1> QED
  BY <1>2, <1>3, <1>4, <1>5, <1>6, <1>7, <1>8, <1>9, <1>10, <1>11, <1>12, <1>13 DEF Next, Step

-----------------------------------------------------------------------------
(* Theorems.                                                               *)

\* A scan, which reads segments and suppression bitmaps, and a point lookup,
\* which reads the key index, see the same table in every reachable state: no
\* sequence of writes, flushes, merges, failed file operations, crashes and
\* replays leaves a key with two visible rows, an entry that leads to another
\* key's row, or a visible row its key's entry does not address.
THEOREM IndexIsExact == Spec => []IndexExact
<1>1. IndexInv => IndexExact
  <2> SUFFICES ASSUME IndexInv, NEW k \in Keys
               PROVE  { l \in Visible : RowAt(l).key = k }
                        = (IF key_index[k] = None THEN {} ELSE {key_index[k]})
    BY DEF IndexExact
  <2>1. LiveInv /\ Visible = Live
    BY LiveIsVisible DEF IndexInv
  <2>2. None \notin Live
    BY PartitionAssumption DEF Live
  <2> QED
    BY <2>1, <2>2 DEF LiveInv
<1> QED
  BY IndexInvariance, <1>1, PTL

\* As long as no file operation fails, a partition at rest has exactly the files
\* of its segments: compact_locked deletes all of its inputs, and open() removes
\* what a crash in the middle of a flush or a merge left.
THEOREM NothingIsOrphaned == Spec => []NoOrphans
<1>1. Init => OrphanInv
  BY DEF Init, OrphanInv
<1>2. Inv /\ OrphanInv /\ [Next]_vars => OrphanInv'
  BY OrphanStep
<1>3. OrphanInv => NoOrphans
  BY DEF OrphanInv, NoOrphans
<1> QED
  BY Invariance, <1>1, <1>2, <1>3, PTL DEF Spec

-----------------------------------------------------------------------------
(***************************************************************************)
(* Part 3: what is served and what recovers.                               *)
(***************************************************************************)

-----------------------------------------------------------------------------
(* The inductive invariant.                                                *)

\* The order of the lsns: each names one record, checkpoint <= flushed <=
\* applied, and the record being written is above the log's, and in it unless
\* the log was damaged.
LogInv ==
    /\ \A r, q \in wal : r.lsn = q.lsn => r = q
    /\ pc # "down" => manifest.applied <= applied_lsn /\ applied_lsn <= last_lsn
    /\ pc = "truncate" => manifest.applied = applied_lsn
    /\ pc = "apply" =>
          /\ last_lsn < pending.lsn
          /\ \A q \in wal \ {pending} : q.lsn < pending.lsn
          /\ pending \in wal <=> tail = "whole"
    /\ pc # "apply" => pending = None

\* An applied record that the log does not hold is above the log's records, and
\* its keys are in memory only, until a manifest covers it; the log stays damaged
\* as long.
StrayInv ==
    /\ \A r \in stray : r.lsn <= last_lsn
    /\ \A r \in stray : r.lsn > manifest.applied =>
          tail # "whole" /\ \A q \in wal : q.lsn < r.lsn
    /\ \A r \in stray : r.lsn > applied_lsn =>
          \A k \in Touches(r) \cap Keys : key_index[k] = None \/ key_index[k].src = 0
    /\ pc \in {"commit", "truncate"} => applied_lsn = last_lsn
    /\ pc \in {"down", "replay"} => stray = {}

\* A key whose row is still in the memtable has a record, in the log or not, that
\* the next manifest will not cover.
UnflushedInv ==
    \A k \in Keys : key_index[k] # None /\ key_index[k].src = 0 =>
        \E r \in wal \cup stray : r.lsn > applied_lsn /\ k \in Touches(r)

\* The part of a key's log tail that replay has applied, and what it leaves.
Replayed(k) == { r \in LogTail(k) : r.lsn <= last_lsn }

ReplayedValue(k) ==
    IF Replayed(k) # {} THEN Effect(LastRecord(Replayed(k)), k) ELSE CheckpointValue(k)

\* From a crash to the end of recovery, what counts is what the disk holds, and
\* replay has rebuilt that much of it.
RecoveringInv ==
    /\ pc \in {"down", "replay"} => limbo = {} /\ \A k \in Keys : truth[k] = Recovered(k)
    /\ pc = "replay" => \A k \in Keys : Served(k) = ReplayedValue(k)

RecoveryInv ==
    IndexInv /\ LogInv /\ StrayInv /\ UnflushedInv /\ RecoveringInv /\ ServesTruth /\ Durable

-----------------------------------------------------------------------------
(* The last record of a key.                                               *)

\* The record with the greatest lsn, when lsns are unique.
LEMMA LastRecordIs ==
    ASSUME NEW recs, \A r \in recs : r.lsn \in Nat,
           NEW x \in recs, \A r \in recs : r.lsn <= x.lsn,
           \A r \in recs : r.lsn = x.lsn => r = x
    PROVE  LastRecord(recs) = x
<1>1. LastRecord(recs) \in recs /\ \A q \in recs : q.lsn <= LastRecord(recs).lsn
  BY Zenon DEF LastRecord
<1> QED
  BY <1>1

\* Records of the log have lsns, and a nonempty set of them has a last one.
LEMMA LastRecordIsLast ==
    ASSUME Inv, NEW recs \in SUBSET wal, recs # {}
    PROVE  /\ LastRecord(recs) \in recs
           /\ \A q \in recs : q.lsn <= LastRecord(recs).lsn
           /\ \A q \in recs : q.lsn \in Nat
<1> DEFINE L == { r.lsn : r \in recs }
<1>1. \A r \in recs : r.lsn \in Nat /\ r.lsn <= MaxLsn
  BY DEF Inv, TypeOK, LsnInv, Record
<1>2. MaxLsn \in Nat
  BY PartitionAssumption
<1>3. L \subseteq 0 .. MaxLsn /\ L # {}
  BY <1>1, <1>2
<1>4. PICK n \in L : \A y \in L : y <= n
  BY <1>2, <1>3, GreatestExists, Zenon
<1>5. \E r \in recs : \A q \in recs : q.lsn <= r.lsn
  BY <1>4
<1> QED
  BY <1>1, <1>5, Zenon DEF LastRecord

\* Dropping older records from a set that keeps its last one.
LEMMA LastRecordKept ==
    ASSUME Inv, LogInv, NEW recs \in SUBSET wal, NEW n,
           { r \in recs : r.lsn > n } # {}, n \in Nat
    PROVE  LastRecord({ r \in recs : r.lsn > n }) = LastRecord(recs)
<1> DEFINE some == { r \in recs : r.lsn > n }
           x    == LastRecord(recs)
<1>1. x \in recs /\ \A q \in recs : q.lsn <= x.lsn /\ q.lsn \in Nat
  BY LastRecordIsLast
<1>2. x \in some
  <2>1. PICK q \in some : TRUE
    OBVIOUS
  <2> HIDE DEF x
  <2> QED
    BY <1>1, <2>1
<1>3. \A r \in some : r.lsn \in Nat /\ r.lsn <= x.lsn /\ (r.lsn = x.lsn => r = x)
  BY <1>1 DEF LogInv
<1> HIDE DEF x, some
<1>4. LastRecord(some) = x
  BY <1>2, <1>3, LastRecordIs
<1> QED
  BY <1>4 DEF x, some

-----------------------------------------------------------------------------
(* The checkpoint.                                                         *)

\* While the manifest and its files stay, so does the checkpoint.
LEMMA CheckpointKept ==
    ASSUME Inv, manifest' = manifest, NEW k,
           \A s \in DOMAIN manifest.segs : s \in DOMAIN files' /\ files'[s] = files[s]
    PROVE  CheckpointValue(k)' = CheckpointValue(k)
<1>1. \A s \in DOMAIN manifest.segs : s # 0 /\ s \in DOMAIN files
  BY DEF Inv, TypeOK, FileInv, ManifestComplete
<1>2. SegmentLocs(manifest.segs, DOMAIN manifest.segs)'
        = SegmentLocs(manifest.segs, DOMAIN manifest.segs)
  <2>1. DOMAIN manifest.segs \cap DOMAIN files = DOMAIN manifest.segs
        /\ DOMAIN manifest.segs \cap DOMAIN files' = DOMAIN manifest.segs
    BY <1>1
  <2> DEFINE LocsNow(s) == { [src |-> s, ord |-> o] : o \in DOMAIN files[s] \ manifest.segs[s] }
             LocsThen(s) == { [src |-> s, ord |-> o] : o \in DOMAIN files'[s] \ manifest.segs[s] }
  <2>2. \A s \in DOMAIN manifest.segs : LocsThen(s) = LocsNow(s)
    OBVIOUS
  <2>3. { LocsThen(s) : s \in DOMAIN manifest.segs } = { LocsNow(s) : s \in DOMAIN manifest.segs }
    <3> HIDE DEF LocsNow, LocsThen
    <3> QED
      BY <2>2
  <2> QED
    BY <2>1, <2>3 DEF SegmentLocs
<1>3. ASSUME NEW l \in SegmentLocs(manifest.segs, DOMAIN manifest.segs)
      PROVE  RowAt(l)' = RowAt(l)
  <2>1. l.src \in DOMAIN manifest.segs
    BY SegmentLocIsRow DEF Inv
  <2> QED
    BY <1>1, <2>1 DEF RowAt
<1>4. Checkpointed(k)' = Checkpointed(k)
  BY <1>2, <1>3 DEF Checkpointed
<1>5. CASE Checkpointed(k) = {}
  BY <1>4, <1>5 DEF CheckpointValue
<1>6. CASE Checkpointed(k) # {}
  <2>1. PICK l : l = Latest(Checkpointed(k))
    OBVIOUS
  <2>2. l \in Checkpointed(k)
    BY <1>6, <2>1, LatestIsCheckpointed
  <2>3. RowAt(l)' = RowAt(l)
    BY <1>3, <2>2 DEF Checkpointed
  <2>4. RowAt(Latest(Checkpointed(k)))' = RowAt(l)'
    BY <1>4, <2>1 DEF RowAt, Latest
  <2> QED
    BY <1>4, <1>6, <2>1, <2>3, <2>4 DEF CheckpointValue
<1> QED
  BY <1>5, <1>6

\* ... and with the key's log tail, what the disk recovers to at the key.
LEMMA RecoveredKept ==
    ASSUME Inv, manifest' = manifest, NEW k, LogTail(k)' = LogTail(k),
           \A s \in DOMAIN manifest.segs : s \in DOMAIN files' /\ files'[s] = files[s]
    PROVE  Recovered(k)' = Recovered(k)
<1>1. CheckpointValue(k)' = CheckpointValue(k)
  BY CheckpointKept
<1>2. Recovered(k) = IF LogTail(k) # {} THEN Effect(LastRecord(LogTail(k)), k)
                                        ELSE CheckpointValue(k)
  BY Zenon DEF Recovered, CheckpointValue
<1>3. Recovered(k)' = IF LogTail(k)' # {} THEN Effect(LastRecord(LogTail(k)'), k)
                                          ELSE CheckpointValue(k)'
  BY Zenon DEF Recovered, CheckpointValue, Effect, LastRecord
<1> QED
  BY <1>1, <1>2, <1>3

\* A manifest written from memory: a key without a later record recovers to
\* what is served.
LEMMA CommittedValue ==
    ASSUME IndexInv, UnflushedInv, manifest' = ManifestNow,
           UNCHANGED <<wal, files, memory, stray>>,
           NEW k \in Keys, LogTail(k)' = {}, ~Exposed(k)'
    PROVE  CheckpointValue(k)' = Served(k)
<1>1. manifest'.segs = segments /\ manifest'.applied = applied_lsn
      /\ UNCHANGED <<files, memtable, wal, stray>>
  BY DEF ManifestNow, memory
<1>2. Inv /\ LiveInv /\ Visible = Live
  BY LiveIsVisible DEF IndexInv
<1> DEFINE C == { l \in SegmentLocs(segments, DOMAIN segments) : RowAt(l).key = k }
<1>3. Checkpointed(k)' = C
  BY <1>1 DEF Checkpointed, SegmentLocs, RowAt
<1>4. \A l \in C : l = key_index[k] /\ l \in Locator
  BY <1>2 DEF Visible, LiveInv, Live
<1>5. CASE key_index[k] = None
  <2>1. C = {}
    BY <1>4, <1>5, PartitionAssumption
  <2> QED
    BY <1>3, <1>5, <2>1 DEF CheckpointValue, Served
<1>6. CASE key_index[k] # None
  <2>1. key_index[k] \in Live /\ RowAt(key_index[k]).key = k
    BY <1>2, <1>6 DEF LiveInv
  <2>2. key_index[k].src # 0
    <3> SUFFICES ASSUME key_index[k].src = 0 PROVE FALSE
      OBVIOUS
    <3>1. PICK r \in wal \cup stray : r.lsn > applied_lsn /\ k \in Touches(r)
      BY <1>6 DEF UnflushedInv
    <3>2. r \notin wal
      BY <1>1, <3>1 DEF LogTail, Touches, KeysOf
    <3>3. Exposed(k)'
      BY <1>1, <3>1, <3>2 DEF Exposed, Touches, KeysOf
    <3> QED
      BY <3>3
  <2>3. key_index[k] \notin MemtableLocs
    BY <2>2 DEF MemtableLocs
  <2>4. C = {key_index[k]}
    BY <1>2, <1>4, <2>1, <2>3 DEF Visible
  <2>5. Latest({key_index[k]}) = key_index[k]
    BY DEF Latest
  <2>6. Checkpointed(k)' # {} /\ Latest(Checkpointed(k))' = key_index[k]
    BY <1>3, <2>4, <2>5 DEF Latest, LocLess
  <2>7. PICK l : l = key_index[k]
    OBVIOUS
  <2>8. RowAt(l)' = RowAt(l)
    BY <1>1 DEF RowAt
  <2>9. RowAt(Latest(Checkpointed(k)))' = RowAt(l)'
    BY <2>6, <2>7 DEF RowAt
  <2> QED
    BY <1>6, <2>6, <2>7, <2>8, <2>9 DEF CheckpointValue, Served
<1> QED
  BY <1>5, <1>6

\* ... and a key with a later record that the log does not hold recovers to
\* nothing: its old row is suppressed and its new one is in memory.
LEMMA CommittedExposed ==
    ASSUME IndexInv, StrayInv, manifest' = ManifestNow,
           UNCHANGED <<wal, files, memory, stray>>,
           NEW k \in Keys, Exposed(k)'
    PROVE  CheckpointValue(k)' = None
<1>1. manifest'.segs = segments /\ manifest'.applied = applied_lsn
      /\ UNCHANGED <<files, memtable, stray>>
  BY DEF ManifestNow, memory
<1>2. Inv /\ LiveInv /\ Visible = Live
  BY LiveIsVisible DEF IndexInv
<1>3. key_index[k] = None \/ key_index[k].src = 0
  <2>1. PICK r \in stray : r.lsn > applied_lsn /\ k \in Touches(r)
    BY <1>1 DEF Exposed, Touches, KeysOf
  <2> QED
    BY <2>1 DEF StrayInv
<1> DEFINE C == { l \in SegmentLocs(segments, DOMAIN segments) : RowAt(l).key = k }
<1>4. Checkpointed(k)' = C
  BY <1>1 DEF Checkpointed, SegmentLocs, RowAt
<1>5. \A l \in C : l = key_index[k] /\ l \in Locator /\ l.src # 0
  <2>1. \A l \in C : l = key_index[k] /\ l \in Locator
    BY <1>2 DEF Visible, LiveInv, Live
  <2>2. 0 \notin DOMAIN segments
    BY <1>2 DEF Inv, TypeOK
  <2> QED
    BY <2>1, <2>2 DEF SegmentLocs
<1>6. C = {}
  BY <1>3, <1>5, PartitionAssumption
<1> QED
  BY <1>4, <1>6 DEF CheckpointValue

-----------------------------------------------------------------------------
(* Every action keeps the order of the lsns.                               *)

\* What Insert, Upsert and Delete have in common.
LEMMA WritesLog ==
    ASSUME (\E b \in Batches : Insert(b) \/ Upsert(b)) \/ (\E ks \in SUBSET Keys : Delete(ks))
    PROVE  \E rows \in Seq(Row), keys \in SUBSET Keys :
              /\ pc = "idle" /\ Log(rows, keys)
              /\ keys \cup KeysOf(rows) # {}
<1>1. ASSUME NEW b \in Batches, Insert(b) \/ Upsert(b)
      PROVE  \E rows \in Seq(Row), keys \in SUBSET Keys :
                pc = "idle" /\ Log(rows, keys) /\ keys \cup KeysOf(rows) # {}
  <2>1. b \in Seq(Row) /\ b # <<>> /\ {} \in SUBSET Keys
    BY PartitionAssumption
  <2>2. pc = "idle" /\ Log(b, {})
    BY <1>1 DEF Insert, Upsert
  <2>3. b[1].key \in KeysOf(b)
    BY <2>1 DEF KeysOf
  <2> QED
    BY <2>1, <2>2, <2>3
<1>2. ASSUME NEW ks \in SUBSET Keys, Delete(ks)
      PROVE  \E rows \in Seq(Row), keys \in SUBSET Keys :
                pc = "idle" /\ Log(rows, keys) /\ keys \cup KeysOf(rows) # {}
  <2> DEFINE present == { k \in ks : key_index[k] # None }
  <2>1. pc = "idle" /\ Log(<<>>, present) /\ present # {}
    BY <1>2 DEF Delete
  <2>2. <<>> \in Seq(Row) /\ present \in SUBSET Keys
    OBVIOUS
  <2> HIDE DEF present
  <2> QED
    BY <2>1, <2>2
<1> QED
  BY <1>1, <1>2

\* A logged record: its lsn is new, and it is in the log, or the write failed or
\* the log was damaged.
LEMMA LogFacts ==
    ASSUME Inv, pc = "idle", NEW rows \in Seq(Row), NEW keys \in SUBSET Keys, Log(rows, keys),
           NEW r, r = [lsn |-> next_lsn, rows |-> rows, keys |-> keys]
    PROVE  /\ r \in Record /\ Touches(r) = keys \cup KeysOf(rows)
           /\ \A q \in wal : q.lsn \in Nat /\ q.lsn < r.lsn
           /\ manifest.applied < r.lsn /\ applied_lsn < r.lsn /\ last_lsn < r.lsn
           /\ UNCHANGED <<manifest, files, memory, crashes, truth, stray>>
           /\ tail # "whole" => tail' # "whole"
           /\ limbo' \in {limbo, limbo \cup {r.lsn}}
           /\ \/ pc' = "apply" /\ pending' = r /\ limbo' = limbo \cup {r.lsn}
                 /\ (tail' = "whole" <=> tail = "whole")
                 /\ wal' = IF tail = "whole" THEN wal \cup {r} ELSE wal
              \/ pc' = "idle" /\ pending' = None /\ limbo' = limbo \cup {r.lsn}
                 /\ wal' = wal \cup {r} /\ tail = "whole" /\ tail' = "whole"
              \/ pc' = "idle" /\ pending' = None /\ wal' = wal
<1>1. next_lsn \in Nat \ {0}
  BY DEF Inv, TypeOK
<1>2. r \in Record /\ r.lsn = next_lsn /\ r.rows = rows /\ r.keys = keys
  BY <1>1 DEF Record
<1>3. \A q \in wal : q.lsn \in Nat /\ q.lsn < r.lsn
  BY <1>2 DEF Inv, TypeOK, LsnInv, Record
<1>4. manifest.applied < r.lsn /\ applied_lsn < r.lsn /\ last_lsn < r.lsn
  BY <1>2 DEF Inv, LsnInv
<1>5. UNCHANGED <<manifest, files, memory, crashes, truth, stray>>
      /\ limbo' \in {limbo, limbo \cup {r.lsn}}
  BY DEF Log
<1>6. tail # "whole" => tail' # "whole"
  BY DEF Log, Buried
<1>7. \/ pc' = "apply" /\ pending' = r /\ limbo' = limbo \cup {r.lsn}
         /\ (tail' = "whole" <=> tail = "whole")
         /\ wal' = IF tail = "whole" THEN wal \cup {r} ELSE wal
      \/ pc' = "idle" /\ pending' = None /\ limbo' = limbo \cup {r.lsn}
         /\ wal' = wal \cup {r} /\ tail = "whole" /\ tail' = "whole"
      \/ pc' = "idle" /\ pending' = None /\ wal' = wal
  BY DEF Log, Abort, Buried
<1> QED
  BY <1>2, <1>3, <1>4, <1>5, <1>6, <1>7 DEF Touches

\* The record replay applies is the next one of the log.
LEMMA ReplayApplies ==
    ASSUME Inv, Replay, pc' # "idle"
    PROVE  \E r \in wal :
              /\ r \in Record /\ r.lsn > last_lsn /\ ApplyEntry(r) /\ pc' = "replay"
              /\ \A q \in wal : q.lsn > last_lsn => r.lsn <= q.lsn
<1> DEFINE todo == { q \in wal : q.lsn > last_lsn }
           L    == { q.lsn : q \in todo }
<1>1. todo # {} /\ ApplyEntry(OldestOf(todo)) /\ pc' = "replay"
  BY DEF Replay
<1>2. L \subseteq Nat /\ L # {}
  <2>1. \A q \in wal : q.lsn \in Nat
    BY DEF Inv, TypeOK, Record
  <2> QED
    BY <1>1, <2>1
<1>3. PICK n \in L : \A m \in L : n <= m
  BY <1>2, LeastExists, Zenon
<1>4. \E r \in todo : \A q \in todo : r.lsn <= q.lsn
  BY <1>3
<1>5. OldestOf(todo) \in todo /\ \A q \in todo : OldestOf(todo).lsn <= q.lsn
  BY <1>4, Zenon DEF OldestOf
<1>6. PICK r : r = OldestOf(todo)
  OBVIOUS
<1>7. r \in todo /\ ApplyEntry(r) /\ \A q \in todo : r.lsn <= q.lsn
  BY <1>1, <1>5, <1>6
<1> QED
  BY <1>1, <1>7 DEF Inv, TypeOK

\* Lsns stay unique and ordered.
LEMMA LogInvStep ==
    ASSUME Inv, LogInv, [Next]_vars
    PROVE  LogInv'
<1>1. /\ manifest.applied \in Nat /\ applied_lsn \in Nat /\ last_lsn \in Nat
      /\ \A q \in wal : q.lsn \in Nat
  BY DEF Inv, TypeOK, Record
<1>2. ASSUME NEW rows \in Seq(Row), NEW keys \in SUBSET Keys, pc = "idle", Log(rows, keys)
      PROVE  LogInv'
  <2>1. PICK r : r = [lsn |-> next_lsn, rows |-> rows, keys |-> keys]
    OBVIOUS
  <2>2. /\ r \in Record /\ \A q \in wal : q.lsn \in Nat /\ q.lsn < r.lsn
        /\ last_lsn < r.lsn
        /\ UNCHANGED <<manifest, files, memory, crashes, truth, stray>>
        /\ wal' \in {wal, wal \cup {r}}
        /\ \/ pc' = "apply" /\ pending' = r /\ (tail' = "whole" <=> tail = "whole")
              /\ wal' = IF tail = "whole" THEN wal \cup {r} ELSE wal
           \/ pc' = "idle" /\ pending' = None
    BY <1>2, <2>1, LogFacts
  <2>3. r \notin wal /\ \A q, p \in wal' : q.lsn = p.lsn => q = p
    <3>1. \A q, p \in wal : q.lsn = p.lsn => q = p
      BY DEF LogInv
    <3>2. \A q \in wal : q.lsn # r.lsn
      BY <2>2 DEF Record
    <3> QED
      BY <2>2, <3>1, <3>2
  <2>4. pc' = "apply" => /\ last_lsn' < pending'.lsn
                         /\ \A q \in wal' \ {pending'} : q.lsn < pending'.lsn
                         /\ pending' \in wal' <=> tail' = "whole"
    <3>1. pc' = "apply" => \A q \in wal' \ {pending'} : q \in wal
      BY <2>2
    <3>2. pc' = "apply" => (pending' \in wal' <=> tail' = "whole")
      BY <2>2, <2>3
    <3> QED
      BY <2>2, <3>1, <3>2 DEF memory
  <2> QED
    BY <1>2, <2>2, <2>3, <2>4 DEF LogInv, memory
<1>3. CASE Apply
  <2>1. /\ pc = "apply" /\ pc' \in {"idle", "flush"} /\ pending' = None
        /\ UNCHANGED <<wal, manifest, applied_lsn>>
        /\ last_lsn' \in {last_lsn, pending.lsn}
    BY <1>3 DEF Apply, ApplyEntry, MaxOf, disk
  <2>2. last_lsn < pending.lsn /\ pending.lsn \in Nat
    BY <2>1 DEF LogInv, Inv, LsnInv, Record
  <2>3. applied_lsn <= last_lsn'
    BY <1>1, <2>1, <2>2 DEF LogInv
  <2> QED
    BY <2>1, <2>3 DEF LogInv
<1>4. CASE Flush \/ Compact
  BY <1>4 DEF LogInv, Flush, Compact, disk, memory
<1>5. CASE FlushSegment
  <2>1. /\ pc = "flush" /\ pc' \in {"idle", "commit"} /\ pending' \in {pending, None}
        /\ UNCHANGED <<wal, manifest, last_lsn>> /\ applied_lsn' \in {applied_lsn, last_lsn}
    BY <1>5 DEF FlushSegment, SegmentWriteFails, Abort, memory
  <2> QED
    BY <1>1, <2>1 DEF LogInv
<1>6. CASE FlushCommit \/ CompactCommit
  <2>1. /\ UNCHANGED <<wal, applied_lsn, last_lsn>>
        /\ pending' \in {pending, None}
        /\ \/ manifest'.applied = applied_lsn /\ pc' \in {"truncate", "delete", "idle"}
           \/ manifest' = manifest /\ pc' = "idle"
        /\ pc \in {"commit", "compact_commit"}
    BY <1>6 DEF FlushCommit, CompactCommit, CommitManifest, ManifestNow, Abort, memory
  <2> QED
    BY <1>1, <2>1 DEF LogInv
<1>7. CASE FlushTruncate
  <2>1. /\ pc = "truncate" /\ pc' \in {"compact", "idle"} /\ wal' \subseteq wal
        /\ pending' \in {pending, None} /\ UNCHANGED <<manifest, applied_lsn, last_lsn>>
    BY <1>7 DEF FlushTruncate, Abort, memory
  <2> QED
    BY <2>1 DEF LogInv
<1>8. CASE CompactMerge
  <2>1. /\ pc = "compact" /\ pc' \in {"compact_commit", "idle"} /\ pending' \in {pending, None}
        /\ UNCHANGED <<wal, manifest, applied_lsn, last_lsn>>
    BY <1>8 DEF CompactMerge, SegmentWriteFails, Abort, memory
  <2> QED
    BY <2>1 DEF LogInv
<1>9. CASE CompactDelete
  <2>1. /\ pc = "delete" /\ pc' \in {"delete", "idle"} /\ pending' \in {pending, None}
        /\ UNCHANGED <<wal, manifest, applied_lsn, last_lsn>>
    BY <1>9 DEF CompactDelete, Abort, memory
  <2> QED
    BY <2>1 DEF LogInv
<1>10. CASE Crash
  BY <1>10 DEF LogInv, Crash
<1>11. CASE Open
  BY <1>1, <1>11 DEF LogInv, Open
<1>12. CASE Replay
  <2>1. /\ pc = "replay" /\ UNCHANGED <<wal, manifest, pending, applied_lsn>>
        /\ last_lsn' >= last_lsn /\ pc' \in {"replay", "idle"}
    <3>1. CASE pc' = "idle"
      BY <1>1, <1>12, <3>1 DEF Replay, disk, memory
    <3>2. CASE pc' # "idle"
      <4>1. PICK r \in wal : r.lsn > last_lsn /\ ApplyEntry(r) /\ pc' = "replay"
        BY <1>12, <3>2, ReplayApplies
      <4> QED
        BY <1>1, <1>12, <4>1 DEF Replay, ApplyEntry, MaxOf, disk
    <3> QED
      BY <3>1, <3>2
  <2>2. last_lsn' \in Int
    BY <1>12, NextInv DEF Next, Step, Inv, TypeOK
  <2> QED
    BY <1>1, <2>1, <2>2 DEF LogInv
<1>13. CASE OpenRefused
  BY <1>13 DEF LogInv, OpenRefused
<1>14. CASE UNCHANGED vars
  BY <1>14 DEF LogInv, vars, disk, memory
<1> QED
  BY <1>2, <1>3, <1>4, <1>5, <1>6, <1>7, <1>8, <1>9, <1>10, <1>11, <1>12, <1>13, <1>14, WritesLog
     DEF Next, Request, Step

-----------------------------------------------------------------------------
(* Every action keeps what is known of the records the log does not hold.  *)

\* Rows are added to the memtable only, and only there do keys leave it.
LEMMA TouchedInMemory ==
    ASSUME Inv, NEW r \in Record, ApplyEntry(r), NEW k \in Keys,
           k \in Touches(r) \/ key_index[k] = None \/ key_index[k].src = 0
    PROVE  key_index'[k] = None \/ key_index'[k].src = 0
<1>1. CASE k \in KeysOf(r.rows)
  BY <1>1 DEF ApplyEntry
<1>2. CASE k \notin KeysOf(r.rows) /\ k \in r.keys
  BY <1>2 DEF ApplyEntry
<1>3. CASE k \notin KeysOf(r.rows) /\ k \notin r.keys
  <2>1. key_index'[k] = key_index[k] /\ k \notin Touches(r)
    BY <1>3 DEF ApplyEntry, Touches
  <2> QED
    BY <2>1
<1> QED
  BY <1>1, <1>2, <1>3

\* A merge moves no key that is in memory only.
LEMMA MergeKeepsMemory ==
    ASSUME Inv, CompactMerge, NEW k \in Keys, key_index[k] = None \/ key_index[k].src = 0
    PROVE  key_index'[k] = key_index[k]
<1> DEFINE kept == SegmentLocs(segments, select(segment_facts))
<1>1. 0 \notin DOMAIN segments /\ select(segment_facts) \subseteq DOMAIN segments
  BY SelectsSegments DEF Inv, TypeOK
<1>2. \A l \in kept : l.src # 0 /\ l \in Locator
  <2>1. \A l \in kept : l.src \in DOMAIN segments
    BY <1>1 DEF SegmentLocs
  <2> QED
    <3>1. ASSUME NEW l \in kept PROVE l \in Locator
      <4>1. l \in SegmentLocs(segments, DOMAIN segments)
        BY <1>1, <3>1 DEF SegmentLocs
      <4> QED
        BY <4>1, LiveIsVisible DEF Visible, Live
    <3> QED
      BY <1>1, <2>1, <3>1
<1>3. ASSUME NEW order \in Orderings(kept), WriteSegment(order)
      PROVE  key_index'[k] = key_index[k]
  <2>1. \A i \in DOMAIN order : order[i] \in kept
    BY DEF Orderings
  <2>2. \A i \in DOMAIN order : order[i] # key_index[k]
    BY <1>2, <2>1, PartitionAssumption
  <2> QED
    BY <1>3, <2>2 DEF WriteSegment
<1>4. \/ UNCHANGED key_index
      \/ \E order \in Orderings(kept) : WriteSegment(order)
  BY DEF CompactMerge, SegmentWriteFails, memory
<1> QED
  BY <1>3, <1>4

LEMMA StrayStep ==
    ASSUME IndexInv, LogInv, StrayInv, [Next]_vars
    PROVE  StrayInv'
<1>1. Inv /\ Inv'
  BY IndexInvInductive DEF IndexInv
<1>0. /\ manifest.applied \in Nat /\ applied_lsn \in Nat /\ last_lsn \in Nat
      /\ \A q \in wal \cup stray : q.lsn \in Nat /\ q \in Record
  BY <1>1 DEF Inv, TypeOK, Record
<1>2. ASSUME NEW rows \in Seq(Row), NEW keys \in SUBSET Keys, pc = "idle", Log(rows, keys)
      PROVE  StrayInv'
  <2>1. PICK r : r = [lsn |-> next_lsn, rows |-> rows, keys |-> keys]
    OBVIOUS
  <2>2. /\ UNCHANGED <<manifest, files, memory, crashes, truth, stray>>
        /\ tail # "whole" => tail' # "whole" /\ wal' = wal
        /\ pc' \in {"apply", "idle"}
    BY <1>1, <1>2, <2>1, LogFacts
  <2> QED
    BY <2>2 DEF StrayInv, memory, Touches, KeysOf
<1>3. CASE Apply
  <2>1. /\ pc = "apply" /\ pc' \in {"idle", "flush"} /\ ApplyEntry(pending)
        /\ UNCHANGED <<wal, tail, manifest>>
        /\ UNCHANGED applied_lsn /\ last_lsn' = MaxOf(last_lsn, pending.lsn)
        /\ stray' = IF pending \in wal THEN stray ELSE stray \cup {pending}
    BY <1>3 DEF Apply, ApplyEntry, disk
  <2>2. pending \in Record /\ pending.lsn \in Nat
        /\ \A q \in wal \ {pending} : q.lsn < pending.lsn
        /\ (pending \in wal <=> tail = "whole")
    BY <1>1, <2>1 DEF LogInv, Inv, LsnInv, Record
  <2>3. last_lsn' >= last_lsn /\ last_lsn' >= pending.lsn /\ last_lsn' \in Nat
    BY <1>0, <2>1, <2>2 DEF MaxOf
  <2>4. \A r \in stray' : r.lsn <= last_lsn'
    BY <1>0, <2>1, <2>2, <2>3 DEF StrayInv
  <2>5. \A r \in stray' : r.lsn > manifest'.applied =>
           tail' # "whole" /\ \A q \in wal' : q.lsn < r.lsn
    <3>0. pending \in wal <=> tail = "whole"
      BY <2>1 DEF LogInv
    <3>1. CASE pending \in wal
      BY <2>1, <3>1 DEF StrayInv
    <3>2. CASE pending \notin wal
      <4>0. wal \ {pending} = wal
        BY <3>2
      <4>1. tail # "whole" /\ \A q \in wal : q.lsn < pending.lsn
        <5>1. tail # "whole"
          BY <3>0, <3>2, Zenon
        <5>2. \A q \in wal : q.lsn < pending.lsn
          BY <2>2, <4>0
        <5> QED
          BY <5>1, <5>2
      <4>2. stray' = stray \cup {pending}
        BY <2>1, <3>2
      <4> QED
        BY <2>1, <4>1, <4>2 DEF StrayInv
    <3> QED
      BY <3>1, <3>2
  <2>6. \A r \in stray' : r.lsn > applied_lsn' =>
           \A k \in Touches(r) \cap Keys : key_index'[k] = None \/ key_index'[k].src = 0
    <3> SUFFICES ASSUME NEW r \in stray', r.lsn > applied_lsn', NEW k \in Keys, k \in Touches(r)
                 PROVE  key_index'[k] = None \/ key_index'[k].src = 0
      OBVIOUS
    <3>1. k \in Touches(pending) \/ key_index[k] = None \/ key_index[k].src = 0
      BY <2>1 DEF StrayInv
    <3> QED
      BY <1>1, <2>1, <2>2, <3>1, TouchedInMemory
  <2> QED
    BY <2>1, <2>4, <2>5, <2>6 DEF StrayInv, Touches, KeysOf
<1>4. CASE FlushSegment
  <2>1. /\ pc' \in {"idle", "commit"} /\ UNCHANGED <<wal, tail, manifest, stray, last_lsn>>
        /\ \/ UNCHANGED memory /\ pc' = "idle"
           \/ applied_lsn' = last_lsn
    BY <1>4 DEF FlushSegment, SegmentWriteFails, Abort, memory
  <2>2. CASE UNCHANGED memory /\ pc' = "idle"
    BY <2>1, <2>2 DEF StrayInv, memory, Touches, KeysOf
  <2>3. CASE applied_lsn' = last_lsn
    <3>1. \A r \in stray : ~(r.lsn > last_lsn)
      BY <1>0 DEF StrayInv
    <3> QED
      BY <2>1, <2>3, <3>1 DEF StrayInv
  <2> QED
    BY <2>1, <2>2, <2>3
<1>5. CASE FlushCommit \/ CompactCommit
  <2>1. /\ UNCHANGED <<wal, tail, memory, stray>>
        /\ \/ manifest'.applied = applied_lsn
           \/ manifest' = manifest
        /\ \/ pc' \in {"delete", "idle"}
           \/ pc = "commit" /\ pc' = "truncate"
    BY <1>5 DEF FlushCommit, CompactCommit, CommitManifest, ManifestNow, Abort
  <2>2. pc # "down"
    BY <1>5 DEF FlushCommit, CompactCommit, CommitManifest
  <2>3. manifest.applied <= applied_lsn
    BY <2>2 DEF LogInv
  <2>4. \A r \in stray : r.lsn > manifest'.applied => r.lsn > manifest.applied
    BY <1>0, <2>1, <2>3
  <2> QED
    BY <2>1, <2>4 DEF StrayInv, memory, Touches, KeysOf
<1>6. CASE FlushTruncate
  <2>1. /\ pc = "truncate" /\ pc' \in {"compact", "idle"} /\ wal' \subseteq wal
        /\ UNCHANGED <<manifest, memory, stray>>
    BY <1>6 DEF FlushTruncate, Abort
  <2>2. \A r \in stray : ~(r.lsn > manifest.applied)
    BY <1>0, <2>1 DEF StrayInv, LogInv
  <2> QED
    BY <2>1, <2>2 DEF StrayInv, memory, Touches, KeysOf
<1>7. CASE CompactMerge
  <2>1. /\ pc' \in {"compact_commit", "idle"}
        /\ UNCHANGED <<wal, tail, manifest, stray, applied_lsn, last_lsn>>
    BY <1>7 DEF CompactMerge, SegmentWriteFails, Abort, memory
  <2>2. \A r \in stray : r.lsn > applied_lsn =>
           \A k \in Touches(r) \cap Keys : key_index'[k] = None \/ key_index'[k].src = 0
    BY <1>1, <1>7, MergeKeepsMemory DEF StrayInv
  <2> QED
    BY <2>1, <2>2 DEF StrayInv, Touches, KeysOf
<1>8. CASE Crash
  BY <1>8 DEF Crash, StrayInv
<1>9. CASE Open \/ OpenRefused
  BY <1>9 DEF Open, OpenRefused, StrayInv
<1>10. CASE Replay
  <2>1. stray = {} /\ stray' = {} /\ pc' \in {"replay", "idle"}
    BY <1>10 DEF Replay, StrayInv
  <2> QED
    BY <2>1 DEF StrayInv
<1>11. CASE Flush \/ Compact
  BY <1>11 DEF Flush, Compact, StrayInv, disk, memory, Touches, KeysOf
<1>12. CASE CompactDelete
  <2>1. /\ UNCHANGED <<wal, tail, manifest, memory, stray>> /\ pc' \in {"delete", "idle"}
    BY <1>12 DEF CompactDelete, Abort
  <2> QED
    BY <2>1 DEF StrayInv, memory, Touches, KeysOf
<1>13. CASE UNCHANGED vars
  BY <1>13 DEF vars, StrayInv, disk, memory, Touches, KeysOf
<1> QED
  BY <1>2, <1>3, <1>4, <1>5, <1>6, <1>7, <1>8, <1>9, <1>10, <1>11, <1>12, <1>13, WritesLog
     DEF Next, Request, Step

-----------------------------------------------------------------------------
(* Every action keeps unflushed rows covered by the log.                   *)

\* After a step that leaves the memtable empty no entry leads into it.
LEMMA NothingUnflushed ==
    ASSUME LiveInv', Inv', memtable' = <<>>
    PROVE  UnflushedInv'
<1> SUFFICES ASSUME NEW k \in Keys, NEW l, l = key_index'[k], l # None
             PROVE  l.src # 0
  BY DEF UnflushedInv
<1>1. l \in Live'
  BY DEF LiveInv
<1>2. DOMAIN memtable' = {} /\ 0 \notin DOMAIN segments'
  BY DEF Inv, TypeOK
<1> QED
  BY <1>1, <1>2 DEF Live

\* Applying a record that the checkpoint does not cover.
LEMMA ApplyUnflushed ==
    ASSUME UnflushedInv, NEW r \in wal' \cup stray', r.lsn > applied_lsn, ApplyEntry(r),
           wal \cup stray \subseteq wal' \cup stray'
    PROVE  UnflushedInv'
<1>1. UNCHANGED applied_lsn
  BY DEF ApplyEntry
<1>2. ASSUME NEW k \in Keys, key_index'[k] # None, key_index'[k].src = 0
      PROVE  \E q \in wal' \cup stray' : q.lsn > applied_lsn /\ k \in Touches(q)
  <2>1. CASE k \in KeysOf(r.rows)
    BY <2>1 DEF Touches
  <2>2. CASE k \notin KeysOf(r.rows)
    <3>1. key_index'[k] = key_index[k]
      BY <1>2, <2>2 DEF ApplyEntry
    <3> QED
      BY <1>2, <3>1 DEF UnflushedInv
  <2> QED
    BY <2>1, <2>2
<1> QED
  BY <1>1, <1>2 DEF UnflushedInv, Touches, KeysOf

\* Rows enter the memtable from the log only, and the log is cut only where the
\* memtable was flushed.
LEMMA UnflushedStep ==
    ASSUME IndexInv, LogInv, UnflushedInv, [Next]_vars
    PROVE  UnflushedInv'
<1>1. Inv /\ LiveInv /\ Inv' /\ LiveInv'
  BY IndexInvInductive DEF IndexInv
<1>0. applied_lsn \in Nat /\ last_lsn \in Nat /\ \A r \in wal : r.lsn \in Nat
  BY <1>1 DEF Inv, TypeOK, Record
<1>2. CASE Apply
  <2>1. /\ pending \in wal' \cup stray' /\ last_lsn < pending.lsn /\ applied_lsn <= last_lsn
        /\ ApplyEntry(pending) /\ wal \cup stray \subseteq wal' \cup stray'
    BY <1>2 DEF Apply, LogInv, disk
  <2>2. pending.lsn > applied_lsn
    <3>1. pending.lsn \in Nat
      BY <1>1, <1>2 DEF Apply, Inv, LsnInv, Record
    <3> QED
      BY <1>0, <2>1, <3>1
  <2> QED
    BY <2>1, <2>2, ApplyUnflushed
<1>3. CASE Replay /\ ~UNCHANGED memory
  <2>1. pc' # "idle" /\ wal' = wal /\ stray' = stray /\ pc = "replay"
    BY <1>3 DEF Replay, disk
  <2>2. PICK r \in wal : r.lsn > last_lsn /\ ApplyEntry(r)
    BY <1>1, <1>3, <2>1, ReplayApplies
  <2>3. r.lsn > applied_lsn
    BY <1>0, <2>1, <2>2 DEF LogInv
  <2> QED
    BY <2>1, <2>2, <2>3, ApplyUnflushed
<1>4. CASE FlushSegment
  <2>1. CASE SegmentWriteFails
    BY <1>4, <2>1 DEF FlushSegment, SegmentWriteFails, memory, UnflushedInv, Touches, KeysOf
  <2>2. CASE memtable' = <<>>
    BY <1>1, <2>2, NothingUnflushed
  <2> QED
    BY <1>4, <2>1, <2>2 DEF FlushSegment
<1>5. CASE CompactMerge
  <2>1. UNCHANGED <<wal, applied_lsn, stray>>
    BY <1>5 DEF CompactMerge, SegmentWriteFails, memory
  <2>2. ASSUME NEW order, WriteSegment(order), NEW k \in Keys, key_index'[k].src = 0
        PROVE  key_index'[k] = key_index[k]
    <3>1. next_segment_id # 0
      BY <1>1 DEF Inv, TypeOK
    <3> QED
      BY <2>2, <3>1 DEF WriteSegment
  <2>3. \A k \in Keys : key_index'[k].src = 0 => key_index'[k] = key_index[k]
    BY <1>5, <2>2 DEF CompactMerge, SegmentWriteFails, memory
  <2> QED
    BY <2>1, <2>3 DEF UnflushedInv, Touches, KeysOf
<1>6. CASE Open \/ Crash
  BY <1>1, <1>6, NothingUnflushed DEF Open, Crash
<1>7. CASE ~Apply /\ ~FlushSegment /\ ~CompactMerge /\ ~Open /\ ~Crash
           /\ ~(Replay /\ ~UNCHANGED memory)
  <2>1. UNCHANGED <<key_index, applied_lsn>>
    BY <1>1, <1>7, MemoryKept DEF memory
  <2>2. \A r \in wal \cup stray : r.lsn > applied_lsn => r \in wal' \cup stray'
    <3>1. CASE FlushTruncate
      BY <3>1 DEF FlushTruncate
    <3>2. CASE ~FlushTruncate
      BY <1>7, <3>2 DEF Next, Request, Insert, Upsert, Delete, Log, Flush, Compact, Step,
         FlushCommit, CompactCommit, CommitManifest, CompactDelete, OpenRefused, Replay, vars, disk
    <3> QED
      BY <3>1, <3>2
  <2> QED
    BY <2>1, <2>2 DEF UnflushedInv, Touches, KeysOf
<1> QED
  BY <1>2, <1>3, <1>4, <1>5, <1>6, <1>7

-----------------------------------------------------------------------------
(* What each step does to the values served and recovered.                 *)

\* Flush, compaction and failures serve the same values before and after.
LEMMA ServedKept ==
    ASSUME IndexInv, [Next]_vars, ~Apply, ~Open, ~Crash, ~(Replay /\ ~UNCHANGED memory)
    PROVE  \A k \in Keys : Served(k)' = Served(k)
<1>1. Inv /\ LiveInv
  BY DEF IndexInv
<1>2. CASE FlushSegment
  BY <1>1, <1>2, FlushSegmentIndex
<1>3. CASE CompactMerge
  BY <1>1, <1>3, CompactMergeIndex
<1>4. CASE ~FlushSegment /\ ~CompactMerge
  BY <1>1, <1>4, MemoryKept, MemoryKeptIndex
<1> QED
  BY <1>2, <1>3, <1>4

\* The steps that neither log, truncate nor commit leave disk's answer alone.
LEMMA RecoveredKeptByStep ==
    ASSUME Inv, [Next]_vars, UNCHANGED <<wal, manifest>>
    PROVE  \A k : /\ LogTail(k)' = LogTail(k)
                  /\ Recovered(k)' = Recovered(k)
                  /\ CheckpointValue(k)' = CheckpointValue(k)
<1>1. \A s \in DOMAIN manifest.segs : s \in DOMAIN files' /\ files'[s] = files[s]
  BY ReferencedFilesKept DEF vars, disk, Inv, FileInv, ManifestComplete
<1>2. \A k : LogTail(k)' = LogTail(k)
  BY DEF LogTail, Touches, KeysOf
<1> QED
  BY <1>1, <1>2, CheckpointKept, RecoveredKept

\* A new record is the last one at each key it touches, and no other key sees it.
LEMMA LoggedTail ==
    ASSUME Inv, LogInv, pc = "idle", NEW rows \in Seq(Row), NEW keys \in SUBSET Keys,
           Log(rows, keys), NEW r, r = [lsn |-> next_lsn, rows |-> rows, keys |-> keys],
           wal' = wal \cup {r}, NEW k
    PROVE  /\ k \in Touches(r) => /\ LogTail(k)' = LogTail(k) \cup {r}
                                  /\ LastRecord(LogTail(k)') = r
           /\ k \notin Touches(r) => LogTail(k)' = LogTail(k)
           /\ r \notin wal
<1>1. /\ r \in Record /\ manifest.applied < r.lsn /\ UNCHANGED manifest
      /\ \A q \in wal : q.lsn \in Nat /\ q.lsn < r.lsn
  BY LogFacts
<1>2. r.lsn \in Nat /\ manifest.applied \in Nat
  BY <1>1 DEF Record, Inv, TypeOK
<1>3. LogTail(k)' = { q \in wal \cup {r} : q.lsn > manifest.applied /\ k \in Touches(q) }
  BY <1>1 DEF LogTail, Touches, KeysOf
<1>4. CASE k \in Touches(r)
  <2>1. LogTail(k)' = LogTail(k) \cup {r}
    BY <1>1, <1>2, <1>3, <1>4 DEF LogTail
  <2>2. \A q \in LogTail(k) \cup {r} : q.lsn \in Nat /\ q.lsn <= r.lsn /\ (q.lsn = r.lsn => q = r)
    BY <1>1, <1>2 DEF LogTail
  <2>3. LastRecord(LogTail(k) \cup {r}) = r
    BY <2>2, LastRecordIs
  <2> QED
    BY <1>1, <1>4, <2>1, <2>3
<1>5. CASE k \notin Touches(r)
  BY <1>1, <1>3, <1>5 DEF LogTail
<1> QED
  BY <1>1, <1>4, <1>5

\* The record just applied, if the log holds it, is the last one at each key it
\* touches.
LEMMA PendingIsLast ==
    ASSUME Inv, LogInv, pc = "apply", pending \in wal, NEW k \in Touches(pending)
    PROVE  pending \in LogTail(k) /\ LastRecord(LogTail(k)) = pending
<1>0. \A q \in wal \ {pending} : q.lsn < pending.lsn
  BY DEF LogInv
<1>1. /\ last_lsn < pending.lsn
      /\ \A q \in wal : q = pending \/ q.lsn < pending.lsn
      /\ manifest.applied <= applied_lsn /\ applied_lsn <= last_lsn
  BY <1>0 DEF LogInv
<1>2. /\ manifest.applied \in Nat /\ applied_lsn \in Nat /\ last_lsn \in Nat
      /\ \A q \in wal : q.lsn \in Nat
  BY DEF Inv, TypeOK, Record
<1>3. pending \in LogTail(k)
  BY <1>1, <1>2 DEF LogTail
<1>4. \A q \in LogTail(k) : q.lsn \in Nat /\ q.lsn <= pending.lsn /\ (q.lsn = pending.lsn => q = pending)
  BY <1>1, <1>2 DEF LogTail, LogInv
<1> QED
  BY <1>3, <1>4, LastRecordIs

\* ... and if not, it is exposed there once it is applied, and no record of the
\* log has its lsn.
LEMMA PendingIsExposed ==
    ASSUME Inv, LogInv, Apply, pending \notin wal
    PROVE  /\ \A k \in Touches(pending) : Exposed(k)'
           /\ \A q \in wal : q.lsn < pending.lsn
<1>1. /\ pc = "apply" /\ last_lsn < pending.lsn
      /\ manifest.applied <= applied_lsn /\ applied_lsn <= last_lsn
      /\ stray' = stray \cup {pending} /\ UNCHANGED manifest
  BY DEF Apply, LogInv, disk
<1>2. manifest.applied \in Nat /\ applied_lsn \in Nat /\ last_lsn \in Nat /\ pending.lsn \in Nat
  BY <1>1 DEF Inv, TypeOK, LsnInv, Record
<1>3. pending.lsn > manifest.applied
  BY <1>1, <1>2
<1>4. wal \ {pending} = wal
  OBVIOUS
<1>5. \A q \in wal : q.lsn < pending.lsn
  BY <1>1, <1>4 DEF LogInv
<1> QED
  BY <1>1, <1>3, <1>5 DEF Exposed, Touches, KeysOf

\* A key stays exposed or not while the manifest and the records outside of the
\* log do.
LEMMA ExposedKept ==
    ASSUME UNCHANGED <<manifest, stray>>
    PROVE  \A k : Exposed(k)' = Exposed(k)
BY DEF Exposed, Touches, KeysOf

\* Committing the manifest only shortens the log tails, from their old end.
LEMMA CommittedTail ==
    ASSUME Inv, LogInv, pc # "down", manifest' = ManifestNow, UNCHANGED wal, NEW k
    PROVE  /\ LogTail(k)' \subseteq LogTail(k)
           /\ LogTail(k)' # {} => LastRecord(LogTail(k)') = LastRecord(LogTail(k))
<1>1. /\ manifest'.applied = applied_lsn /\ manifest.applied <= applied_lsn
      /\ applied_lsn \in Nat /\ manifest.applied \in Nat
      /\ \A q \in wal : q.lsn \in Nat
  BY DEF ManifestNow, LogInv, Inv, TypeOK, Record
<1>2. LogTail(k)' = { q \in wal : q.lsn > applied_lsn /\ k \in Touches(q) }
  BY <1>1 DEF LogTail, Touches, KeysOf
<1>3. LogTail(k)' = { q \in LogTail(k) : q.lsn > applied_lsn }
  BY <1>1, <1>2 DEF LogTail
<1>4. PICK recs \in SUBSET wal : recs = LogTail(k)
  BY DEF LogTail
<1>5. { q \in recs : q.lsn > applied_lsn } # {} =>
        LastRecord({ q \in recs : q.lsn > applied_lsn }) = LastRecord(recs)
  BY <1>1, LastRecordKept
<1> QED
  BY <1>3, <1>4, <1>5

\* A checkpoint that leaves records of a key in the log covers no exposed write of
\* the key: the log's records are older.
LEMMA ExposedStays ==
    ASSUME IndexInv, StrayInv, manifest' = ManifestNow, UNCHANGED <<wal, stray>>,
           NEW k, LogTail(k)' # {}, Exposed(k)
    PROVE  Exposed(k)'
<1>1. manifest'.applied = applied_lsn /\ applied_lsn \in Nat
      /\ \A q \in wal \cup stray : q.lsn \in Nat
  BY DEF ManifestNow, IndexInv, Inv, TypeOK, Record
<1>2. PICK r \in stray : r.lsn > manifest.applied /\ k \in Touches(r)
  BY DEF Exposed
<1>3. \A q \in wal : q.lsn < r.lsn
  BY <1>2 DEF StrayInv
<1>4. PICK q \in wal : q.lsn > applied_lsn
  BY <1>1 DEF LogTail, Touches, KeysOf
<1>5. r.lsn > applied_lsn
  BY <1>1, <1>3, <1>4
<1> QED
  BY <1>1, <1>2, <1>5 DEF Exposed, Touches, KeysOf

\* Recovery's two sources, before and after a step.
LEMMA RecoveredIs ==
    ASSUME NEW k
    PROVE  /\ Recovered(k) = IF LogTail(k) # {} THEN Effect(LastRecord(LogTail(k)), k)
                                                ELSE CheckpointValue(k)
           /\ Recovered(k)' = IF LogTail(k)' # {} THEN Effect(LastRecord(LogTail(k)'), k)
                                                  ELSE CheckpointValue(k)'
BY Zenon DEF Recovered, CheckpointValue, Effect, LastRecord

\* Truncating the log behind the checkpoint loses nothing recovery reads.
LEMMA TruncateKeepsTail ==
    ASSUME Inv, LogInv, FlushTruncate
    PROVE  \A k : LogTail(k)' = LogTail(k) /\ Recovered(k)' = Recovered(k)
<1>1. manifest.applied = applied_lsn /\ UNCHANGED <<manifest, files>>
      /\ wal' \in {wal, { r \in wal : r.lsn > applied_lsn }}
  BY DEF FlushTruncate, LogInv
<1>2. \A k : LogTail(k)' = LogTail(k)
  BY <1>1 DEF LogTail, Touches, KeysOf
<1>3. \A s \in DOMAIN manifest.segs : s \in DOMAIN files' /\ files'[s] = files[s]
  BY <1>1 DEF Inv, FileInv, ManifestComplete
<1> QED
  BY <1>1, <1>2, <1>3, RecoveredKept

-----------------------------------------------------------------------------
(* Every action keeps what is durable.                                     *)

\* A write is durable from the moment it is logged, a checkpoint covers what it
\* removes from the log, and a crash makes what was logged the truth.
LEMMA DurableStep ==
    ASSUME IndexInv, LogInv, StrayInv, UnflushedInv, RecoveringInv, ServesTruth, Durable,
           [Next]_vars
    PROVE  Durable'
<1>1. Inv /\ LiveInv
  BY DEF IndexInv
<1> DEFINE Safe(k) == \/ Recovered(k) = truth[k]
                      \/ LogTail(k) # {} /\ LastRecord(LogTail(k)).lsn \in limbo
                      \/ Exposed(k)
           SafeNext(k) == \/ Recovered(k)' = truth'[k]
                          \/ LogTail(k)' # {} /\ LastRecord(LogTail(k)').lsn \in limbo'
                          \/ Exposed(k)'
<1> SUFFICES ASSUME NEW k \in Keys
             PROVE  SafeNext(k)
  BY Zenon DEF Durable, LastRecord
<1>2. Safe(k)
  BY DEF Durable
<1>3. ASSUME NEW rows \in Seq(Row), NEW keys \in SUBSET Keys, pc = "idle", Log(rows, keys)
      PROVE  SafeNext(k)
  <2>1. PICK r : r = [lsn |-> next_lsn, rows |-> rows, keys |-> keys]
    OBVIOUS
  <2>2. /\ UNCHANGED <<manifest, files, memory, crashes, truth, stray>>
        /\ limbo' \in {limbo, limbo \cup {r.lsn}}
        /\ \/ wal' = wal \cup {r} /\ limbo' = limbo \cup {r.lsn}
           \/ wal' = wal
    BY <1>1, <1>3, <2>1, LogFacts
  <2>3. CASE wal' = wal \cup {r} /\ k \in Touches(r)
    <3>1. LogTail(k)' = LogTail(k) \cup {r} /\ LastRecord(LogTail(k)') = r
      BY <1>1, <1>3, <2>1, <2>3, LoggedTail
    <3>2. r.lsn \in limbo'
      <4>1. wal' # wal
        BY <1>1, <1>3, <2>1, <2>3, LoggedTail
      <4> QED
        BY <2>2, <4>1
    <3> QED
      BY <3>1, <3>2
  <2>4. CASE LogTail(k)' = LogTail(k)
    <3>1. \A s \in DOMAIN manifest.segs : s \in DOMAIN files' /\ files'[s] = files[s]
      BY <1>1, <2>2 DEF Inv, FileInv, ManifestComplete
    <3>2. Recovered(k)' = Recovered(k)
      BY <1>1, <2>2, <2>4, <3>1, RecoveredKept
    <3>3. Exposed(k)' = Exposed(k)
      BY <2>2, ExposedKept
    <3> QED
      BY <1>2, <2>2, <2>4, <3>2, <3>3
  <2>5. LogTail(k)' = LogTail(k) \/ (wal' = wal \cup {r} /\ k \in Touches(r))
    <3>1. wal' = wal => LogTail(k)' = LogTail(k)
      BY <2>2 DEF LogTail, Touches, KeysOf
    <3> QED
      BY <1>1, <1>3, <2>1, <2>2, <3>1, LoggedTail
  <2> QED
    BY <2>3, <2>4, <2>5
<1>4. CASE Apply
  <2>1. /\ pc = "apply" /\ UNCHANGED <<wal, manifest>> /\ limbo' = limbo \ {pending.lsn}
        /\ truth'[k] = IF k \in Touches(pending) THEN Effect(pending, k) ELSE truth[k]
    BY <1>4 DEF Apply, disk
  <2>2. LogTail(k)' = LogTail(k) /\ Recovered(k)' = Recovered(k)
    BY <1>1, <2>1, RecoveredKeptByStep
  <2>3. CASE k \in Touches(pending) /\ pending \in wal
    <3>1. pending \in LogTail(k) /\ LastRecord(LogTail(k)) = pending
      BY <1>1, <2>1, <2>3, PendingIsLast
    <3>2. Recovered(k) = Effect(pending, k)
      BY <3>1, RecoveredIs
    <3> QED
      BY <2>1, <2>2, <2>3, <3>2
  <2>4. CASE k \in Touches(pending) /\ pending \notin wal
    BY <1>1, <1>4, <2>4, PendingIsExposed
  <2>5. CASE k \notin Touches(pending) /\ LogTail(k) # {} /\ LastRecord(LogTail(k)).lsn \in limbo
    <3>1. LastRecord(LogTail(k)) \in LogTail(k)
      BY <1>1, <2>5, LastRecordIsLast DEF LogTail
    <3>2. LastRecord(LogTail(k)) \in wal \ {pending}
      BY <2>5, <3>1 DEF LogTail
    <3>3. LastRecord(LogTail(k)).lsn < pending.lsn /\ pending.lsn \in Nat
      BY <1>1, <2>1, <3>2 DEF LogInv, Inv, LsnInv, Record
    <3> QED
      BY <2>1, <2>2, <2>5, <3>3
  <2>6. CASE Exposed(k)
    BY <1>4, <2>1, <2>6 DEF Apply, Exposed, Touches, KeysOf
  <2> QED
    BY <1>2, <2>1, <2>2, <2>3, <2>4, <2>5, <2>6
<1>5. CASE Crash
  <2>1. UNCHANGED <<wal, manifest>> /\ truth'[k] = Recovered(k)
    BY <1>5 DEF Crash
  <2> QED
    BY <1>1, <2>1, RecoveredKeptByStep
<1>6. CASE FlushTruncate
  <2>1. UNCHANGED <<manifest, stray, truth, limbo>>
    BY <1>6 DEF FlushTruncate
  <2> QED
    BY <1>1, <1>2, <1>6, <2>1, TruncateKeepsTail, ExposedKept
<1>7. CASE (FlushCommit \/ CompactCommit) /\ manifest' = ManifestNow
  <2>1. pc \in {"commit", "compact_commit"} /\ UNCHANGED <<wal, files, memory, truth, limbo, stray>>
    BY <1>7 DEF FlushCommit, CompactCommit, CommitManifest
  <2>2. /\ LogTail(k)' \subseteq LogTail(k)
        /\ LogTail(k)' # {} => LastRecord(LogTail(k)') = LastRecord(LogTail(k))
    BY <1>1, <1>7, <2>1, CommittedTail
  <2>3. CASE LogTail(k)' = {} /\ ~Exposed(k)'
    <3>1. CheckpointValue(k)' = Served(k)
      BY <1>7, <2>1, <2>3, CommittedValue
    <3>2. Served(k) = truth[k]
      BY <2>1 DEF ServesTruth
    <3> QED
      BY <2>1, <2>3, <3>1, <3>2, RecoveredIs
  <2>4. CASE LogTail(k)' # {}
    <3>1. LogTail(k) # {}
      BY <2>2, <2>4
    <3>2. Recovered(k)' = Recovered(k)
      BY <2>2, <2>4, <3>1, RecoveredIs
    <3>3. Exposed(k) => Exposed(k)'
      BY <1>7, <2>1, <2>4, ExposedStays
    <3> QED
      BY <1>2, <2>1, <2>2, <2>4, <3>2, <3>3
  <2> QED
    BY <2>3, <2>4
<1>8. CASE UNCHANGED <<wal, manifest, truth, limbo, stray>>
  BY <1>1, <1>2, <1>8, RecoveredKeptByStep, ExposedKept
<1>9. CASE ~Apply /\ ~Crash /\ ~FlushTruncate /\ ~UNCHANGED <<wal, manifest, truth, limbo, stray>>
           /\ ~((FlushCommit \/ CompactCommit) /\ manifest' = ManifestNow)
  <2>1. \E rows \in Seq(Row), keys \in SUBSET Keys : pc = "idle" /\ Log(rows, keys)
    <3>1. CASE (\E b \in Batches : Insert(b) \/ Upsert(b)) \/ (\E ks \in SUBSET Keys : Delete(ks))
      BY <3>1, WritesLog
    <3>2. CASE ~((\E b \in Batches : Insert(b) \/ Upsert(b)) \/ (\E ks \in SUBSET Keys : Delete(ks)))
      BY <1>9, <3>2 DEF Next, Request, Flush, Compact, Step, FlushSegment, FlushCommit,
         CompactMerge, CompactCommit, CommitManifest, CompactDelete, Open, OpenRefused, Replay,
         vars, disk
    <3> QED
      BY <3>1, <3>2
  <2> QED
    BY <1>3, <2>1
<1> QED
  BY <1>4, <1>5, <1>6, <1>7, <1>8, <1>9

-----------------------------------------------------------------------------
(* Every action keeps what recovery rebuilds and what is served.           *)

\* What replay has rebuilt, before and after a step.
LEMMA ReplayedValueIs ==
    ASSUME NEW k
    PROVE  /\ ReplayedValue(k) = IF Replayed(k) # {} THEN Effect(LastRecord(Replayed(k)), k)
                                                    ELSE CheckpointValue(k)
           /\ ReplayedValue(k)' = IF Replayed(k)' # {} THEN Effect(LastRecord(Replayed(k)'), k)
                                                      ELSE CheckpointValue(k)'
BY Zenon DEF ReplayedValue, Replayed, LogTail, CheckpointValue, Effect, LastRecord

\* Opening: nothing is replayed yet, and the index leads to the checkpoint.
LEMMA OpenRecovers ==
    ASSUME IndexInv, LogInv, RecoveringInv, Open
    PROVE  RecoveringInv'
<1>1. /\ pc = "down" /\ pc' = "replay" /\ last_lsn' = manifest.applied
      /\ UNCHANGED <<wal, manifest, truth, limbo>> /\ Inv /\ CheckpointInv
  BY DEF Open, IndexInv
<1>2. \A k : LogTail(k)' = LogTail(k) /\ Recovered(k)' = Recovered(k)
             /\ CheckpointValue(k)' = CheckpointValue(k)
  BY <1>1, RecoveredKeptByStep DEF Next, Step
<1>3. manifest.applied \in Nat /\ \A r \in wal : r.lsn \in Nat
  BY <1>1 DEF Inv, TypeOK, Record
<1>4. ASSUME NEW k \in Keys
      PROVE  Served(k)' = ReplayedValue(k)'
  <2>1. Replayed(k)' = { r \in LogTail(k) : r.lsn <= manifest.applied }
    BY <1>1, <1>2 DEF Replayed
  <2>2. Replayed(k)' = {}
    BY <1>3, <2>1 DEF LogTail
  <2>3. ReplayedValue(k)' = CheckpointValue(k)'
    BY <2>2, Zenon DEF ReplayedValue
  <2>4. Served(k)' = CheckpointValue(k)
    BY <1>1, OpenIndex
  <2> QED
    BY <1>2, <2>3, <2>4
<1>5. limbo' = {} /\ \A k \in Keys : truth'[k] = Recovered(k)'
  BY <1>1, <1>2 DEF RecoveringInv
<1> QED
  BY <1>4, <1>5, Zenon DEF RecoveringInv

\* Replaying one record moves the boundary past it, at the keys it touches.
LEMMA ReplayRecovers ==
    ASSUME IndexInv, LogInv, RecoveringInv, Replay, NEW r \in wal,
           r \in Record, r.lsn > last_lsn, ApplyEntry(r), pc' = "replay",
           \A q \in wal : q.lsn > last_lsn => r.lsn <= q.lsn
    PROVE  RecoveringInv'
<1>1. /\ pc = "replay" /\ UNCHANGED <<wal, manifest, files, truth, limbo>>
      /\ Inv /\ LiveInv
  BY DEF Replay, IndexInv, disk
<1>2. \A k : LogTail(k)' = LogTail(k) /\ Recovered(k)' = Recovered(k)
             /\ CheckpointValue(k)' = CheckpointValue(k)
  BY <1>1, RecoveredKeptByStep DEF Next, Step
<1>3. /\ manifest.applied \in Nat /\ last_lsn \in Nat /\ \A q \in wal : q.lsn \in Nat
      /\ manifest.applied <= applied_lsn /\ applied_lsn <= last_lsn /\ applied_lsn \in Nat
  BY <1>1 DEF Inv, TypeOK, Record, LogInv
<1>4. last_lsn' = r.lsn
  BY <1>3 DEF ApplyEntry, MaxOf
<1>5. ASSUME NEW k \in Keys
      PROVE  Served(k)' = ReplayedValue(k)'
  <2>1. Served(k)' = IF k \in Touches(r) THEN Effect(r, k) ELSE Served(k)
    BY <1>1, ApplyEntryIndex
  <2>2. Served(k) = ReplayedValue(k)
    BY <1>1 DEF RecoveringInv
  <2>3. Replayed(k)' = { q \in LogTail(k) : q.lsn <= r.lsn }
    BY <1>2, <1>4 DEF Replayed
  <2>4. \A q \in wal : q.lsn <= r.lsn <=> q.lsn <= last_lsn \/ q = r
    <3>1. \A q \in wal : q.lsn = r.lsn => q = r
      BY DEF LogInv
    <3> QED
      BY <1>3, <3>1
  <2>5. CASE k \in Touches(r)
    <3>1. r \in LogTail(k)
      BY <1>3, <2>5 DEF LogTail
    <3>2. \A q \in Replayed(k)' : q.lsn \in Nat /\ q.lsn <= r.lsn /\ (q.lsn = r.lsn => q = r)
      BY <1>3, <2>3 DEF LogTail, LogInv
    <3>3. r \in Replayed(k)'
      BY <1>3, <2>3, <3>1
    <3>4. PICK R : R = Replayed(k)'
      OBVIOUS
    <3>5. LastRecord(R) = r
      BY <3>2, <3>3, <3>4, LastRecordIs
    <3>6. ReplayedValue(k)' = Effect(LastRecord(R), k)
      BY <3>3, <3>4, ReplayedValueIs
    <3> QED
      BY <2>1, <2>5, <3>5, <3>6
  <2>6. CASE k \notin Touches(r)
    <3>1. Replayed(k)' = Replayed(k)
      BY <2>3, <2>4, <2>6 DEF LogTail, Replayed
    <3>2. ReplayedValue(k)' = ReplayedValue(k)
      BY <1>2, <3>1, ReplayedValueIs
    <3> QED
      BY <2>1, <2>2, <2>6, <3>2
  <2> QED
    BY <2>5, <2>6
<1>6. limbo' = {} /\ \A k \in Keys : truth'[k] = Recovered(k)'
  BY <1>1, <1>2 DEF RecoveringInv
<1> QED
  BY <1>5, <1>6, Zenon DEF RecoveringInv

\* When no record is left to replay, what is served is what the disk recovers to.
LEMMA ReplayedAll ==
    ASSUME IndexInv, RecoveringInv, pc = "replay", { r \in wal : r.lsn > last_lsn } = {}
    PROVE  \A k \in Keys : Served(k) = truth[k]
<1>1. last_lsn \in Nat /\ \A q \in wal : q.lsn \in Nat
  BY DEF IndexInv, Inv, TypeOK, Record
<1> SUFFICES ASSUME NEW k \in Keys PROVE Served(k) = truth[k]
  OBVIOUS
<1>2. Replayed(k) = LogTail(k)
  BY <1>1 DEF Replayed, LogTail
<1>3. ReplayedValue(k) = Recovered(k)
  BY <1>2, RecoveredIs DEF ReplayedValue
<1> QED
  BY <1>3 DEF RecoveringInv

\* Recovery starts from what the disk holds and rebuilds it record by record.
LEMMA RecoveringStep ==
    ASSUME IndexInv, LogInv, RecoveringInv, [Next]_vars
    PROVE  RecoveringInv'
<1>1. Inv /\ LiveInv
  BY DEF IndexInv
<1>2. CASE Crash
  <2>1. /\ pc' = "down" /\ limbo' = {} /\ UNCHANGED <<wal, manifest>>
        /\ truth' = [k \in Keys |-> Recovered(k)]
    BY <1>2 DEF Crash
  <2>2. \A k \in Keys : truth'[k] = Recovered(k)'
    BY <1>1, <2>1, RecoveredKeptByStep
  <2> QED
    BY <2>1, <2>2 DEF RecoveringInv
<1>3. CASE Open
  BY <1>3, OpenRecovers
<1>4. CASE Replay
  <2>1. CASE pc' = "idle"
    BY <2>1 DEF RecoveringInv
  <2>2. CASE pc' # "idle"
    <3>1. PICK r \in wal :
              /\ r \in Record /\ r.lsn > last_lsn /\ ApplyEntry(r) /\ pc' = "replay"
              /\ \A q \in wal : q.lsn > last_lsn => r.lsn <= q.lsn
      BY <1>1, <1>4, <2>2, ReplayApplies
    <3> QED
      BY <1>4, <3>1, ReplayRecovers
  <2> QED
    BY <2>1, <2>2
<1>5. CASE UNCHANGED vars
  <2>1. /\ UNCHANGED <<wal, manifest, pc, truth, limbo, last_lsn>>
        /\ ~Apply \/ pc' # "replay"
    BY <1>5 DEF vars, disk, memory, Apply
  <2>2. \A k : LogTail(k)' = LogTail(k) /\ Recovered(k)' = Recovered(k)
               /\ CheckpointValue(k)' = CheckpointValue(k)
    BY <1>1, <2>1, RecoveredKeptByStep
  <2>3. \A k : Served(k)' = Served(k)
    BY <1>5 DEF Served, RowAt, vars, disk, memory
  <2>4. \A k : Replayed(k)' = Replayed(k)
    BY <2>1, <2>2 DEF Replayed
  <2>5. \A k : ReplayedValue(k)' = ReplayedValue(k)
    BY <2>2, <2>4, ReplayedValueIs
  <2> QED
    BY <2>1, <2>2, <2>3, <2>5, Zenon DEF RecoveringInv
<1>6. CASE OpenRefused
  <2>1. pc = "down" /\ pc' = "down" /\ UNCHANGED <<wal, manifest, truth, limbo>>
    BY <1>6 DEF OpenRefused
  <2>2. \A k \in Keys : Recovered(k)' = Recovered(k)
    BY <1>1, <2>1, RecoveredKeptByStep
  <2> QED
    BY <2>1, <2>2 DEF RecoveringInv
<1>7. CASE ~Crash /\ ~Open /\ ~OpenRefused /\ ~Replay /\ ~UNCHANGED vars
  <2>1. pc' \notin {"down", "replay"}
    <3>1. ASSUME NEW rows, NEW keys, pc = "idle", Log(rows, keys)
          PROVE  pc' \notin {"down", "replay"}
      BY <3>1 DEF Log, Abort
    <3>2. CASE Request
      BY <3>1, <3>2 DEF Request, Insert, Upsert, Delete, Flush, Compact
    <3>3. CASE Step
      BY <1>7, <3>3 DEF Step, Apply, FlushSegment, FlushCommit, FlushTruncate, CompactMerge,
         CompactCommit, CommitManifest, CompactDelete, SegmentWriteFails, Abort
    <3> QED
      BY <1>7, <3>2, <3>3 DEF Next
  <2> QED
    BY <2>1 DEF RecoveringInv
<1> QED
  BY <1>2, <1>3, <1>4, <1>5, <1>6, <1>7

\* A write becomes the truth in the step that makes it visible, and no other step
\* of an open partition changes either.
LEMMA ServesStep ==
    ASSUME IndexInv, LogInv, RecoveringInv, ServesTruth, [Next]_vars
    PROVE  ServesTruth'
<1>1. Inv /\ LiveInv
  BY DEF IndexInv
<1>2. CASE Apply
  <2>1. /\ pc = "apply" /\ ApplyEntry(pending) /\ UNCHANGED files
        /\ truth' = [k \in Keys |-> IF k \in Touches(pending) THEN Effect(pending, k) ELSE truth[k]]
    BY <1>2 DEF Apply, disk
  <2>2. pending \in Record
    BY <1>1, <2>1 DEF Inv, LsnInv
  <2>3. \A k \in Keys : Served(k)' = IF k \in Touches(pending) THEN Effect(pending, k) ELSE Served(k)
    BY <1>1, <2>1, <2>2, ApplyEntryIndex
  <2>4. \A k \in Keys : Served(k) = truth[k]
    BY <2>1 DEF ServesTruth
  <2> QED
    BY <2>1, <2>3, <2>4, Zenon DEF ServesTruth
<1>3. CASE Open \/ OpenRefused \/ Crash
  BY <1>3 DEF ServesTruth, Open, OpenRefused, Crash
<1>4. CASE Replay /\ pc' # "idle"
  BY <1>4 DEF ServesTruth, Replay
<1>5. CASE Replay /\ pc' = "idle"
  <2>1. { r \in wal : r.lsn > last_lsn } = {} /\ pc = "replay" /\ UNCHANGED <<memory, truth>>
    BY <1>5 DEF Replay
  <2>2. \A k \in Keys : Served(k) = truth[k]
    BY <2>1, ReplayedAll
  <2>3. ~Apply /\ ~Open /\ ~Crash
    BY <1>5, <2>1 DEF Apply, Open, Crash
  <2>4. \A k \in Keys : Served(k)' = Served(k)
    BY <2>1, <2>3, ServedKept
  <2> QED
    BY <2>1, <2>2, <2>4, Zenon DEF ServesTruth
<1>6. CASE ~Apply /\ ~Open /\ ~OpenRefused /\ ~Crash /\ ~Replay
  <2>1. \A k \in Keys : Served(k)' = Served(k)
    BY <1>6, ServedKept
  <2>2. UNCHANGED truth
    BY <1>6 DEF Next, Request, Insert, Upsert, Delete, Log, Flush, Compact, Step, FlushSegment,
       FlushCommit, FlushTruncate, CompactMerge, CompactCommit, CommitManifest, CompactDelete, vars
  <2>3. pc' \notin {"down", "replay"} => pc \notin {"down", "replay"}
    <3>1. CASE UNCHANGED vars
      BY <3>1 DEF vars
    <3>2. CASE Next
      BY <1>6, <3>2 DEF Next, Request, Insert, Upsert, Delete, Flush, Compact, Step, FlushSegment,
         FlushCommit, FlushTruncate, CompactMerge, CompactCommit, CommitManifest, CompactDelete
    <3> QED
      BY <3>1, <3>2
  <2> QED
    BY <2>1, <2>2, <2>3, Zenon DEF ServesTruth
<1> QED
  BY <1>2, <1>3, <1>4, <1>5, <1>6

-----------------------------------------------------------------------------
(* Theorems.                                                               *)

\* The recovery invariant is inductive.
LEMMA RecoveryInvInductive ==
    /\ Init => RecoveryInv
    /\ RecoveryInv /\ [Next]_vars => RecoveryInv'
<1>1. ASSUME Init PROVE RecoveryInv
  <2>1. IndexInv
    BY <1>1, IndexInvInductive
  <2>2. LogInv /\ StrayInv /\ UnflushedInv /\ RecoveringInv
    BY <1>1 DEF Init, LogInv, StrayInv, UnflushedInv, RecoveringInv
  <2>3. ASSUME NEW k \in Keys
        PROVE  truth[k] = None /\ Served(k) = None /\ Recovered(k) = None
    <3>1. truth[k] = None /\ Served(k) = None
      BY <1>1 DEF Init, Served
    <3>2. LogTail(k) = {}
      BY <1>1 DEF Init, LogTail
    <3>3. DOMAIN manifest.segs = {}
      BY <1>1 DEF Init
    <3>4. Checkpointed(k) = {}
      BY <3>3 DEF Checkpointed, SegmentLocs
    <3> QED
      BY <3>1, <3>2, <3>4 DEF Recovered
  <2> QED
    BY <2>1, <2>2, <2>3 DEF RecoveryInv, ServesTruth, Durable
<1>2. ASSUME RecoveryInv, [Next]_vars PROVE RecoveryInv'
  <2>1. IndexInv'
    BY <1>2, IndexInvInductive DEF RecoveryInv
  <2>2. LogInv' /\ StrayInv' /\ UnflushedInv'
    BY <1>2, LogInvStep, StrayStep, UnflushedStep DEF RecoveryInv, IndexInv
  <2>3. RecoveringInv' /\ ServesTruth' /\ Durable'
    BY <1>2, RecoveringStep, ServesStep, DurableStep DEF RecoveryInv
  <2> QED
    BY <2>1, <2>2, <2>3 DEF RecoveryInv
<1> QED
  BY <1>1, <1>2

\* It holds in every reachable state.
LEMMA RecoveryInvariance == Spec => []RecoveryInv
BY RecoveryInvInductive, PTL DEF Spec

\* Whatever flushes, compactions, failed file operations and restarts came in
\* between, an open partition serves the last acknowledged write of each key
\* (Table::get through the key index).
THEOREM ServesAcknowledged == Spec => []ServesTruth
<1>1. RecoveryInv => ServesTruth
  BY DEF RecoveryInv
<1> QED
  BY <1>1, RecoveryInvariance, PTL

\* Whenever the process dies, and whichever file operation fails, Partition::open
\* finds on disk the last acknowledged write of each key, or a later record that
\* was logged and never acknowledged; but for a key that was written on a damaged
\* log, behind a partial frame or through a writer that was not re-pointed, until
\* a manifest covers that write.
THEOREM RecoversAcknowledged == Spec => []Durable
<1>1. RecoveryInv => Durable
  BY DEF RecoveryInv
<1> QED
  BY <1>1, RecoveryInvariance, PTL

-----------------------------------------------------------------------------
(* The refinement of KeyedStore, step by step.                             *)

\* Every record touches a key: Table::insert refuses an empty batch and delete_keys
\* logs only the keys that are present.
TouchInv ==
    /\ \A r \in wal : Touches(r) # {}
    /\ pending # None => Touches(pending) # {}

\* Records enter the log through Log only.
LEMMA TouchStep ==
    ASSUME Inv, TouchInv, [Next]_vars
    PROVE  TouchInv'
<1>1. ASSUME NEW rows \in Seq(Row), NEW keys \in SUBSET Keys, pc = "idle", Log(rows, keys),
             keys \cup KeysOf(rows) # {}
      PROVE  TouchInv'
  <2>1. PICK r : r = [lsn |-> next_lsn, rows |-> rows, keys |-> keys]
    OBVIOUS
  <2>2. Touches(r) # {} /\ wal' \subseteq wal \cup {r} /\ pending' \in {r, None}
    BY <1>1, <2>1, LogFacts
  <2> QED
    BY <2>2 DEF TouchInv, Touches, KeysOf
<1>2. CASE wal' \subseteq wal /\ pending' \in {pending, None}
  BY <1>2 DEF TouchInv, Touches, KeysOf
<1>3. CASE (\E b \in Batches : Insert(b) \/ Upsert(b)) \/ (\E ks \in SUBSET Keys : Delete(ks))
  BY <1>1, <1>3, WritesLog
<1>4. CASE ~((\E b \in Batches : Insert(b) \/ Upsert(b)) \/ (\E ks \in SUBSET Keys : Delete(ks)))
  <2>1. wal' \subseteq wal /\ pending' \in {pending, None}
    BY <1>4 DEF Next, Request, Flush, Compact, Step, Apply, FlushSegment, SegmentWriteFails, Abort,
       FlushCommit, FlushTruncate, CompactMerge, CompactCommit, CommitManifest, CompactDelete,
       Open, OpenRefused, Replay, Crash, vars, disk
  <2> QED
    BY <2>1, <1>2
<1> QED
  BY <1>3, <1>4

\* The abstract state, key by key.
LEMMA MappedValues ==
    /\ DOMAIN Stored = Keys /\ DOMAIN Surfacing = InDoubt /\ InDoubt \subseteq Keys
    /\ \A k \in Keys : Stored[k] = IF pc \in {"down", "replay"} THEN Recovered(k) ELSE Served(k)
    /\ \A k \in InDoubt : Surfacing[k] = Effect(LastRecord(Doubtful(k)), k)
    /\ pending # None => /\ DOMAIN InProgress = Touches(pending)
                         /\ \A k \in Touches(pending) : InProgress[k] = Effect(pending, k)
    /\ pending = None => InProgress = <<>>
BY DEF Stored, InProgress, Surfacing, InDoubt

\* ... and after a step.
LEMMA MappedValuesNext ==
    /\ DOMAIN Stored' = Keys /\ DOMAIN Surfacing' = InDoubt' /\ InDoubt' \subseteq Keys
    /\ \A k \in Keys : Stored'[k] = IF pc' \in {"down", "replay"} THEN Recovered(k)' ELSE Served(k)'
    /\ \A k \in InDoubt' : Surfacing'[k] = Effect(LastRecord(Doubtful(k)'), k)
    /\ pending' # None => /\ DOMAIN InProgress' = Touches(pending')
                          /\ \A k \in Touches(pending') : InProgress'[k] = Effect(pending', k)
    /\ pending' = None => InProgress' = <<>>
BY DEF Stored, InProgress, Surfacing, InDoubt, Effect, Touches, KeysOf, LastRecord, LastOf, Highest

\* What is exposed, before and after a step.
LEMMA ExposureIs ==
    /\ DOMAIN Exposure = { k \in Keys : Exposed(k) }
    /\ \A k \in DOMAIN Exposure : Exposure[k] = Recovered(k)
    /\ \A k : k \in DOMAIN Exposure' <=> k \in Keys /\ Exposed(k)'
    /\ \A k \in DOMAIN Exposure' : Exposure'[k] = Recovered(k)'
    /\ Exposure = [k \in DOMAIN Exposure |-> Exposure[k]]
    /\ Exposure' = [k \in DOMAIN Exposure' |-> Exposure'[k]]
<1>1. /\ DOMAIN Exposure = { k \in Keys : Exposed(k) }
      /\ \A k \in DOMAIN Exposure : Exposure[k] = Recovered(k)
      /\ Exposure = [k \in DOMAIN Exposure |-> Exposure[k]]
  BY DEF Exposure
<1>2. /\ \A k : k \in DOMAIN Exposure' <=> k \in Keys /\ Exposed(k)'
      /\ \A k \in DOMAIN Exposure' : Exposure'[k] = Recovered(k)'
      /\ Exposure' = [k \in DOMAIN Exposure' |-> Exposure'[k]]
  BY DEF Exposure
<1> QED
  BY <1>1, <1>2

\* It stays while the exposed keys do, and what the disk holds for them.
LEMMA ExposureKept ==
    ASSUME \A k \in Keys : Exposed(k)' <=> Exposed(k),
           \A k \in Keys : Exposed(k) => Recovered(k)' = Recovered(k)
    PROVE  Exposure' = Exposure
<1>1. DOMAIN Exposure' = DOMAIN Exposure
  BY ExposureIs
<1>2. \A k \in DOMAIN Exposure : Exposure'[k] = Exposure[k]
  BY <1>1, ExposureIs
<1> QED
  BY <1>1, <1>2, ExposureIs

\* Nothing is exposed where no key is.
LEMMA NothingExposed ==
    /\ (\A k \in Keys : ~Exposed(k)) => Exposure = <<>>
    /\ (\A k \in Keys : ~Exposed(k)') => Exposure' = <<>>
<1>1. ASSUME \A k \in Keys : ~Exposed(k)
      PROVE  Exposure = <<>>
  <2>1. DOMAIN Exposure = {}
    BY <1>1, ExposureIs
  <2> QED
    BY <2>1, ExposureIs
<1>2. ASSUME \A k \in Keys : ~Exposed(k)'
      PROVE  Exposure' = <<>>
  <2>1. DOMAIN Exposure' = {}
    BY <1>2, ExposureIs
  <2> QED
    BY <2>1, ExposureIs
<1> QED
  BY <1>1, <1>2

\* The keys in doubt, before and after a step.
LEMMA InDoubtIs ==
    /\ \A k : k \in InDoubt <=>
          k \in Keys /\ Doubtful(k) # {} /\ LastRecord(Doubtful(k)).lsn \in limbo
    /\ \A k : k \in InDoubt' <=>
          k \in Keys /\ Doubtful(k)' # {} /\ LastRecord(Doubtful(k)').lsn \in limbo'
BY Zenon DEF InDoubt, LastRecord

\* A record of the log is not the absent one, so with no write in progress the
\* whole log tail of a key is in question.
LEMMA DoubtfulIs ==
    ASSUME Inv
    PROVE  /\ None \notin wal
           /\ pending = None => \A k : Doubtful(k) = LogTail(k)
           /\ \A k : pending # None /\ k \notin Touches(pending) => Doubtful(k) = LogTail(k)
<1>1. None \notin wal
  BY PartitionAssumption DEF Inv, TypeOK
<1> QED
  BY <1>1 DEF Doubtful, LogTail

\* The same after a step.
LEMMA DoubtfulIsNext ==
    ASSUME Inv'
    PROVE  pending' = None => \A k : Doubtful(k)' = LogTail(k)'
<1>1. None \notin wal'
  BY PartitionAssumption DEF Inv, TypeOK
<1> QED
  BY <1>1 DEF Doubtful, LogTail, Touches, KeysOf

\* What is in doubt stays so while the records in question and limbo do.
LEMMA SurfacingKept ==
    ASSUME \A k \in Keys : Doubtful(k)' = Doubtful(k),
           \A k \in Keys : Doubtful(k) # {} =>
              (LastRecord(Doubtful(k)).lsn \in limbo' <=> LastRecord(Doubtful(k)).lsn \in limbo)
    PROVE  Surfacing' = Surfacing
<1>1. InDoubt' = InDoubt
  BY InDoubtIs
<1>2. \A k \in InDoubt : Surfacing'[k] = Surfacing[k]
  BY <1>1, MappedValues, MappedValuesNext
<1>3. Surfacing' = [k \in InDoubt' |-> Surfacing'[k]] /\ Surfacing = [k \in InDoubt |-> Surfacing[k]]
  BY DEF Surfacing
<1> QED
  BY <1>1, <1>2, <1>3

\* What callers can see stays while each key's value does.
LEMMA StoredKept ==
    ASSUME \A k \in Keys : Stored'[k] = Stored[k]
    PROVE  Stored' = Stored
<1>1. Stored' = [k \in Keys |-> Stored'[k]] /\ Stored = [k \in Keys |-> Stored[k]]
  BY DEF Stored
<1> QED
  BY <1>1

\* Records touch keys.
LEMMA TouchesKeys ==
    ASSUME NEW r \in Record
    PROVE  Touches(r) \subseteq Keys
<1>1. r.rows \in Seq(Row) /\ r.keys \subseteq Keys
  BY DEF Record
<1>2. \A i \in DOMAIN r.rows : r.rows[i] \in Row
  BY <1>1
<1>3. \A i \in DOMAIN r.rows : r.rows[i].key \in Keys
  BY <1>2 DEF Row
<1> QED
  BY <1>1, <1>3 DEF Touches, KeysOf

\* The write a record stands for is one a caller may make.
LEMMA RecordIsChange ==
    ASSUME NEW r \in Record, Touches(r) # {}
    PROVE  [k \in Touches(r) |-> Effect(r, k)] \in Abstract!Change
<1>1. Touches(r) \in (SUBSET Keys) \ {{}}
  BY TouchesKeys
<1>2. \A k \in Touches(r) : Effect(r, k) \in Values \cup {None}
  BY EffectType
<1>3. [k \in Touches(r) |-> Effect(r, k)] \in [Touches(r) -> Values \cup {None}]
  BY <1>2
<1> QED
  BY <1>1, <1>3 DEF Abstract!Change

\* What a restart finds where the write in progress is not in the log.
LEMMA FallbackIs ==
    ASSUME RecoveryInv, pc \notin {"down", "replay"}
    PROVE  /\ DOMAIN Abstract!Fallback = Keys
           /\ \A k \in Keys : pending = None \/ pending \notin wal \/ k \notin Touches(pending)
                 => Abstract!Fallback[k] = Recovered(k)
<1> DEFINE rest == Abstract!Over(Surfacing, Stored)
<1>1. DOMAIN rest = Keys
      /\ \A k \in Keys : rest[k] = IF k \in InDoubt THEN Surfacing[k] ELSE Stored[k]
  BY MappedValues DEF Abstract!Over
<1>2. DOMAIN Exposure \subseteq Keys
  BY ExposureIs
<1>3. Abstract!Fallback = Abstract!Over(Exposure, rest)
  BY DEF Abstract!Fallback
<1> HIDE DEF rest
<1>4. DOMAIN Abstract!Fallback = Keys
      /\ \A k \in Keys : Abstract!Fallback[k] = IF k \in DOMAIN Exposure THEN Exposure[k] ELSE rest[k]
  BY <1>1, <1>2, <1>3 DEF Abstract!Over
<1>5. ASSUME NEW k \in Keys, pending = None \/ pending \notin wal \/ k \notin Touches(pending)
      PROVE  Abstract!Fallback[k] = Recovered(k)
  <2>0. Inv /\ ServesTruth /\ Durable
    BY DEF RecoveryInv, IndexInv
  <2>1. Doubtful(k) = LogTail(k)
    BY <1>5, <2>0, DoubtfulIs DEF Doubtful, LogTail
  <2>2. CASE k \in DOMAIN Exposure
    BY <1>4, <2>2, ExposureIs
  <2>3. CASE k \notin DOMAIN Exposure /\ k \in InDoubt
    <3>1. Abstract!Fallback[k] = Effect(LastRecord(LogTail(k)), k)
      BY <1>1, <1>4, <2>1, <2>3, MappedValues
    <3>2. LogTail(k) # {}
      BY <2>1, <2>3, InDoubtIs
    <3> QED
      BY <3>1, <3>2, RecoveredIs
  <2>4. CASE k \notin DOMAIN Exposure /\ k \notin InDoubt
    <3>1. Recovered(k) = truth[k]
      BY <2>0, <2>1, <2>4, InDoubtIs, ExposureIs DEF Durable
    <3>2. Stored[k] = truth[k]
      BY <2>0, MappedValues DEF ServesTruth
    <3> QED
      BY <1>1, <1>4, <2>4, <3>1, <3>2
  <2> QED
    BY <2>2, <2>3, <2>4
<1> QED
  BY <1>4, <1>5

\* The log is repaired only when nothing is exposed: a truncation follows the
\* manifest that covers every applied record, and open starts from the disk.
LEMMA RepairIsCovered ==
    ASSUME RecoveryInv, Next, Damaged, ~Damaged'
    PROVE  Exposure = <<>>
<1>1. Inv /\ LogInv /\ StrayInv
  BY DEF RecoveryInv, IndexInv
<1>2. tail # "whole" /\ tail' = "whole"
  BY DEF Damaged
<1>3. CASE FlushTruncate
  <2>1. pc = "truncate" /\ manifest.applied = last_lsn /\ last_lsn \in Nat
    BY <1>1, <1>3 DEF FlushTruncate, LogInv, StrayInv, Inv, TypeOK
  <2>2. \A r \in stray : r.lsn <= last_lsn /\ r.lsn \in Nat
    BY <1>1 DEF StrayInv, Inv, TypeOK, Record
  <2>3. \A k \in Keys : ~Exposed(k)
    BY <2>1, <2>2 DEF Exposed
  <2> QED
    BY <2>3, NothingExposed
<1>4. CASE Open
  <2>1. \A k \in Keys : ~Exposed(k)
    BY <1>1, <1>4 DEF Open, StrayInv, Exposed
  <2> QED
    BY <2>1, NothingExposed
<1>5. CASE (\E b \in Batches : Insert(b) \/ Upsert(b)) \/ (\E ks \in SUBSET Keys : Delete(ks))
  <2>1. PICK rows \in Seq(Row), keys \in SUBSET Keys : pc = "idle" /\ Log(rows, keys)
    BY <1>5, WritesLog
  <2>2. PICK r : r = [lsn |-> next_lsn, rows |-> rows, keys |-> keys]
    OBVIOUS
  <2> QED
    BY <1>1, <1>2, <2>1, <2>2, LogFacts
<1>6. CASE ~FlushTruncate /\ ~Open /\ ~((\E b \in Batches : Insert(b) \/ Upsert(b))
                                     \/ (\E ks \in SUBSET Keys : Delete(ks)))
  BY <1>2, <1>6 DEF Next, Request, Flush, Compact, Step, Apply, FlushSegment, FlushCommit,
     CompactMerge, CompactCommit, CommitManifest, CompactDelete, OpenRefused, Replay, Crash,
     Buried, disk
<1> QED
  BY <1>3, <1>4, <1>5, <1>6

\* A step a caller does not see may damage the log, or repair it with nothing
\* exposed.
LEMMA DamageMaps ==
    ASSUME UNCHANGED <<Stored, InProgress, Surfacing, Exposure>>,
           Damaged /\ ~Damaged' => Exposure = <<>>
    PROVE  [Abstract!Next]_<<Stored, InProgress, Surfacing, Damaged, Exposure>>
<1>1. Damaged \in BOOLEAN /\ Damaged' \in BOOLEAN
  BY DEF Damaged
<1>2. CASE Damaged' = TRUE
  BY <1>2 DEF Abstract!Next, Abstract!Damage
<1>3. CASE Damaged' = FALSE /\ Damaged = TRUE
  BY <1>3 DEF Abstract!Next, Abstract!Repair
<1>4. CASE Damaged' = FALSE /\ Damaged = FALSE
  BY <1>4
<1> QED
  BY <1>1, <1>2, <1>3, <1>4

\* Appending a record begins the write, and a failed fsync leaves it in doubt.
LEMMA LogMaps ==
    ASSUME RecoveryInv, TouchInv, [Next]_vars, pc = "idle",
           NEW rows \in Seq(Row), NEW keys \in SUBSET Keys, Log(rows, keys),
           keys \cup KeysOf(rows) # {}
    PROVE  [Abstract!Next]_<<Stored, InProgress, Surfacing, Damaged, Exposure>>
<1>1. PICK r : r = [lsn |-> next_lsn, rows |-> rows, keys |-> keys]
  OBVIOUS
<1>2. Inv /\ LogInv /\ IndexInv /\ Inv'
  BY RecoveryInvInductive DEF RecoveryInv, IndexInv
<1>3. /\ r \in Record /\ Touches(r) # {}
      /\ \A q \in wal : q.lsn \in Nat /\ q.lsn < r.lsn
      /\ UNCHANGED <<manifest, files, memory, crashes, truth, stray>>
      /\ pc' \in {"apply", "idle"}
  BY <1>1, <1>2, LogFacts
<1>4. /\ tail # "whole" => tail' # "whole" /\ wal' = wal
      /\ limbo' \in {limbo, limbo \cup {r.lsn}}
      /\ \/ pending' = r /\ limbo' = limbo \cup {r.lsn}
            /\ (tail' = "whole" <=> tail = "whole")
            /\ wal' \in {wal, wal \cup {r}}
         \/ pending' = None /\ limbo' = limbo \cup {r.lsn}
            /\ wal' = wal \cup {r} /\ tail = "whole" /\ tail' = "whole"
         \/ pending' = None /\ wal' = wal
  BY <1>1, <1>2, LogFacts
<1>5. pending = None /\ InProgress = <<>>
  BY <1>2, MappedValues DEF LogInv
<1>6. Stored' = Stored
  <2>1. ~Apply /\ ~Open /\ ~Crash /\ ~(Replay /\ ~UNCHANGED memory)
    BY <1>3 DEF Apply, Open, Crash
  <2>2. \A k \in Keys : Served(k)' = Served(k)
    BY <1>2, <2>1, ServedKept
  <2> QED
    BY <1>3, <2>2, MappedValues, MappedValuesNext, StoredKept
<1>7. \A k : /\ Doubtful(k) = LogTail(k) /\ LogTail(k) \in SUBSET wal
             /\ LogTail(k) # {} => LastRecord(LogTail(k)).lsn < r.lsn
                                   /\ LastRecord(LogTail(k)).lsn \in Nat
  <2>1. \A k : Doubtful(k) = LogTail(k) /\ LogTail(k) \in SUBSET wal
    BY <1>2, <1>5, DoubtfulIs DEF LogTail
  <2> QED
    BY <1>2, <1>3, <2>1, LastRecordIsLast
<1>8. r.lsn \in Nat /\ r \notin wal
  BY <1>3 DEF Record
<1>9. Exposure' = Exposure
  <2>1. \A k \in Keys : Exposed(k)' <=> Exposed(k)
    BY <1>3, ExposedKept
  <2>2. ASSUME NEW k \in Keys, Exposed(k)
        PROVE  Recovered(k)' = Recovered(k)
    <3>1. tail # "whole"
      BY <2>2 DEF Exposed, RecoveryInv, StrayInv
    <3>2. UNCHANGED <<wal, manifest>>
      BY <1>3, <1>4, <3>1
    <3> QED
      BY <1>2, <3>2, RecoveredKeptByStep
  <2> QED
    BY <2>1, <2>2, ExposureKept
<1>10. CASE /\ wal' \in {wal, wal \cup {r}} /\ limbo' = limbo \cup {r.lsn} /\ pending' = r
            /\ (tail' = "whole" <=> tail = "whole")
  <2>0. Damaged' = Damaged
    BY <1>10, Zenon DEF Damaged
  <2>1. \A k : Doubtful(k)' = LogTail(k)
    <3>1. r \notin wal
      BY <1>8
    <3>2. \A k : LogTail(k)' = LogTail(k) \cup {r} \/ LogTail(k)' = LogTail(k)
      <4>1. CASE wal' = wal \cup {r}
        BY <1>1, <1>2, <4>1, LoggedTail
      <4>2. CASE wal' = wal
        BY <1>2, <1>3, <4>2, RecoveredKeptByStep
      <4> QED
        BY <1>10, <4>1, <4>2
    <3>3. \A k : Doubtful(k)' = LogTail(k)' \ {r}
      BY <1>10 DEF Doubtful
    <3> QED
      BY <1>7, <3>1, <3>2, <3>3
  <2>2. \A k \in Keys : Doubtful(k)' = Doubtful(k)
    BY <1>7, <2>1
  <2>3. \A k \in Keys : Doubtful(k) # {} =>
          (LastRecord(Doubtful(k)).lsn \in limbo' <=> LastRecord(Doubtful(k)).lsn \in limbo)
    BY <1>7, <1>8, <1>10
  <2>4. Surfacing' = Surfacing
    BY <2>2, <2>3, SurfacingKept
  <2>5. InProgress' = [k \in Touches(r) |-> Effect(r, k)]
    <3>1. r # None
      BY <1>3, PartitionAssumption
    <3> QED
      BY <1>10, <3>1 DEF InProgress, Touches, KeysOf, Effect, LastOf, Highest
  <2> QED
    BY <1>3, <1>5, <1>6, <1>9, <2>0, <2>4, <2>5, RecordIsChange DEF Abstract!Next, Abstract!Begin
<1>11. CASE /\ wal' = wal \cup {r} /\ limbo' = limbo \cup {r.lsn} /\ pending' = None
            /\ tail = "whole" /\ tail' = "whole"
  <2>0. Damaged' = Damaged
    BY <1>11 DEF Damaged
  <2> DEFINE c == [k \in Touches(r) |-> Effect(r, k)]
  <2>1. InProgress' = <<>> /\ \A k : Doubtful(k)' = LogTail(k)'
    BY <1>2, <1>11, MappedValuesNext, DoubtfulIsNext
  <2>2. Touches(r) \subseteq Keys
    BY <1>3, TouchesKeys
  <2>3. ASSUME NEW k \in Touches(r)
        PROVE  k \in InDoubt' /\ Surfacing'[k] = Effect(r, k)
    <3>1. LogTail(k)' = LogTail(k) \cup {r} /\ LastRecord(LogTail(k)') = r
      BY <1>1, <1>2, <1>11, LoggedTail
    <3>2. Doubtful(k)' # {} /\ LastRecord(Doubtful(k)') = r
      BY <2>1, <3>1
    <3>3. k \in InDoubt'
      BY <1>11, <2>2, <3>2, InDoubtIs
    <3> QED
      BY <3>2, <3>3, MappedValuesNext
  <2>4. ASSUME NEW k, k \notin Touches(r)
        PROVE  /\ k \in InDoubt' <=> k \in InDoubt
               /\ k \in InDoubt => Surfacing'[k] = Surfacing[k]
    <3>1. Doubtful(k)' = Doubtful(k)
      BY <1>1, <1>2, <1>7, <1>11, <2>1, <2>4, LoggedTail
    <3>2. k \in InDoubt' <=> k \in InDoubt
      BY <1>7, <1>8, <1>11, <3>1, InDoubtIs
    <3> QED
      BY <3>1, <3>2, MappedValues, MappedValuesNext
  <2>5. Surfacing' = Abstract!Over(c, Surfacing)
    <3>1. InDoubt' = Touches(r) \cup InDoubt
      BY <2>3, <2>4
    <3>2. DOMAIN c = Touches(r) /\ \A k \in Touches(r) : c[k] = Effect(r, k)
      OBVIOUS
    <3>3. Surfacing' = [k \in InDoubt' |-> Surfacing'[k]] /\ DOMAIN Surfacing = InDoubt
      BY DEF Surfacing
    <3>4. \A k \in InDoubt' : Surfacing'[k] = IF k \in Touches(r) THEN c[k] ELSE Surfacing[k]
      BY <2>3, <2>4, <3>2
    <3> HIDE DEF c
    <3> QED
      BY <3>1, <3>2, <3>3, <3>4 DEF Abstract!Over
  <2>6. c \in Abstract!Change
    BY <1>3, RecordIsChange
  <2> QED
    BY <1>5, <1>6, <1>9, <2>0, <2>1, <2>5, <2>6 DEF Abstract!Next, Abstract!Fail
<1>12. CASE pending' = None /\ wal' = wal
  <2>1. InProgress' = <<>> /\ \A k : Doubtful(k)' = LogTail(k)'
    BY <1>2, <1>12, MappedValuesNext, DoubtfulIsNext
  <2>2. \A k : LogTail(k)' = LogTail(k)
    BY <1>3, <1>12 DEF LogTail, Touches, KeysOf
  <2>3. \A k \in Keys : Doubtful(k) # {} =>
          (LastRecord(Doubtful(k)).lsn \in limbo' <=> LastRecord(Doubtful(k)).lsn \in limbo)
    BY <1>7, <1>8, <1>4
  <2>4. Surfacing' = Surfacing
    BY <1>7, <2>1, <2>2, <2>3, SurfacingKept
  <2>5. Damaged => Damaged'
    BY <1>4 DEF Damaged
  <2> QED
    BY <1>5, <1>6, <1>9, <2>1, <2>4, <2>5, DamageMaps
<1> QED
  BY <1>10, <1>11, <1>12, <1>4

\* Applying the record acknowledges the write and settles its keys.
LEMMA ApplyMaps ==
    ASSUME RecoveryInv, TouchInv, [Next]_vars, Apply
    PROVE  Abstract!Acknowledge
<1>1. Inv /\ LogInv /\ IndexInv /\ LiveInv /\ Inv'
  BY RecoveryInvInductive DEF RecoveryInv, IndexInv
<1>2. /\ pc = "apply" /\ pc' \in {"idle", "flush"} /\ pending' = None
      /\ UNCHANGED <<wal, manifest, files>> /\ ApplyEntry(pending)
      /\ limbo' = limbo \ {pending.lsn}
  BY DEF Apply, disk
<1>3. pending \in Record /\ pending # None /\ Touches(pending) # {}
  BY <1>1, <1>2, PartitionAssumption DEF Inv, LsnInv, TouchInv
<1>4. /\ DOMAIN InProgress = Touches(pending) /\ InProgress # <<>> /\ InProgress' = <<>>
      /\ \A k \in Touches(pending) : InProgress[k] = Effect(pending, k)
  <2>1. DOMAIN InProgress = Touches(pending)
    BY <1>3, MappedValues
  <2>2. InProgress # <<>>
    BY <1>3, <2>1
  <2> QED
    BY <1>2, <1>3, <2>1, <2>2, MappedValues, MappedValuesNext
<1>5. Touches(pending) \subseteq Keys
  BY <1>3, TouchesKeys
<1>6. Stored' = Abstract!Over(InProgress, Stored)
  <2>1. \A k \in Keys : Served(k)' = IF k \in Touches(pending) THEN Effect(pending, k) ELSE Served(k)
    BY <1>1, <1>2, <1>3, ApplyEntryIndex
  <2>2. \A k \in Keys : Stored'[k] = IF k \in Touches(pending) THEN InProgress[k] ELSE Stored[k]
    BY <1>2, <1>4, <2>1, MappedValues, MappedValuesNext
  <2>3. Stored' = [k \in Keys |-> Stored'[k]] /\ DOMAIN Stored = Keys
    BY DEF Stored
  <2> QED
    BY <1>4, <1>5, <2>2, <2>3 DEF Abstract!Over
<1>7. \A k : Doubtful(k)' = LogTail(k)
  BY <1>1, <1>2, DoubtfulIsNext, RecoveredKeptByStep
<1>8. Damaged' = Damaged /\ (pending \in wal <=> ~Damaged)
  BY <1>1, <1>2 DEF Damaged, Apply, LogInv, disk
<1>9. \A k \in Keys : Recovered(k)' = Recovered(k)
  BY <1>1, <1>2, RecoveredKeptByStep
<1>10. CASE pending \notin wal
  <2>1. \A k : Doubtful(k) = LogTail(k)
    BY <1>10 DEF Doubtful, LogTail
  <2>2. \A q \in wal : q.lsn < pending.lsn /\ q.lsn \in Nat
    BY <1>1, <1>10, PendingIsExposed DEF Inv, TypeOK, Record
  <2>3. ASSUME NEW k \in Keys, Doubtful(k) # {}
        PROVE  LastRecord(Doubtful(k)).lsn \in limbo' <=> LastRecord(Doubtful(k)).lsn \in limbo
    <3>1. Doubtful(k) \in SUBSET wal
      BY <2>1 DEF LogTail
    <3>2. LastRecord(Doubtful(k)) \in wal
      BY <1>1, <2>3, <3>1, LastRecordIsLast
    <3>3. LastRecord(Doubtful(k)).lsn # pending.lsn
      BY <2>2, <3>2
    <3> QED
      BY <1>2, <3>3
  <2>4. Surfacing' = Surfacing
    BY <1>7, <2>1, <2>3, SurfacingKept
  <2>5. \A k \in Keys : Exposed(k)' <=> Exposed(k) \/ k \in Touches(pending)
    <3>1. \A k \in Touches(pending) : Exposed(k)'
      BY <1>1, <1>10, PendingIsExposed
    <3>2. stray' = stray \cup {pending} /\ UNCHANGED manifest
      BY <1>2, <1>10 DEF Apply
    <3>3. \A k : Exposed(k)' <=>
              \E r \in stray \cup {pending} : r.lsn > manifest.applied /\ k \in Touches(r)
      BY <3>2 DEF Exposed, Touches, KeysOf
    <3> QED
      BY <3>1, <3>3 DEF Exposed
  <2>6. DOMAIN Exposure' = DOMAIN Exposure \cup DOMAIN InProgress
    BY <1>4, <1>5, <2>5, ExposureIs
  <2>7. \A k \in DOMAIN Exposure' : Exposure'[k] = Abstract!Fallback[k]
    BY <1>2, <1>9, <1>10, FallbackIs, ExposureIs
  <2>8. Exposure' = [k \in DOMAIN Exposure \cup DOMAIN InProgress |-> Abstract!Fallback[k]]
    BY <2>6, <2>7, ExposureIs
  <2>9. Damaged
    BY <1>8, <1>10
  <2> QED
    BY <1>4, <1>6, <1>8, <2>4, <2>8, <2>9 DEF Abstract!Acknowledge
<1>11. CASE pending \in wal
  <2>1. Exposure' = Exposure /\ ~Damaged
    <3>1. stray' = stray
      BY <1>11 DEF Apply
    <3> QED
      BY <1>2, <1>8, <1>9, <1>11, <3>1, ExposedKept, ExposureKept
  <2>2. ASSUME NEW k \in Touches(pending)
        PROVE  k \notin InDoubt'
    <3>1. LastRecord(LogTail(k)) = pending
      BY <1>1, <1>2, <1>11, <2>2, PendingIsLast
    <3>2. LastRecord(Doubtful(k)') = pending
      BY <1>7, <3>1
    <3>3. pending.lsn \notin limbo'
      BY <1>2
    <3> QED
      BY <3>2, <3>3, InDoubtIs
  <2>3. ASSUME NEW k, k \notin Touches(pending)
        PROVE  /\ k \in InDoubt' <=> k \in InDoubt
               /\ k \in InDoubt => Surfacing'[k] = Surfacing[k]
    <3>1. Doubtful(k)' = Doubtful(k) /\ Doubtful(k) \in SUBSET wal /\ pending \notin Doubtful(k)
      BY <1>1, <1>3, <1>7, <1>11, <2>3, DoubtfulIs DEF LogTail, Doubtful
    <3>2. Doubtful(k) # {} => LastRecord(Doubtful(k)) \in Doubtful(k)
      BY <1>1, <3>1, LastRecordIsLast
    <3>3. Doubtful(k) # {} => LastRecord(Doubtful(k)).lsn # pending.lsn
      BY <1>1, <1>3, <1>11, <3>1, <3>2 DEF LogInv
    <3>4. k \in InDoubt' <=> k \in InDoubt
      BY <1>2, <3>1, <3>3, InDoubtIs
    <3> QED
      BY <3>1, <3>4, MappedValues, MappedValuesNext
  <2>4. Surfacing' = Abstract!Without(Surfacing, DOMAIN InProgress)
    <3>1. InDoubt' = InDoubt \ Touches(pending)
      BY <2>2, <2>3
    <3>2. Surfacing' = [k \in InDoubt' |-> Surfacing'[k]] /\ DOMAIN Surfacing = InDoubt
      BY DEF Surfacing
    <3>3. \A k \in InDoubt' : Surfacing'[k] = Surfacing[k]
      BY <2>3, <3>1
    <3> QED
      BY <1>4, <3>1, <3>2, <3>3 DEF Abstract!Without
  <2> QED
    BY <1>4, <1>6, <1>8, <2>1, <2>4 DEF Abstract!Acknowledge
<1> QED
  BY <1>10, <1>11

\* A manifest written from memory puts failed and exposed writes below the
\* checkpoint.
LEMMA CommitMaps ==
    ASSUME RecoveryInv, [Next]_vars, FlushCommit \/ CompactCommit, manifest' = ManifestNow
    PROVE  Abstract!Checkpoint
<1>1. Inv /\ LogInv /\ IndexInv /\ Inv'
  BY RecoveryInvInductive DEF RecoveryInv, IndexInv
<1>2. /\ pc \in {"commit", "compact_commit"} /\ pc' \in {"truncate", "delete", "idle"}
      /\ UNCHANGED <<wal, files, memory, limbo>> /\ pending' \in {pending, None}
  BY DEF FlushCommit, CompactCommit, CommitManifest, Abort
<1>3. pending = None /\ pending' = None /\ InProgress = <<>> /\ InProgress' = <<>>
  BY <1>1, <1>2, MappedValues, MappedValuesNext DEF LogInv
<1>4. Stored' = Stored
  <2>1. ~Apply /\ ~Open /\ ~Crash /\ ~Replay
    BY <1>2 DEF Apply, Open, Crash, Replay
  <2>2. \A k \in Keys : Served(k)' = Served(k)
    BY <1>1, <2>1, ServedKept
  <2> QED
    BY <1>2, <2>2, MappedValues, MappedValuesNext, StoredKept
<1>5. \A k : /\ Doubtful(k)' \subseteq Doubtful(k)
             /\ Doubtful(k)' # {} => LastRecord(Doubtful(k)') = LastRecord(Doubtful(k))
  <2>1. \A k : Doubtful(k) = LogTail(k) /\ Doubtful(k)' = LogTail(k)'
    BY <1>1, <1>3, DoubtfulIs, DoubtfulIsNext
  <2>2. \A k : /\ LogTail(k)' \subseteq LogTail(k)
               /\ LogTail(k)' # {} => LastRecord(LogTail(k)') = LastRecord(LogTail(k))
    BY <1>1, <1>2, CommittedTail
  <2> QED
    BY <2>1, <2>2
<1>6. \A k \in InDoubt' : k \in InDoubt /\ Surfacing'[k] = Surfacing[k]
  <2> SUFFICES ASSUME NEW k \in InDoubt'
               PROVE  k \in InDoubt /\ Surfacing'[k] = Surfacing[k]
    OBVIOUS
  <2>1. k \in Keys /\ Doubtful(k)' # {} /\ LastRecord(Doubtful(k)').lsn \in limbo
    BY <1>2, InDoubtIs
  <2>2. Doubtful(k) # {} /\ LastRecord(Doubtful(k)') = LastRecord(Doubtful(k))
    BY <1>5, <2>1
  <2>3. k \in InDoubt
    BY <2>1, <2>2, InDoubtIs
  <2> QED
    BY <2>2, <2>3, MappedValues, MappedValuesNext
<1>7. Surfacing' = Abstract!Without(Surfacing, InDoubt \ InDoubt')
  <2>1. Surfacing' = [k \in InDoubt' |-> Surfacing'[k]] /\ DOMAIN Surfacing = InDoubt
    BY DEF Surfacing
  <2>2. InDoubt \ (InDoubt \ InDoubt') = InDoubt'
    BY <1>6
  <2> QED
    BY <1>6, <2>1, <2>2 DEF Abstract!Without
<1>8. InDoubt \ InDoubt' \in SUBSET DOMAIN Surfacing
  BY MappedValues
<1>9. UNCHANGED <<stray, tail>> /\ manifest'.applied = applied_lsn /\ pc # "down"
  BY <1>2 DEF FlushCommit, CompactCommit, CommitManifest, ManifestNow
<1>10. ASSUME NEW k \in DOMAIN Exposure'
       PROVE  /\ k \in DOMAIN Exposure
              /\ Exposure'[k] \in {Exposure[k], None}
              /\ Exposure'[k] \in Values \cup {None}
  <2>0. StrayInv /\ k \in Keys /\ Exposed(k)'
    BY ExposureIs DEF RecoveryInv
  <2>1. manifest.applied <= applied_lsn /\ manifest.applied \in Nat /\ applied_lsn \in Nat
        /\ \A r \in stray : r.lsn \in Nat
    BY <1>1, <1>9 DEF LogInv, Inv, TypeOK, Record
  <2>2. PICK r \in stray : r.lsn > applied_lsn /\ k \in Touches(r)
    BY <1>9, <2>0 DEF Exposed, Touches, KeysOf
  <2>3. Exposed(k)
    BY <2>1, <2>2 DEF Exposed
  <2>4. CASE LogTail(k)' # {}
    <3>1. LogTail(k) # {} /\ LastRecord(LogTail(k)') = LastRecord(LogTail(k))
      BY <1>1, <1>2, <1>9, <2>4, CommittedTail
    <3>2. Recovered(k)' = Recovered(k)
      BY <2>4, <3>1, RecoveredIs
    <3> QED
      BY <1>1, <2>0, <2>3, <3>2, RecoveredType, ExposureIs
  <2>5. CASE LogTail(k)' = {}
    <3>1. CheckpointValue(k)' = None
      BY <1>1, <1>2, <1>9, <2>0, CommittedExposed
    <3> QED
      BY <2>0, <2>3, <2>5, <3>1, RecoveredIs, ExposureIs
  <2> QED
    BY <2>4, <2>5
<1>11. \E K \in SUBSET DOMAIN Exposure : Exposure' \in [K -> Values \cup {None}]
  <2>1. DOMAIN Exposure' \in SUBSET DOMAIN Exposure
    BY <1>10
  <2>2. Exposure' \in [DOMAIN Exposure' -> Values \cup {None}]
    BY <1>10, ExposureIs
  <2> QED
    BY <2>1, <2>2
<1>12. Damaged' = Damaged
  BY <1>9, Zenon DEF Damaged
<1> QED
  BY <1>3, <1>4, <1>7, <1>8, <1>10, <1>11, <1>12 DEF Abstract!Checkpoint

\* A crash keeps what was acknowledged and is not exposed, and lets surface what
\* was in doubt.
LEMMA CrashMaps ==
    ASSUME RecoveryInv, TouchInv, [Next]_vars, Crash, pc # "replay"
    PROVE  Abstract!Restart
<1>1. Inv /\ LogInv /\ IndexInv /\ ServesTruth /\ Durable
  BY DEF RecoveryInv, IndexInv
<1>2. pc # "down" /\ pc' = "down" /\ pending' = None /\ limbo' = {} /\ UNCHANGED <<wal, manifest>>
  BY DEF Crash
<1>3. InProgress' = <<>> /\ Surfacing' = <<>>
  <2>1. InDoubt' = {}
    BY <1>2, InDoubtIs
  <2>2. Surfacing' = [k \in {} |-> Surfacing'[k]]
    BY <2>1 DEF Surfacing
  <2> QED
    BY <1>2, <2>2, MappedValuesNext
<1>4. \A k \in Keys : Stored'[k] = Recovered(k) /\ Stored[k] = Served(k) /\ Served(k) = truth[k]
  BY <1>1, <1>2, RecoveredKeptByStep, MappedValues, MappedValuesNext DEF ServesTruth
<1>5. pending # None => pc = "apply" /\ pending \in Record
  BY <1>1 DEF LogInv, Inv, TypeOK
<1>6. /\ DOMAIN InProgress = IF pending = None THEN {} ELSE Touches(pending)
      /\ DOMAIN InProgress \subseteq Keys
  <2>1. DOMAIN << >> = {}
    OBVIOUS
  <2> QED
    BY <1>5, <2>1, MappedValues, TouchesKeys
<1>7. ASSUME NEW k \in DOMAIN InProgress, ~Damaged
      PROVE  Recovered(k) = InProgress[k]
  <2>1. pending # None /\ k \in Touches(pending)
    BY <1>6, <1>7
  <2>2. pending \in wal
    BY <1>1, <1>5, <1>7, <2>1 DEF LogInv, Damaged
  <2>3. LogTail(k) # {} /\ LastRecord(LogTail(k)) = pending
    BY <1>1, <1>5, <2>1, <2>2, PendingIsLast
  <2> QED
    BY <2>1, <2>3, MappedValues, RecoveredIs
<1>8. pc \notin {"down", "replay"}
  BY <1>2
<1>9. ASSUME NEW k \in Keys, Damaged \/ k \notin DOMAIN InProgress
      PROVE  Recovered(k) = Abstract!Fallback[k]
  <2>1. pending = None \/ pending \notin wal \/ k \notin Touches(pending)
    BY <1>1, <1>5, <1>6, <1>9 DEF LogInv, Damaged
  <2> QED
    BY <1>8, <2>1, FallbackIs
<1>10. Stored' = IF Damaged THEN Abstract!Fallback
                 ELSE Abstract!Over(InProgress, Abstract!Fallback)
  <2> DEFINE rest == Abstract!Fallback
  <2>1. DOMAIN rest = Keys /\ rest = [k \in DOMAIN rest |-> rest[k]]
    BY <1>8, FallbackIs DEF Abstract!Fallback, Abstract!Over
  <2>2. Stored' = [k \in Keys |-> Stored'[k]]
    BY DEF Stored
  <2>3. \A k \in Keys : Damaged \/ k \notin DOMAIN InProgress => Stored'[k] = rest[k]
    BY <1>4, <1>9
  <2>4. \A k \in DOMAIN InProgress : ~Damaged => Stored'[k] = InProgress[k]
    BY <1>4, <1>6, <1>7
  <2> HIDE DEF rest
  <2>5. CASE Damaged
    BY <2>1, <2>2, <2>3, <2>5 DEF rest
  <2>6. CASE ~Damaged
    <3>1. Stored' = Abstract!Over(InProgress, rest)
      BY <1>6, <2>1, <2>2, <2>3, <2>4, <2>6 DEF Abstract!Over
    <3> QED
      BY <2>6, <3>1 DEF rest
  <2> QED
    BY <2>5, <2>6
<1>11. Exposure' = <<>>
  <2>1. stray' = {}
    BY DEF Crash
  <2>2. \A k \in Keys : ~Exposed(k)'
    BY <2>1 DEF Exposed
  <2> QED
    BY <2>2, NothingExposed
<1>12. Damaged' = Damaged
  BY DEF Crash, Buried, Damaged
<1> QED
  BY <1>3, <1>10, <1>11, <1>12 DEF Abstract!Restart

\* Every other step is invisible to callers: flush, compaction, truncation, failed
\* file operations, recovery, and a crash before recovery has ended.  Only the log
\* may be damaged or repaired.
LEMMA QuietMaps ==
    ASSUME RecoveryInv, Next, ~Apply, ~(Crash /\ pc # "replay"),
           ~((FlushCommit \/ CompactCommit) /\ manifest' = ManifestNow),
           ~((\E b \in Batches : Insert(b) \/ Upsert(b)) \/ (\E ks \in SUBSET Keys : Delete(ks)))
    PROVE  [Abstract!Next]_<<Stored, InProgress, Surfacing, Damaged, Exposure>>
<1>1. Inv /\ LogInv /\ StrayInv /\ IndexInv /\ RecoveringInv
      /\ Inv' /\ LogInv' /\ RecoveringInv'
  BY RecoveryInvInductive DEF RecoveryInv, IndexInv
<1>2. pc # "apply" /\ pc' # "apply" /\ UNCHANGED manifest /\ limbo' = limbo
  <2>1. CASE Crash
    BY <1>1, <2>1 DEF Crash, RecoveringInv
  <2>2. CASE Request
    BY <2>2 DEF Request, Flush, Compact, disk
  <2>3. CASE Step
    BY <2>3 DEF Step, FlushSegment, FlushCommit, FlushTruncate, CompactMerge, CompactCommit,
       CommitManifest, CompactDelete, Open, OpenRefused, Replay, SegmentWriteFails, Abort, disk
  <2> QED
    BY <2>1, <2>2, <2>3 DEF Next
<1>3. pending = None /\ pending' = None /\ InProgress' = InProgress
  BY <1>1, <1>2, MappedValues, MappedValuesNext DEF LogInv
<1>4. \A k : LogTail(k)' = LogTail(k) /\ Recovered(k)' = Recovered(k)
  <2>1. CASE FlushTruncate
    BY <1>1, <2>1, TruncateKeepsTail
  <2>2. CASE ~FlushTruncate
    <3>1. UNCHANGED wal
      BY <2>2 DEF Next, Request, Flush, Compact, Step, FlushSegment, FlushCommit, CompactMerge,
         CompactCommit, CommitManifest, CompactDelete, Open, OpenRefused, Replay, Crash, disk
    <3> QED
      BY <1>1, <1>2, <3>1, RecoveredKeptByStep
  <2> QED
    BY <2>1, <2>2
<1>5. Surfacing' = Surfacing
  <2>1. \A k \in Keys : Doubtful(k)' = Doubtful(k)
    BY <1>1, <1>3, <1>4, DoubtfulIs, DoubtfulIsNext
  <2> QED
    BY <1>2, <2>1, SurfacingKept
<1>6. Stored' = Stored
  <2>1. CASE pc \in {"down", "replay"} /\ pc' \in {"down", "replay"}
    BY <1>4, <2>1, MappedValues, MappedValuesNext, StoredKept
  <2>2. CASE Replay /\ pc' = "idle"
    <3>1. pc = "replay" /\ { r \in wal : r.lsn > last_lsn } = {} /\ UNCHANGED memory
      BY <2>2 DEF Replay
    <3>2. \A k \in Keys : Served(k) = truth[k] /\ truth[k] = Recovered(k)
      BY <1>1, <3>1, ReplayedAll DEF RecoveringInv
    <3>3. ~Open /\ ~Crash
      BY <2>2, <3>1 DEF Open, Crash
    <3>4. \A k \in Keys : Served(k)' = Served(k)
      BY <1>1, <3>1, <3>3, ServedKept
    <3> QED
      BY <2>2, <3>1, <3>2, <3>4, MappedValues, MappedValuesNext, StoredKept
  <2>3. CASE pc \notin {"down", "replay"}
    <3>1. ~Open /\ ~OpenRefused /\ ~Crash /\ ~Replay
      BY <2>3 DEF Open, OpenRefused, Replay
    <3>2. pc' \notin {"down", "replay"}
      BY <3>1 DEF Next, Request, Flush, Compact, Step, FlushSegment, FlushCommit, FlushTruncate,
         CompactMerge, CompactCommit, CommitManifest, CompactDelete, SegmentWriteFails, Abort
    <3>3. \A k \in Keys : Served(k)' = Served(k)
      BY <1>1, <3>1, ServedKept
    <3> QED
      BY <2>3, <3>2, <3>3, MappedValues, MappedValuesNext, StoredKept
  <2>4. pc = "down" => pc' \in {"down", "replay"}
    BY DEF Next, Request, Flush, Compact, Step, FlushSegment, FlushCommit, FlushTruncate,
       CompactMerge, CompactCommit, CommitManifest, CompactDelete, Open, OpenRefused, Replay, Crash
  <2>5. pc = "replay" => (Crash /\ pc' = "down") \/ (Replay /\ pc' \in {"replay", "idle"})
    BY DEF Next, Request, Flush, Compact, Step, FlushSegment, FlushCommit, FlushTruncate,
       CompactMerge, CompactCommit, CommitManifest, CompactDelete, Open, OpenRefused, Replay, Crash
  <2> QED
    BY <2>1, <2>2, <2>3, <2>4, <2>5
<1>7. Exposure' = Exposure
  <2>1. stray' = stray
    <3>1. CASE Crash
      BY <1>1, <3>1 DEF Crash, StrayInv
    <3>2. CASE ~Crash
      BY <3>2 DEF Next, Request, Flush, Compact, Step, FlushSegment, FlushCommit, FlushTruncate,
         CompactMerge, CompactCommit, CommitManifest, CompactDelete, Open, OpenRefused, Replay
    <3> QED
      BY <3>1, <3>2
  <2> QED
    BY <1>2, <1>4, <2>1, ExposedKept, ExposureKept
<1> QED
  BY <1>3, <1>5, <1>6, <1>7, RepairIsCovered, DamageMaps

\* An unchanged state maps to an unchanged state.
LEMMA StutterMaps ==
    ASSUME UNCHANGED vars
    PROVE  UNCHANGED <<Stored, InProgress, Surfacing, Damaged, Exposure>>
<1>1. /\ UNCHANGED <<wal, tail, manifest, files, memtable, key_index, pc, pending, limbo, stray>>
  BY DEF vars, disk, memory
<1>2. \A k : LogTail(k)' = LogTail(k)
  BY <1>1 DEF LogTail, Touches, KeysOf
<1>3. \A k : Checkpointed(k)' = Checkpointed(k)
  BY <1>1 DEF Checkpointed, SegmentLocs, RowAt
<1>4. ASSUME NEW k
      PROVE  CheckpointValue(k)' = CheckpointValue(k)
  <2>1. PICK l : l = Latest(Checkpointed(k))
    OBVIOUS
  <2>2. RowAt(l)' = RowAt(l)
    BY <1>1 DEF RowAt
  <2>3. Checkpointed(k)' = Checkpointed(k)
    BY <1>3
  <2>4. RowAt(Latest(Checkpointed(k)))' = RowAt(l)'
    BY <2>1, <2>3 DEF RowAt, Latest
  <2> QED
    BY <2>1, <2>2, <2>3, <2>4 DEF CheckpointValue
<1>5. \A k : Recovered(k)' = Recovered(k)
  BY <1>2, <1>4, RecoveredIs
<1>6. \A k : Served(k)' = Served(k)
  BY <1>1 DEF Served, RowAt
<1>7. Stored' = Stored
  BY <1>1, <1>5, <1>6 DEF Stored
<1>8. InProgress' = InProgress
  BY <1>1 DEF InProgress, Effect, Touches, KeysOf, LastOf, Highest
<1>9. Surfacing' = Surfacing
  <2>1. \A k \in Keys : Doubtful(k)' = Doubtful(k)
    BY <1>1, <1>2 DEF Doubtful
  <2> QED
    BY <1>1, <2>1, SurfacingKept
<1>10. Damaged' = Damaged
  BY <1>1, Zenon DEF Damaged
<1>11. Exposure' = Exposure
  BY <1>1, <1>5, ExposedKept, ExposureKept
<1> QED
  BY <1>7, <1>8, <1>9, <1>10, <1>11

\* Every step of a partition is a step of the map it implements, or none.
LEMMA StepMaps ==
    ASSUME RecoveryInv, TouchInv, [Next]_vars
    PROVE  [Abstract!Next]_<<Stored, InProgress, Surfacing, Damaged, Exposure>>
<1>1. CASE UNCHANGED vars
  BY <1>1, StutterMaps
<1>2. CASE Apply
  BY <1>2, ApplyMaps DEF Abstract!Next
<1>3. CASE Crash /\ pc # "replay"
  BY <1>3, CrashMaps DEF Abstract!Next
<1>4. CASE (FlushCommit \/ CompactCommit) /\ manifest' = ManifestNow
  BY <1>4, CommitMaps DEF Abstract!Next
<1>5. CASE (\E b \in Batches : Insert(b) \/ Upsert(b)) \/ (\E ks \in SUBSET Keys : Delete(ks))
  <2>1. PICK rows \in Seq(Row), keys \in SUBSET Keys :
            pc = "idle" /\ Log(rows, keys) /\ keys \cup KeysOf(rows) # {}
    BY <1>5, WritesLog
  <2> QED
    BY <2>1, LogMaps
<1>6. CASE /\ Next /\ ~Apply /\ ~(Crash /\ pc # "replay")
           /\ ~((FlushCommit \/ CompactCommit) /\ manifest' = ManifestNow)
           /\ ~((\E b \in Batches : Insert(b) \/ Upsert(b)) \/ (\E ks \in SUBSET Keys : Delete(ks)))
  BY <1>6, QuietMaps
<1> QED
  BY <1>1, <1>2, <1>3, <1>4, <1>5, <1>6

\* An empty partition is an empty map with no write in progress, in doubt or
\* exposed.
LEMMA InitMaps ==
    ASSUME Init
    PROVE  Abstract!Init
<1>1. InProgress = <<>>
  BY DEF Init, InProgress
<1>2. Stored = [k \in Keys |-> None]
  BY DEF Init, Stored, Served
<1>3. InDoubt = {}
  BY DEF Init, InDoubt
<1>4. Surfacing = <<>>
  BY <1>3 DEF Surfacing
<1>5. Damaged = FALSE
  BY DEF Init, Damaged
<1>6. Exposure = <<>>
  <2>1. \A k \in Keys : ~Exposed(k)
    BY DEF Init, Exposed
  <2> QED
    BY <2>1, NothingExposed
<1> QED
  BY <1>1, <1>2, <1>4, <1>5, <1>6 DEF Abstract!Init

\* Log, memtable, flush, compaction and recovery together implement KeyedStore: a
\* batch becomes visible in one step, flush and compaction change nothing a caller
\* can see, and a restart loses no acknowledged write but those made on a damaged
\* log and not covered by a manifest since.
THEOREM PartitionIsKeyedStore == Spec => ImplementsKeyedStore
<1>1. Init => Abstract!Init /\ RecoveryInv /\ TouchInv
  BY InitMaps, RecoveryInvInductive DEF Init, TouchInv
<1>2. RecoveryInv /\ TouchInv /\ [Next]_vars => RecoveryInv' /\ TouchInv'
  BY RecoveryInvInductive, TouchStep DEF RecoveryInv, IndexInv
<1>3. RecoveryInv /\ TouchInv /\ [Next]_vars
        => [Abstract!Next]_<<Stored, InProgress, Surfacing, Damaged, Exposure>>
  BY StepMaps
<1> QED
  BY <1>1, <1>2, <1>3, PTL DEF Spec, ImplementsKeyedStore, Abstract!Spec

=============================================================================
