-------------------------- MODULE TableReadsProofs ---------------------------
(***************************************************************************)
(* Proofs about module TableReads, for any keys, values, readers and       *)
(* number of writes, flushes and compactions: what a scan and a point      *)
(* lookup return while the writer runs beside them.                        *)
(***************************************************************************)
EXTENDS TableReads, FiniteSetTheorems, WellFoundedInduction, TLAPS

-----------------------------------------------------------------------------
(* The inductive invariant.                                                *)

Fields == {"op", "key", "loc", "snap", "todo", "out"}

\* Segments that exist have ids that were given out; what a reader holds are
\* records of the fields it uses.
TypeInv ==
    /\ memtable \in Seq(Rows) /\ memtable_suppressed \subseteq DOMAIN memtable
    /\ next_segment_id \in Nat \ {0}
    /\ DOMAIN segments = DOMAIN files /\ DOMAIN files \subseteq 1 .. next_segment_id - 1
    /\ \A s \in DOMAIN files : files[s] \in Seq(Rows)
    /\ DOMAIN key_index = Keys
    /\ \A k \in Keys : key_index[k] = None \/ key_index[k] \in Locator
    /\ DOMAIN reader = Readers /\ \A r \in Readers : DOMAIN reader[r] = Fields
    /\ DOMAIN held = Readers /\ DOMAIN moved = Readers /\ DOMAIN expect = Readers

\* The visible rows.
Live ==
    { l \in Locator :
        \/ l.src = 0 /\ l.ord \in DOMAIN memtable \ memtable_suppressed
        \/ l.src \in DOMAIN segments /\ l.ord \in DOMAIN files[l.src] \ segments[l.src] }

\* The index addresses exactly the visible rows.
LiveInv ==
    /\ \A k \in Keys : key_index[k] # None =>
          key_index[k] \in Live /\ RowAt(key_index[k]).key = k
    /\ \A l \in Live : key_index[RowAt(l).key] = l

\* A row that a lookup may return: of its key, with a value the key has had.
IsAnswer(r, row) == row \in Rows /\ row.key = reader[r].key /\ row.val \in held[r]

\* The address a lookup holds leads to an answer, or nowhere: until a flush in
\* the memtable, and in a segment for as long as its file exists.
LeadsToAnswer(r, l) ==
    /\ l.src = 0 /\ "flush" \notin moved[r] =>
          l.ord \in DOMAIN memtable /\ IsAnswer(r, memtable[l.ord])
    /\ l.src # 0 =>
          /\ l.src < next_segment_id
          /\ "compact" \notin moved[r] => l.src \in DOMAIN files
          /\ l.src \in DOMAIN files =>
                l.ord \in DOMAIN files[l.src] /\ IsAnswer(r, files[l.src][l.ord])

GetInv(r) ==
    reader[r].op \in {"get", "get_read"} =>
        /\ reader[r].key \in Keys /\ reader[r].loc \in Locator
        /\ reader[r].op = "get_read" => reader[r].loc.src # 0
        /\ LeadsToAnswer(r, reader[r].loc)

\* What a lookup has returned.
GotInv(r) ==
    reader[r].op = "done" /\ reader[r].key # None =>
        /\ reader[r].key \in Keys
        /\ reader[r].out = None => moved[r] # {} \/ None \in held[r]
        /\ reader[r].out # None => "flush" \in moved[r] \/ IsAnswer(r, reader[r].out)

\* What a scan has read and has still to read.
Left(r) ==
    reader[r].out
      \cup (UNION { drop_suppressed(files[s], reader[r].snap.segments[s]) : s \in reader[r].todo })
      \cup drop_suppressed(reader[r].snap.memtable, reader[r].snap.suppressed)

\* That is the table as it was, as long as every file it needs exists: files
\* never change, and the snapshot has bitmaps of its own.
ScanInv(r) ==
    reader[r].op = "scan" =>
        /\ reader[r].key = None
        /\ reader[r].todo \subseteq 1 .. next_segment_id - 1
        /\ "compact" \notin moved[r] => reader[r].todo \subseteq DOMAIN files
        /\ reader[r].todo \subseteq DOMAIN files => expect[r] = Left(r)

ScannedInv(r) ==
    reader[r].op = "done" /\ reader[r].key = None => reader[r].out = expect[r]

\* Only the writer's flushes and compactions make a read fail.
FailInv(r) ==
    reader[r].op = "failed" =>
        moved[r] # {} /\ (reader[r].key = None => "compact" \in moved[r])

ReaderInv(r) == GetInv(r) /\ GotInv(r) /\ ScanInv(r) /\ ScannedInv(r) /\ FailInv(r)

ReadersInv == \A r \in Readers : ReaderInv(r)

ReadsInv == TypeInv /\ LiveInv /\ ReadersInv

-----------------------------------------------------------------------------
(* Locators and the rows at them.                                          *)

\* A locator is its source and its ordinal.
LEMMA LocatorEq ==
    ASSUME NEW l \in Locator, NEW m \in Locator, l.src = m.src, l.ord = m.ord
    PROVE  l = m
BY DEF Locator

\* Every locator of the model is one.
LEMMA LocatorIs ==
    ASSUME NEW s \in Nat, NEW o \in Nat \ {0}
    PROVE  /\ [src |-> s, ord |-> o] \in Locator
           /\ [src |-> s, ord |-> o].src = s /\ [src |-> s, ord |-> o].ord = o
BY DEF Locator

\* A row has a key and a value, and is not the mark of a missing one.
LEMMA RowForm ==
    ASSUME NEW row \in Rows
    PROVE  row.key \in Keys /\ row.val \in Values /\ row # None
BY ReadsAssumption DEF Rows, Row

\* A live locator leads to a row.
LEMMA LiveIsRow ==
    ASSUME TypeInv, NEW l \in Live
    PROVE  RowAt(l) \in Rows
<1>1. CASE l.src = 0 /\ l.ord \in DOMAIN memtable
  BY <1>1 DEF TypeInv, RowAt
<1>2. CASE l.src \in DOMAIN segments /\ l.ord \in DOMAIN files[l.src]
  <2>1. files[l.src] \in Seq(Rows) /\ l.src # 0
    BY <1>2 DEF TypeInv
  <2>2. files[l.src][l.ord] \in Rows
    BY <1>2, <2>1
  <2> QED
    BY <2>1, <2>2 DEF RowAt
<1> QED
  BY <1>1, <1>2 DEF Live

\* The visible rows of the memtable and of segments, as locators.
LEMMA LocsAreLive ==
    ASSUME TypeInv, NEW ids \in SUBSET DOMAIN segments
    PROVE  /\ MemtableLocs = { l \in Live : l.src = 0 }
           /\ SegmentLocs(ids) = { l \in Live : l.src \in ids }
<1>1. ASSUME NEW l \in MemtableLocs PROVE l \in Live /\ l.src = 0
  <2>1. PICK o \in DOMAIN memtable \ memtable_suppressed : l = [src |-> 0, ord |-> o]
    BY DEF MemtableLocs
  <2>2. o \in Nat \ {0}
    BY DEF TypeInv
  <2> QED
    BY <2>1, <2>2, LocatorIs DEF Live
<1>2. ASSUME NEW l \in Live, l.src = 0 PROVE l \in MemtableLocs
  <2>1. l = [src |-> 0, ord |-> l.ord]
    BY <1>2 DEF Live, Locator
  <2>2. l.ord \in DOMAIN memtable \ memtable_suppressed
    BY <1>2 DEF Live, TypeInv
  <2> QED
    BY <2>1, <2>2, Zenon DEF MemtableLocs
<1>3. ASSUME NEW l \in SegmentLocs(ids) PROVE l \in Live /\ l.src \in ids
  <2>1. PICK s \in ids : l \in { [src |-> s, ord |-> o] : o \in DOMAIN files[s] \ segments[s] }
    BY DEF SegmentLocs
  <2>2. PICK o \in DOMAIN files[s] \ segments[s] : l = [src |-> s, ord |-> o]
    BY <2>1
  <2>3. s \in Nat /\ s \in DOMAIN segments /\ o \in Nat \ {0}
    <3>1. s \in DOMAIN files /\ files[s] \in Seq(Rows)
      BY DEF TypeInv
    <3> QED
      BY <3>1 DEF TypeInv
  <2> QED
    BY <2>2, <2>3, LocatorIs DEF Live
<1>4. ASSUME NEW l \in Live, l.src \in ids PROVE l \in SegmentLocs(ids)
  <2>1. l = [src |-> l.src, ord |-> l.ord]
    BY DEF Live, Locator
  <2>2. l.ord \in DOMAIN files[l.src] \ segments[l.src]
    BY <1>4 DEF Live, TypeInv
  <2>3. l \in { [src |-> l.src, ord |-> o] : o \in DOMAIN files[l.src] \ segments[l.src] }
    BY <2>1, <2>2
  <2> QED
    BY <1>4, <2>3 DEF SegmentLocs
<1>5. MemtableLocs = { l \in Live : l.src = 0 }
  BY <1>1, <1>2
<1>6. SegmentLocs(ids) = { l \in Live : l.src \in ids }
  BY <1>3, <1>4
<1> QED
  BY <1>5, <1>6

\* Finitely many segments hold finitely many rows.
LEMMA LiveIsFinite ==
    ASSUME TypeInv
    PROVE  IsFiniteSet(Live)
<1> DEFINE LocsIn(s) == { [src |-> s, ord |-> o] :
                            o \in IF s = 0 THEN DOMAIN memtable ELSE DOMAIN files[s] }
           Ids == {0} \cup DOMAIN files
           All == { LocsIn(s) : s \in Ids }
<1>1. IsFiniteSet(Ids)
  <2>1. IsFiniteSet(0 .. next_segment_id - 1)
    BY FS_Interval DEF TypeInv
  <2>2. Ids \subseteq 0 .. next_segment_id - 1
    BY DEF TypeInv
  <2> QED
    BY <2>1, <2>2, FS_Subset, Zenon
<1>2. IsFiniteSet(All)
  <2> DEFINE f == [s \in Ids |-> LocsIn(s)]
  <2>1. f \in Surjection(Ids, All)
    BY DEF Surjection
  <2> HIDE DEF f, All, Ids
  <2> QED
    BY <1>1, <2>1, FS_Surjection, Zenon
<1>3. ASSUME NEW L \in All PROVE IsFiniteSet(L)
  <2>1. PICK s \in Ids : L = LocsIn(s)
    OBVIOUS
  <2> DEFINE D == IF s = 0 THEN DOMAIN memtable ELSE DOMAIN files[s]
             f == [o \in D |-> [src |-> s, ord |-> o]]
  <2>2. IsFiniteSet(D)
    <3>1. \E q \in Seq(Rows) : D = DOMAIN q
      BY DEF TypeInv
    <3>2. PICK q \in Seq(Rows) : D = DOMAIN q
      BY <3>1
    <3>3. D = 1 .. Len(q) /\ Len(q) \in Int
      BY <3>2
    <3> QED
      BY <3>3, FS_Interval
  <2>3. f \in Surjection(D, L)
    BY <2>1 DEF Surjection
  <2> QED
    BY <2>2, <2>3, FS_Surjection, Zenon
<1>4. IsFiniteSet(UNION All)
  BY <1>2, <1>3, FS_UNION, Zenon
<1>5. Live \subseteq UNION All
  <2> SUFFICES ASSUME NEW l \in Live PROVE \E s \in Ids : l \in LocsIn(s)
    OBVIOUS
  <2>1. l = [src |-> l.src, ord |-> l.ord]
    BY DEF Live, Locator
  <2>2. /\ l.src \in Ids
        /\ l.ord \in IF l.src = 0 THEN DOMAIN memtable ELSE DOMAIN files[l.src]
    BY DEF Live, TypeInv
  <2>3. l \in LocsIn(l.src)
    BY <2>1, <2>2
  <2> QED
    BY <2>2, <2>3
<1> QED
  BY <1>4, <1>5, FS_Subset, Zenon

\* The rows of a flush or a merge are written once each, and all of them.
LEMMA OrderingEnumerates ==
    ASSUME NEW locs \in SUBSET Locator, IsFiniteSet(locs), NEW order \in Orderings(locs)
    PROVE  /\ \E n \in Nat : order \in [1 .. n -> locs]
           /\ \A i, j \in DOMAIN order : order[i] = order[j] => i = j
           /\ \A l \in locs : \E i \in DOMAIN order : order[i] = l
<1> DEFINE n == Cardinality(locs)
<1>1. n \in Nat
  BY FS_CardinalityType
<1>2. order \in [1 .. n -> locs] /\ \A i, j \in 1 .. n : i < j => LocLess(order[i], order[j])
  BY DEF Orderings
<1>3. ASSUME NEW i \in 1 .. n, NEW j \in 1 .. n, i < j PROVE order[i] # order[j]
  <2>1. LocLess(order[i], order[j]) /\ order[i] \in Locator
    BY <1>2, <1>3
  <2> QED
    BY <2>1 DEF LocLess, Locator
<1>4. \A i, j \in 1 .. n : order[i] = order[j] => i = j
  <2> SUFFICES ASSUME NEW i \in 1 .. n, NEW j \in 1 .. n, i # j
               PROVE  order[i] # order[j]
    OBVIOUS
  <2>1. i < j \/ j < i
    BY <1>1
  <2> QED
    BY <1>3, <2>1
<1>5. order \in Injection(1 .. n, locs)
  BY <1>2, <1>4 DEF Injection, IsInjective
<1>6. Cardinality(1 .. n) = n
  BY <1>1, FS_Interval
<1>7. order \in Surjection(1 .. n, locs)
  BY <1>5, <1>6, FS_Injection, Zenon
<1>8. \A l \in locs : \E i \in 1 .. n : order[i] = l
  BY <1>7 DEF Surjection
<1>9. DOMAIN order = 1 .. n
  BY <1>2
<1> QED
  BY <1>1, <1>2, <1>4, <1>8, <1>9

-----------------------------------------------------------------------------
(* The writer keeps the index and the bitmaps together.                    *)

\* What a reader may rely on while the writer takes a step: segment files never
\* change and their ids are not given out again.
FilesKept ==
    /\ next_segment_id' \in Nat /\ next_segment_id' >= next_segment_id
    /\ \A s \in 1 .. next_segment_id - 1 :
          s \in DOMAIN files' => s \in DOMAIN files /\ files'[s] = files[s]

\* The merged rows of a flush or compaction: the new segment holds them, in
\* order, and nothing else changes.
LEMMA RewriteFiles ==
    ASSUME TypeInv, NEW locs \in SUBSET Live, NEW gone \in SUBSET DOMAIN segments,
           Rewrite(locs, gone),
           next_segment_id' \in {next_segment_id, next_segment_id + 1},
           locs # {} => next_segment_id' = next_segment_id + 1
    PROVE  /\ DOMAIN segments' = DOMAIN files' /\ DOMAIN files' \subseteq 1 .. next_segment_id' - 1
           /\ \A s \in DOMAIN files' : files'[s] \in Seq(Rows)
           /\ FilesKept
           /\ \A s \in DOMAIN files \ gone : s \in DOMAIN files'
<1>1. PICK order \in Orderings(locs) :
        LET new == IF locs = {} THEN {} ELSE {next_segment_id}
            ids == (DOMAIN segments \ gone) \cup new
        IN  /\ files' = [s \in ids |-> IF s \in new THEN [i \in DOMAIN order |-> RowAt(order[i])]
                                       ELSE files[s]]
            /\ segments' = [s \in ids |-> IF s \in new THEN {} ELSE segments[s]]
  BY DEF Rewrite, NewId
<1> DEFINE new == IF locs = {} THEN {} ELSE {next_segment_id}
           ids == (DOMAIN segments \ gone) \cup new
           rows == [i \in DOMAIN order |-> RowAt(order[i])]
<1>2. rows \in Seq(Rows)
  <2>1. locs \in SUBSET Locator /\ IsFiniteSet(locs)
    BY LiveIsFinite, FS_Subset DEF Live
  <2>2. PICK n \in Nat : order \in [1 .. n -> locs]
    BY <2>1, OrderingEnumerates
  <2>3. \A i \in 1 .. n : RowAt(order[i]) \in Rows
    BY <2>2, LiveIsRow
  <2>4. rows \in [1 .. n -> Rows]
    BY <2>2, <2>3
  <2> QED
    BY <2>4
<1>3. /\ files' = [s \in ids |-> IF s \in new THEN rows ELSE files[s]]
      /\ segments' = [s \in ids |-> IF s \in new THEN {} ELSE segments[s]]
  BY <1>1
<1>4. /\ \A s \in new : s = next_segment_id /\ next_segment_id' = next_segment_id + 1
      /\ next_segment_id \in Nat \ {0}
  BY DEF TypeInv
<1> HIDE DEF new, rows
<1>5. DOMAIN files' = ids /\ DOMAIN segments' = ids
  BY <1>3
<1>6. ids \subseteq 1 .. next_segment_id' - 1
  <2>1. next_segment_id' \in Nat /\ next_segment_id' >= next_segment_id
    BY <1>4
  <2>2. \A s \in new : s \in 1 .. next_segment_id' - 1
    BY <1>4
  <2>3. \A s \in DOMAIN segments : s \in 1 .. next_segment_id' - 1
    BY <1>4, <2>1 DEF TypeInv
  <2> QED
    BY <2>2, <2>3
<1>7. \A s \in ids : files'[s] \in Seq(Rows)
  BY <1>2, <1>3, <1>4 DEF TypeInv
<1>8. FilesKept
  <2>1. next_segment_id' \in Nat /\ next_segment_id' >= next_segment_id
    BY <1>4
  <2>2. ASSUME NEW s \in 1 .. next_segment_id - 1, s \in ids
        PROVE  s \in DOMAIN files /\ files'[s] = files[s]
    <3>1. s \notin new
      BY <1>4
    <3> QED
      BY <1>3, <2>2, <3>1 DEF TypeInv
  <2> QED
    BY <1>5, <2>1, <2>2 DEF FilesKept
<1>9. \A s \in DOMAIN files \ gone : s \in ids
  BY DEF TypeInv
<1> QED
  BY <1>5, <1>6, <1>7, <1>8, <1>9

\* The index follows the rows, and addresses exactly the visible ones again.
LEMMA RewriteIndex ==
    ASSUME TypeInv, LiveInv, NEW locs \in SUBSET Live, NEW gone \in SUBSET DOMAIN segments,
           Rewrite(locs, gone),
           \A l \in Live : l.src # 0 => (l \in locs <=> l.src \in gone),
           \A l \in Live \ locs :
              l.src = 0 => memtable' = memtable /\ memtable_suppressed' = memtable_suppressed,
           \A l \in Locator :
              l.src = 0 /\ l.ord \in DOMAIN memtable' \ memtable_suppressed' => l \in Live \ locs
    PROVE  /\ LiveInv' /\ DOMAIN key_index' = Keys
           /\ \A k \in Keys : key_index'[k] = None \/ key_index'[k] \in Locator
<1> DEFINE new == next_segment_id
<1>1. new \in Nat \ {0} /\ new \notin DOMAIN segments
  BY DEF TypeInv
<1>2. PICK order \in Orderings(locs) :
        LET fresh == IF locs = {} THEN {} ELSE {new}
            ids == (DOMAIN segments \ gone) \cup fresh
        IN  /\ files' = [s \in ids |-> IF s \in fresh THEN [i \in DOMAIN order |-> RowAt(order[i])]
                                       ELSE files[s]]
            /\ segments' = [s \in ids |-> IF s \in fresh THEN {} ELSE segments[s]]
            /\ key_index' = [k \in Keys |->
                  IF key_index[k] \in locs
                  THEN [src |-> new, ord |-> CHOOSE i \in DOMAIN order : order[i] = key_index[k]]
                  ELSE key_index[k]]
  BY DEF Rewrite, NewId
<1>3. locs \in SUBSET Locator /\ IsFiniteSet(locs)
  BY LiveIsFinite, FS_Subset DEF Live
<1>4. /\ DOMAIN order \subseteq Nat \ {0}
      /\ \A i \in DOMAIN order : order[i] \in locs
      /\ \A i, j \in DOMAIN order : order[i] = order[j] => i = j
      /\ \A l \in locs : \E i \in DOMAIN order : order[i] = l
  <2>1. PICK n \in Nat : order \in [1 .. n -> locs]
    BY <1>3, OrderingEnumerates
  <2>2. DOMAIN order \subseteq Nat \ {0} /\ \A i \in DOMAIN order : order[i] \in locs
    BY <2>1
  <2> QED
    BY <1>3, <2>2, OrderingEnumerates
<1> DEFINE rows == [i \in DOMAIN order |-> RowAt(order[i])]
<1>5. ASSUME NEW s PROVE
        /\ s \in DOMAIN segments' <=> (s \in DOMAIN segments \ gone \/ (locs # {} /\ s = new))
        /\ s \in DOMAIN segments \ gone => files'[s] = files[s] /\ segments'[s] = segments[s]
        /\ locs # {} => files'[new] = rows /\ segments'[new] = {}
  BY <1>1, <1>2
<1>6. /\ DOMAIN key_index' = Keys
      /\ \A k \in Keys : key_index[k] \notin locs => key_index'[k] = key_index[k]
      /\ \A k \in Keys : key_index[k] \in locs =>
            key_index'[k] = [src |-> new, ord |-> CHOOSE i \in DOMAIN order : order[i] = key_index[k]]
  BY <1>2
<1> HIDE DEF new
\* The rows that were not rewritten.
<1>7. ASSUME NEW l \in Live \ locs PROVE l \in Live' /\ RowAt(l)' = RowAt(l)
  <2>1. CASE l.src = 0
    <3>1. memtable' = memtable /\ memtable_suppressed' = memtable_suppressed
      BY <1>7, <2>1
    <3>2. l \in Locator /\ l.ord \in DOMAIN memtable \ memtable_suppressed
      BY <1>7, <2>1 DEF Live, TypeInv
    <3> QED
      BY <2>1, <3>1, <3>2 DEF Live, RowAt
  <2>2. CASE l.src # 0
    <3>1. l.src \in DOMAIN segments \ gone /\ l.ord \in DOMAIN files[l.src] \ segments[l.src]
      BY <1>7, <2>2 DEF Live
    <3> QED
      BY <1>5, <2>2, <3>1 DEF Live, RowAt
  <2> QED
    BY <2>1, <2>2
\* The rows of the new segment.
<1>8. ASSUME NEW i \in DOMAIN order, NEW l \in Locator, l.src = new, l.ord = i
      PROVE  l \in Live' /\ RowAt(l)' = RowAt(order[i])
  <2>1. locs # {}
    BY <1>4
  <2>2. files'[new] = rows /\ segments'[new] = {} /\ new \in DOMAIN segments'
    BY <1>5, <2>1
  <2>3. files'[new][i] = RowAt(order[i]) /\ i \in DOMAIN files'[new]
    BY <2>2
  <2> QED
    BY <1>1, <1>8, <2>2, <2>3 DEF Live, RowAt
\* There are no others.
<1>9. ASSUME NEW l \in Live'
      PROVE  l \in Live \ locs \/ (l \in Locator /\ l.src = new /\ l.ord \in DOMAIN order)
  <2>1. l \in Locator
    BY DEF Live
  <2>2. CASE l.src = 0 /\ l.ord \in DOMAIN memtable' \ memtable_suppressed'
    BY <2>1, <2>2
  <2>3. CASE l.src \in DOMAIN segments' /\ l.ord \in DOMAIN files'[l.src] \ segments'[l.src]
    <3>1. CASE l.src \in DOMAIN segments \ gone
      <4>1. l \in Live
        BY <1>5, <2>1, <2>3, <3>1 DEF Live
      <4>2. l \notin locs
        BY <3>1, <4>1 DEF TypeInv
      <4> QED
        BY <4>1, <4>2
    <3>2. CASE locs # {} /\ l.src = new
      BY <1>5, <2>1, <2>3, <3>2
    <3> QED
      BY <1>5, <2>3, <3>1, <3>2
  <2> QED
    BY <2>2, <2>3 DEF Live
\* The entry of a key follows its row.
<1>10. ASSUME NEW i \in DOMAIN order, NEW k \in Keys, key_index[k] = order[i],
              NEW l \in Locator, l.src = new, l.ord = i
       PROVE  key_index'[k] = l /\ RowAt(order[i]).key = k
  <2>1. order[i] # None /\ order[i] \in locs
    BY <1>3, <1>4, ReadsAssumption
  <2>2. RowAt(order[i]).key = k
    BY <1>10, <2>1 DEF LiveInv
  <2>3. (CHOOSE j \in DOMAIN order : order[j] = key_index[k]) = i
    BY <1>4, <1>10
  <2>4. l = [src |-> new, ord |-> i]
    BY <1>10 DEF Locator
  <2> QED
    BY <1>6, <1>10, <2>1, <2>2, <2>3, <2>4
<1>11. ASSUME NEW k \in Keys, NEW l, l = key_index'[k], l # None
       PROVE  l \in Live' /\ RowAt(l)'.key = k
  <2>1. CASE key_index[k] \in locs
    <3>1. PICK i \in DOMAIN order : order[i] = key_index[k]
      BY <1>4, <2>1
    <3>2. PICK m \in Locator : m.src = new /\ m.ord = i
      <4>1. [src |-> new, ord |-> i] \in Locator
        BY <1>1, <1>4, LocatorIs
      <4> QED
        BY <4>1
    <3>3. key_index'[k] = m /\ RowAt(order[i]).key = k
      BY <1>10, <3>1, <3>2
    <3>4. m \in Live' /\ RowAt(m)' = RowAt(order[i])
      BY <1>8, <3>1, <3>2
    <3> QED
      BY <1>11, <3>3, <3>4
  <2>2. CASE key_index[k] \notin locs
    <3>1. l = key_index[k]
      BY <1>6, <1>11, <2>2
    <3>2. l \in Live \ locs /\ RowAt(l).key = k
      BY <1>11, <2>2, <3>1 DEF LiveInv
    <3>3. l \in Live' /\ RowAt(l)' = RowAt(l)
      BY <1>7, <3>2
    <3> QED
      BY <3>2, <3>3
  <2> QED
    BY <2>1, <2>2
<1>12. ASSUME NEW l \in Live' PROVE key_index'[RowAt(l)'.key] = l
  <2>1. CASE l \in Live \ locs
    <3>1. RowAt(l)' = RowAt(l) /\ RowAt(l).key \in Keys /\ key_index[RowAt(l).key] = l
      BY <1>7, <2>1, LiveIsRow, RowForm DEF LiveInv
    <3> QED
      BY <1>6, <2>1, <3>1
  <2>2. CASE l \in Locator /\ l.src = new /\ l.ord \in DOMAIN order
    <3>1. RowAt(l)' = RowAt(order[l.ord]) /\ order[l.ord] \in Live
      BY <1>4, <1>8, <2>2
    <3>2. RowAt(order[l.ord]).key \in Keys
      BY <3>1, LiveIsRow, RowForm
    <3>3. key_index[RowAt(order[l.ord]).key] = order[l.ord]
      BY <3>1 DEF LiveInv
    <3> QED
      BY <1>10, <2>2, <3>1, <3>2, <3>3
  <2> QED
    BY <1>9, <2>1, <2>2
<1>13. LiveInv'
  <2>1. ASSUME NEW k \in Keys, key_index'[k] # None
        PROVE  key_index'[k] \in Live' /\ RowAt(key_index[k])'.key = k
    BY <1>11, <2>1 DEF RowAt
  <2>2. \A l \in Live' : key_index'[RowAt(l)'.key] = l
    BY <1>12
  <2> QED
    BY <2>1, <2>2 DEF LiveInv
<1>14. \A k \in Keys : key_index'[k] = None \/ key_index'[k] \in Locator
  BY <1>11 DEF Live
<1> QED
  BY <1>6, <1>13, <1>14

\* An upsert displaces the visible row of its key, if there is one.
LEMMA UpsertStep ==
    ASSUME TypeInv, LiveInv, NEW k \in Keys, NEW v \in Values, Upsert(k, v)
    PROVE  TypeInv' /\ LiveInv'
<1> DEFINE l == key_index[k]
<1>0. PICK n, m : n = Len(memtable) + 1 /\ m = [src |-> 0, ord |-> n]
  OBVIOUS
<1>1. /\ memtable' = Append(memtable, Row(k, v))
      /\ key_index' = [key_index EXCEPT ![k] = m]
      /\ memtable_suppressed' = IF l # None /\ l.src = 0
            THEN memtable_suppressed \cup {l.ord} ELSE memtable_suppressed
      /\ segments' = [s \in DOMAIN segments |->
            IF l # None /\ l.src = s THEN segments[s] \cup {l.ord} ELSE segments[s]]
      /\ UNCHANGED <<files, next_segment_id, reader, moved, expect>> /\ DOMAIN held' = Readers
  BY <1>0 DEF Upsert, Suppress, KeepSnapshots, Hold
<1>2. Row(k, v) \in Rows /\ Row(k, v).key = k
  BY DEF Rows, Row
<1>3. memtable \in Seq(Rows) /\ Len(memtable) \in Nat /\ n \in Nat \ {0}
  BY <1>0 DEF TypeInv
<1>4. m \in Locator /\ m.src = 0 /\ m.ord = n /\ m # None
  BY <1>0, <1>3, LocatorIs, ReadsAssumption
<1>5. /\ memtable' \in Seq(Rows) /\ DOMAIN memtable' = DOMAIN memtable \cup {n}
      /\ n \notin DOMAIN memtable
      /\ memtable'[n] = Row(k, v) /\ \A i \in DOMAIN memtable : memtable'[i] = memtable[i]
  BY <1>0, <1>1, <1>2, <1>3
<1>6. l # None => l \in Live /\ l \in Locator
  BY DEF LiveInv, Live
<1>7. memtable_suppressed' \subseteq DOMAIN memtable
  BY <1>1, <1>6 DEF TypeInv, Live
<1>8. TypeInv'
  BY <1>1, <1>4, <1>5, <1>7 DEF TypeInv
<1>9. ASSUME NEW x \in Locator
      PROVE  x \in Live' <=> x = m \/ (x \in Live /\ x # l)
  <2>1. CASE x.src = 0
    <3>1. x.src \notin DOMAIN segments
      BY <2>1 DEF TypeInv
    <3>2. x \in Live' <=> x.ord \in DOMAIN memtable' \ memtable_suppressed'
      BY <1>1, <2>1, <3>1 DEF Live
    <3>3. x \in Live <=> x.ord \in DOMAIN memtable \ memtable_suppressed
      BY <2>1, <3>1 DEF Live
    <3>4. x = m <=> x.ord = n
      BY <1>4, <2>1, LocatorEq
    <3>5. CASE l # None /\ l.src = 0
      <4>1. x = l <=> x.ord = l.ord
        BY <1>6, <2>1, <3>5, LocatorEq
      <4> QED
        BY <1>1, <1>5, <1>7, <3>2, <3>3, <3>4, <3>5, <4>1
    <3>6. CASE ~(l # None /\ l.src = 0)
      <4>1. x # l
        BY <2>1, <3>6, ReadsAssumption
      <4> QED
        BY <1>1, <1>5, <1>7, <3>2, <3>3, <3>4, <3>6, <4>1
    <3> QED
      BY <3>5, <3>6
  <2>2. CASE x.src # 0
    <3>1. x # m
      BY <1>4, <2>2
    <3>2. x \in Live' <=> x.src \in DOMAIN segments /\ x.ord \in DOMAIN files[x.src] \ segments'[x.src]
      BY <1>1, <2>2 DEF Live
    <3>3. x \in Live <=> x.src \in DOMAIN segments /\ x.ord \in DOMAIN files[x.src] \ segments[x.src]
      BY <2>2 DEF Live
    <3>4. CASE l # None /\ l.src = x.src
      <4>1. x = l <=> x.ord = l.ord
        BY <1>6, <3>4, LocatorEq
      <4>2. x.src \in DOMAIN segments => segments'[x.src] = segments[x.src] \cup {l.ord}
        BY <1>1, <3>4
      <4> QED
        BY <3>1, <3>2, <3>3, <4>1, <4>2
    <3>5. CASE ~(l # None /\ l.src = x.src)
      <4>1. x # l
        BY <3>5, ReadsAssumption
      <4>2. x.src \in DOMAIN segments => segments'[x.src] = segments[x.src]
        BY <1>1, <3>5
      <4> QED
        BY <3>1, <3>2, <3>3, <4>1, <4>2
    <3> QED
      BY <3>4, <3>5
  <2> QED
    BY <2>1, <2>2
<1>10. RowAt(m)' = Row(k, v)
  BY <1>4, <1>5 DEF RowAt
<1>11. ASSUME NEW x \in Live PROVE RowAt(x)' = RowAt(x)
  BY <1>1, <1>5 DEF Live, RowAt, TypeInv
<1>12. key_index'[k] = m /\ \A j \in Keys \ {k} : key_index'[j] = key_index[j]
  BY <1>1 DEF TypeInv
<1>13. ASSUME NEW j \in Keys, NEW x, x = key_index'[j], x # None
       PROVE  x \in Live' /\ RowAt(x)'.key = j
  <2>1. CASE j = k
    BY <1>2, <1>4, <1>9, <1>10, <1>12, <1>13, <2>1
  <2>2. CASE j # k
    <3>1. x \in Live /\ RowAt(x).key = j
      BY <1>12, <1>13, <2>2 DEF LiveInv
    <3>2. x # l
      BY <1>13, <2>2, <3>1 DEF LiveInv
    <3> QED
      BY <1>9, <1>11, <3>1, <3>2 DEF Live
  <2> QED
    BY <2>1, <2>2
<1>14. ASSUME NEW x \in Live' PROVE key_index'[RowAt(x)'.key] = x
  <2>1. x \in Locator
    BY DEF Live
  <2>2. CASE x = m
    BY <1>2, <1>10, <1>12, <2>2
  <2>3. CASE x \in Live /\ x # l
    <3>1. RowAt(x)' = RowAt(x) /\ RowAt(x).key \in Keys /\ key_index[RowAt(x).key] = x
      BY <1>11, <2>3, LiveIsRow, RowForm DEF LiveInv
    <3> QED
      BY <1>12, <2>3, <3>1
  <2> QED
    BY <1>9, <2>1, <2>2, <2>3
<1>15. LiveInv'
  <2>1. ASSUME NEW j \in Keys, key_index'[j] # None
        PROVE  key_index'[j] \in Live' /\ RowAt(key_index[j])'.key = j
    BY <1>13, <2>1 DEF RowAt
  <2>2. \A x \in Live' : key_index'[RowAt(x)'.key] = x
    BY <1>14
  <2> QED
    BY <2>1, <2>2 DEF LiveInv
<1> QED
  BY <1>8, <1>15

\* A delete makes the row of its key invisible.
LEMMA DeleteStep ==
    ASSUME TypeInv, LiveInv, NEW k \in Keys, Delete(k)
    PROVE  TypeInv' /\ LiveInv'
<1> DEFINE l == key_index[k]
<1>1. /\ l # None /\ key_index' = [key_index EXCEPT ![k] = None]
      /\ memtable_suppressed' = IF l.src = 0 THEN memtable_suppressed \cup {l.ord}
                                ELSE memtable_suppressed
      /\ segments' = [s \in DOMAIN segments |->
            IF l.src = s THEN segments[s] \cup {l.ord} ELSE segments[s]]
      /\ UNCHANGED <<memtable, files, next_segment_id, reader, moved, expect>>
      /\ DOMAIN held' = Readers
  BY DEF Delete, Suppress, KeepSnapshots, Hold
<1>2. l \in Live /\ l \in Locator
  BY <1>1 DEF LiveInv, Live
<1>3. TypeInv'
  <2>1. memtable_suppressed' \subseteq DOMAIN memtable
    BY <1>1, <1>2 DEF TypeInv, Live
  <2> QED
    BY <1>1, <2>1 DEF TypeInv
<1>4. ASSUME NEW x \in Locator
      PROVE  x \in Live' <=> x \in Live /\ x # l
  <2>1. x = l <=> x.src = l.src /\ x.ord = l.ord
    BY <1>2, LocatorEq
  <2>2. CASE x.src = 0
    BY <1>1, <2>1, <2>2 DEF Live, TypeInv
  <2>3. CASE x.src # 0
    BY <1>1, <2>1, <2>3 DEF Live
  <2> QED
    BY <2>2, <2>3
<1>5. \A x : RowAt(x)' = RowAt(x)
  BY <1>1 DEF RowAt
<1>6. key_index'[k] = None /\ \A j \in Keys \ {k} : key_index'[j] = key_index[j]
  BY <1>1 DEF TypeInv
<1>7. ASSUME NEW j \in Keys, NEW x, x = key_index'[j], x # None
      PROVE  x \in Live' /\ RowAt(x)'.key = j
  <2>1. j # k /\ x = key_index[j]
    BY <1>6, <1>7
  <2>2. x \in Live /\ RowAt(x).key = j
    BY <1>7, <2>1 DEF LiveInv
  <2>3. x # l
    BY <1>1, <2>1, <2>2 DEF LiveInv
  <2> QED
    BY <1>4, <1>5, <2>2, <2>3 DEF Live
<1>8. ASSUME NEW x \in Live' PROVE key_index'[RowAt(x)'.key] = x
  <2>1. x \in Live /\ x # l
    BY <1>4 DEF Live
  <2>2. RowAt(x)' = RowAt(x) /\ RowAt(x).key \in Keys /\ key_index[RowAt(x).key] = x
    BY <1>5, <2>1, LiveIsRow, RowForm DEF LiveInv
  <2> QED
    BY <1>6, <2>1, <2>2
<1>9. LiveInv'
  <2>1. ASSUME NEW j \in Keys, key_index'[j] # None
        PROVE  key_index'[j] \in Live' /\ RowAt(key_index[j])'.key = j
    BY <1>7, <2>1 DEF RowAt
  <2>2. \A x \in Live' : key_index'[RowAt(x)'.key] = x
    BY <1>8
  <2> QED
    BY <2>1, <2>2 DEF LiveInv
<1> QED
  BY <1>3, <1>9

\* A flush moves the visible rows of the memtable to a segment.
LEMMA FlushStep ==
    ASSUME TypeInv, LiveInv, Flush
    PROVE  /\ TypeInv' /\ LiveInv' /\ FilesKept
           /\ \A s \in DOMAIN files : s \in DOMAIN files'
<1> DEFINE locs == MemtableLocs
<1>1. /\ Rewrite(locs, {}) /\ memtable' = <<>> /\ memtable_suppressed' = {}
      /\ next_segment_id' \in {next_segment_id, next_segment_id + 1}
      /\ locs # {} => next_segment_id' = next_segment_id + 1
      /\ DOMAIN moved' = Readers /\ UNCHANGED <<held, expect, reader>>
  BY DEF Flush, Move
<1>2. locs = { l \in Live : l.src = 0 } /\ locs \in SUBSET Live
  BY LocsAreLive
<1> HIDE DEF locs
<1>3. /\ \A l \in Live : l.src # 0 => (l \in locs <=> l.src \in {})
      /\ \A l \in Live \ locs : l.src # 0
      /\ \A l : l.ord \notin DOMAIN memtable'
  BY <1>1, <1>2
<1>4. /\ LiveInv' /\ DOMAIN key_index' = Keys
      /\ \A k \in Keys : key_index'[k] = None \/ key_index'[k] \in Locator
  BY <1>1, <1>2, <1>3, RewriteIndex
<1>5. /\ DOMAIN segments' = DOMAIN files' /\ DOMAIN files' \subseteq 1 .. next_segment_id' - 1
      /\ \A s \in DOMAIN files' : files'[s] \in Seq(Rows)
      /\ FilesKept
      /\ \A s \in DOMAIN files : s \in DOMAIN files'
  <2>1. {} \in SUBSET DOMAIN segments /\ DOMAIN files \ {} = DOMAIN files
    OBVIOUS
  <2> QED
    BY <1>1, <1>2, <2>1, RewriteFiles
<1>6. memtable' \in Seq(Rows) /\ next_segment_id' \in Nat \ {0}
  BY <1>1 DEF TypeInv
<1>7. TypeInv'
  BY <1>1, <1>4, <1>5, <1>6 DEF TypeInv
<1> QED
  BY <1>4, <1>5, <1>7

\* A compaction moves the visible rows of some segments to a new one.
LEMMA CompactStep ==
    ASSUME TypeInv, LiveInv, NEW gone \in SUBSET DOMAIN segments, Compact(gone)
    PROVE  TypeInv' /\ LiveInv' /\ FilesKept
<1> DEFINE locs == SegmentLocs(gone)
<1>1. /\ Rewrite(locs, gone) /\ UNCHANGED <<memtable, memtable_suppressed>>
      /\ next_segment_id' = next_segment_id + 1
      /\ DOMAIN moved' = Readers /\ UNCHANGED <<held, expect, reader>>
  BY DEF Compact, Move
<1>2. locs = { l \in Live : l.src \in gone } /\ locs \in SUBSET Live
  BY LocsAreLive
<1>3. 0 \notin DOMAIN segments
  BY DEF TypeInv
<1> HIDE DEF locs
<1>4. /\ \A l \in Live : l.src # 0 => (l \in locs <=> l.src \in gone)
      /\ \A l \in Locator : l.src = 0 /\ l.ord \in DOMAIN memtable' \ memtable_suppressed'
            => l \in Live \ locs
  BY <1>1, <1>2, <1>3 DEF Live
<1>5. /\ LiveInv' /\ DOMAIN key_index' = Keys
      /\ \A k \in Keys : key_index'[k] = None \/ key_index'[k] \in Locator
  BY <1>1, <1>2, <1>4, RewriteIndex
<1>6. /\ DOMAIN segments' = DOMAIN files' /\ DOMAIN files' \subseteq 1 .. next_segment_id' - 1
      /\ \A s \in DOMAIN files' : files'[s] \in Seq(Rows)
      /\ FilesKept
  BY <1>1, <1>2, RewriteFiles
<1>7. TypeInv'
  BY <1>1, <1>5, <1>6 DEF TypeInv
<1> QED
  BY <1>5, <1>6, <1>7

-----------------------------------------------------------------------------
(* The writer and the readers.                                             *)

\* What holds of a running read goes on to hold while the writer takes a step
\* that keeps the files, the values seen, and until a flush the memtable's rows.
LEMMA ReadersUndisturbed ==
    ASSUME TypeInv, ReadersInv, FilesKept, UNCHANGED <<reader, expect>>,
           \A r \in Readers :
              /\ held[r] \subseteq held'[r] /\ moved[r] \subseteq moved'[r]
              /\ "compact" \notin moved'[r] => \A s \in DOMAIN files : s \in DOMAIN files'
              /\ "flush" \notin moved'[r] => \A i \in DOMAIN memtable :
                    i \in DOMAIN memtable' /\ memtable'[i] = memtable[i]
    PROVE  ReadersInv'
<1> SUFFICES ASSUME NEW r \in Readers PROVE ReaderInv(r)'
  BY DEF ReadersInv
<1>0. GetInv(r) /\ GotInv(r) /\ ScanInv(r) /\ ScannedInv(r) /\ FailInv(r)
  BY DEF ReadersInv, ReaderInv
<1>1. ASSUME NEW row, IsAnswer(r, row) PROVE IsAnswer(r, row)'
  BY <1>1 DEF IsAnswer
<1>2. \A s \in 1 .. next_segment_id - 1 :
          s \in DOMAIN files' => s \in DOMAIN files /\ files'[s] = files[s]
  BY DEF FilesKept
<1>3. /\ next_segment_id \in Nat /\ next_segment_id' \in Nat
      /\ next_segment_id' >= next_segment_id
  BY DEF FilesKept, TypeInv
<1>4. GetInv(r)'
  <2> SUFFICES ASSUME reader[r].op \in {"get", "get_read"}
               PROVE  /\ reader[r].key \in Keys /\ reader[r].loc \in Locator
                      /\ reader[r].op = "get_read" => reader[r].loc.src # 0
                      /\ LeadsToAnswer(r, reader[r].loc)'
    BY DEF GetInv
  <2>1. PICK l : l = reader[r].loc /\ reader'[r] = reader[r]
    OBVIOUS
  <2>2. /\ reader[r].key \in Keys /\ l \in Locator
        /\ reader[r].op = "get_read" => l.src # 0
        /\ LeadsToAnswer(r, l)
    BY <1>0, <2>1 DEF GetInv
  <2>3. ASSUME l.src = 0, "flush" \notin moved'[r]
        PROVE  l.ord \in DOMAIN memtable' /\ IsAnswer(r, memtable[l.ord])'
    <3>1. PICK row : row = memtable[l.ord] /\ IsAnswer(r, row)
      BY <2>2, <2>3 DEF LeadsToAnswer
    <3>2. l.ord \in DOMAIN memtable' /\ memtable'[l.ord] = row
      BY <2>2, <2>3, <3>1 DEF LeadsToAnswer
    <3>3. IsAnswer(r, row)'
      BY <1>1, <3>1
    <3> QED
      BY <2>1, <3>2, <3>3 DEF IsAnswer
  <2>4. ASSUME l.src # 0, l.src \in DOMAIN files'
        PROVE  l.ord \in DOMAIN files'[l.src] /\ IsAnswer(r, files[l.src][l.ord])'
    <3>1. l.src \in 1 .. next_segment_id - 1
      BY <1>3, <2>2, <2>4 DEF Locator, LeadsToAnswer
    <3>2. l.src \in DOMAIN files /\ files'[l.src] = files[l.src]
      BY <1>2, <2>4, <3>1
    <3>3. PICK row : row = files[l.src][l.ord] /\ IsAnswer(r, row)
      BY <2>2, <2>4, <3>2 DEF LeadsToAnswer
    <3>4. IsAnswer(r, row)'
      BY <1>1, <3>3
    <3> QED
      BY <2>1, <2>2, <2>4, <3>2, <3>3, <3>4 DEF IsAnswer, LeadsToAnswer
  <2>5. l.src # 0 => l.src < next_segment_id' /\ ("compact" \notin moved'[r] => l.src \in DOMAIN files')
    BY <1>3, <2>2 DEF Locator, LeadsToAnswer
  <2>6. LeadsToAnswer(r, l)'
    BY <2>3, <2>4, <2>5 DEF LeadsToAnswer
  <2>7. LeadsToAnswer(r, reader[r].loc)'
    BY <2>1, <2>6 DEF LeadsToAnswer
  <2> QED
    BY <2>1, <2>2, <2>7
<1>5. GotInv(r)'
  BY <1>0 DEF GotInv, IsAnswer
<1>6. ScanInv(r)'
  <2> SUFFICES ASSUME reader[r].op = "scan"
               PROVE  /\ reader[r].key = None
                      /\ reader[r].todo \subseteq 1 .. next_segment_id' - 1
                      /\ "compact" \notin moved'[r] => reader[r].todo \subseteq DOMAIN files'
                      /\ reader[r].todo \subseteq DOMAIN files' => expect[r] = Left(r)'
    BY DEF ScanInv
  <2>1. /\ reader[r].key = None
        /\ reader[r].todo \subseteq 1 .. next_segment_id - 1
        /\ "compact" \notin moved[r] => reader[r].todo \subseteq DOMAIN files
        /\ reader[r].todo \subseteq DOMAIN files => expect[r] = Left(r)
    BY <1>0 DEF ScanInv
  <2>2. reader[r].todo \subseteq 1 .. next_segment_id' - 1
    BY <1>3, <2>1 DEF FilesKept
  <2>3. ASSUME reader[r].todo \subseteq DOMAIN files'
        PROVE  reader[r].todo \subseteq DOMAIN files /\ Left(r)' = Left(r)
    <3>1. \A s \in reader[r].todo : s \in DOMAIN files /\ files'[s] = files[s]
      BY <1>2, <2>1, <2>3
    <3>2. \A s \in reader[r].todo :
              drop_suppressed(files'[s], reader[r].snap.segments[s])
                = drop_suppressed(files[s], reader[r].snap.segments[s])
      BY <3>1
    <3> QED
      BY <3>1, <3>2 DEF Left
  <2> QED
    BY <2>1, <2>2, <2>3
<1>7. ScannedInv(r)' /\ FailInv(r)'
  BY <1>0 DEF ScannedInv, FailInv
<1> QED
  BY <1>4, <1>5, <1>6, <1>7 DEF ReaderInv

\* Every step of the writer.
LEMMA WriteStep ==
    ASSUME ReadsInv, Write
    PROVE  ReadsInv'
<1>1. TypeInv /\ LiveInv /\ ReadersInv
  BY DEF ReadsInv
<1>2. ASSUME UNCHANGED <<files, next_segment_id>> PROVE FilesKept
  BY <1>1, <1>2 DEF FilesKept, TypeInv
<1>3. ASSUME NEW k \in Keys, NEW v \in Values, Upsert(k, v) PROVE ReadsInv'
  <2>1. TypeInv' /\ LiveInv'
    BY <1>1, <1>3, UpsertStep
  <2>2. /\ UNCHANGED <<files, next_segment_id, reader, moved, expect>>
        /\ \A r \in Readers : held[r] \subseteq held'[r]
        /\ memtable' = Append(memtable, Row(k, v))
    BY <1>3 DEF Upsert, KeepSnapshots, Hold
  <2>3. \A i \in DOMAIN memtable : i \in DOMAIN memtable' /\ memtable'[i] = memtable[i]
    BY <1>1, <2>2 DEF TypeInv
  <2>4. ReadersInv'
    BY <1>1, <1>2, <2>2, <2>3, ReadersUndisturbed
  <2> QED
    BY <2>1, <2>4 DEF ReadsInv
<1>4. ASSUME NEW k \in Keys, Delete(k) PROVE ReadsInv'
  <2>1. TypeInv' /\ LiveInv'
    BY <1>1, <1>4, DeleteStep
  <2>2. /\ UNCHANGED <<memtable, files, next_segment_id, reader, moved, expect>>
        /\ \A r \in Readers : held[r] \subseteq held'[r]
    BY <1>4 DEF Delete, KeepSnapshots, Hold
  <2>3. ReadersInv'
    BY <1>1, <1>2, <2>2, ReadersUndisturbed
  <2> QED
    BY <2>1, <2>3 DEF ReadsInv
<1>5. CASE Flush
  <2>1. TypeInv' /\ LiveInv' /\ FilesKept /\ \A s \in DOMAIN files : s \in DOMAIN files'
    BY <1>1, <1>5, FlushStep
  <2>2. /\ UNCHANGED <<reader, held, expect>>
        /\ \A r \in Readers : moved'[r] = moved[r] \cup {"flush"}
    BY <1>5 DEF Flush, Move
  <2>3. ReadersInv'
    BY <1>1, <2>1, <2>2, ReadersUndisturbed
  <2> QED
    BY <2>1, <2>3 DEF ReadsInv
<1>6. ASSUME NEW ids \in SUBSET DOMAIN segments, Compact(ids) PROVE ReadsInv'
  <2>1. TypeInv' /\ LiveInv' /\ FilesKept
    BY <1>1, <1>6, CompactStep
  <2>2. /\ UNCHANGED <<memtable, reader, held, expect>>
        /\ \A r \in Readers : moved'[r] = moved[r] \cup {"compact"}
    BY <1>6 DEF Compact, Move
  <2>3. ReadersInv'
    BY <1>1, <2>1, <2>2, ReadersUndisturbed
  <2> QED
    BY <2>1, <2>3 DEF ReadsInv
<1> QED
  BY <1>3, <1>4, <1>5, <1>6 DEF Write

-----------------------------------------------------------------------------
(* The readers.                                                            *)

\* A reader's step changes what it is doing, and its own history.
LEMMA ReaderStep ==
    ASSUME ReadsInv, NEW r \in Readers, NEW s, Becomes(r, s), DOMAIN s = Fields,
           DOMAIN held' = Readers, DOMAIN moved' = Readers, DOMAIN expect' = Readers,
           \A q \in Readers \ {r} :
              held'[q] = held[q] /\ moved'[q] = moved[q] /\ expect'[q] = expect[q],
           reader'[r] = s => ReaderInv(r)'
    PROVE  ReadsInv'
<1>1. TypeInv /\ LiveInv /\ ReadersInv
  BY DEF ReadsInv
<1>2. /\ reader'[r] = s /\ \A q \in Readers \ {r} : reader'[q] = reader[q]
      /\ DOMAIN reader' = Readers
      /\ UNCHANGED <<memtable, memtable_suppressed, segments, files, key_index, next_segment_id>>
  BY <1>1 DEF Becomes, TypeInv
<1>3. TypeInv'
  BY <1>1, <1>2 DEF TypeInv
<1>4. LiveInv'
  BY <1>1, <1>2 DEF LiveInv, Live, RowAt
<1>5. ASSUME NEW q \in Readers \ {r} PROVE ReaderInv(q)'
  <2>1. /\ reader'[q] = reader[q] /\ held'[q] = held[q] /\ moved'[q] = moved[q]
        /\ expect'[q] = expect[q]
    BY <1>2
  <2>2. GetInv(q) /\ GotInv(q) /\ ScanInv(q) /\ ScannedInv(q) /\ FailInv(q)
    BY <1>1 DEF ReadersInv, ReaderInv
  <2>3. GetInv(q)'
    BY <1>2, <2>1, <2>2 DEF GetInv, LeadsToAnswer, IsAnswer
  <2>4. GotInv(q)' /\ ScannedInv(q)' /\ FailInv(q)'
    BY <2>1, <2>2 DEF GotInv, ScannedInv, FailInv, IsAnswer
  <2>5. ScanInv(q)'
    BY <1>2, <2>1, <2>2 DEF ScanInv, Left
  <2> QED
    BY <2>3, <2>4, <2>5 DEF ReaderInv
<1>6. ReadersInv'
  BY <1>2, <1>5 DEF ReadersInv
<1> QED
  BY <1>3, <1>4, <1>6 DEF ReadsInv

\* The same when the history stays: a step of a read that goes on.
LEMMA ReaderGoesOn ==
    ASSUME ReadsInv, NEW r \in Readers, NEW s, Becomes(r, s), DOMAIN s = Fields,
           UNCHANGED history, reader'[r] = s => ReaderInv(r)'
    PROVE  ReadsInv'
<1>1. /\ UNCHANGED <<held, moved, expect>>
      /\ DOMAIN held = Readers /\ DOMAIN moved = Readers /\ DOMAIN expect = Readers
  BY DEF history, ReadsInv, TypeInv
<1> QED
  BY <1>1, ReaderStep

\* The fields of a reader that changes.
LEMMA ReaderForm ==
    ASSUME NEW r \in Readers, ReadsInv, NEW op, NEW out, NEW key, NEW loc
    PROVE  /\ DOMAIN reader[r] = Fields
           /\ LET s == [reader[r] EXCEPT !.op = op, !.out = out]
              IN  /\ DOMAIN s = Fields /\ s.op = op /\ s.out = out /\ s.key = reader[r].key
           /\ LET s == [reader[r] EXCEPT !.op = op]
              IN  /\ DOMAIN s = Fields /\ s.op = op /\ s.key = reader[r].key
                  /\ s.loc = reader[r].loc
           /\ LET s == [Idle EXCEPT !.op = op, !.key = key, !.loc = loc]
              IN  /\ DOMAIN s = Fields /\ s.op = op /\ s.key = key /\ s.loc = loc /\ s.out = None
BY DEF ReadsInv, TypeInv, Fields, Idle

\* get, first lock: the index leads to the row of the key as it is now.
LEMMA LocateStep ==
    ASSUME ReadsInv, NEW r \in Readers, NEW k \in Keys, GetLocate(r, k)
    PROVE  ReadsInv'
<1>1. TypeInv /\ LiveInv
  BY DEF ReadsInv
<1> DEFINE op == IF key_index[k] = None THEN "done" ELSE "get"
<1>2. PICK s : s = [Idle EXCEPT !.op = op, !.key = k, !.loc = key_index[k]]
  OBVIOUS
<1>3. DOMAIN s = Fields /\ s.op = op /\ s.key = k /\ s.loc = key_index[k] /\ s.out = None
  BY <1>2, ReaderForm
<1>4. /\ Becomes(r, s)
      /\ held' = [held EXCEPT ![r] = {ValueOf(k)}]
      /\ moved' = [moved EXCEPT ![r] = {}]
      /\ expect' = [expect EXCEPT ![r] = {}]
  BY <1>2 DEF GetLocate
<1>5. /\ held'[r] = {ValueOf(k)} /\ moved'[r] = {}
      /\ DOMAIN held' = Readers /\ DOMAIN moved' = Readers /\ DOMAIN expect' = Readers
      /\ \A q \in Readers \ {r} :
              held'[q] = held[q] /\ moved'[q] = moved[q] /\ expect'[q] = expect[q]
  BY <1>1, <1>4 DEF TypeInv
<1>6. UNCHANGED <<memtable, files, next_segment_id>>
  BY <1>4 DEF Becomes
<1>7. ASSUME reader'[r] = s PROVE ReaderInv(r)'
  <2>1. k # None
    BY ReadsAssumption
  <2>2. CASE key_index[k] = None
    <3>1. ValueOf(k) = None
      BY <2>2 DEF ValueOf
    <3> QED
      BY <1>3, <1>5, <1>7, <2>1, <2>2, <3>1
         DEF ReaderInv, GetInv, GotInv, ScanInv, ScannedInv, FailInv
  <2>3. CASE key_index[k] # None
    <3>1. PICK l : l = key_index[k]
      OBVIOUS
    <3>2. l \in Live /\ l \in Locator /\ RowAt(l) \in Rows /\ RowAt(l).key = k
      BY <1>1, <2>3, <3>1, LiveIsRow DEF LiveInv, Live
    <3>3. ValueOf(k) = RowAt(l).val
      BY <2>3, <3>1 DEF ValueOf
    <3>4. PICK row : row = RowAt(l)
      OBVIOUS
    <3>5. IsAnswer(r, row)'
      BY <1>3, <1>5, <1>7, <3>2, <3>3, <3>4 DEF IsAnswer
    <3>6. /\ l.src = 0 => l.ord \in DOMAIN memtable /\ memtable[l.ord] = row
          /\ l.src # 0 => l.src \in DOMAIN files /\ l.ord \in DOMAIN files[l.src]
                            /\ files[l.src][l.ord] = row /\ l.src < next_segment_id
      BY <1>1, <3>2, <3>4 DEF Live, RowAt, TypeInv
    <3>7. LeadsToAnswer(r, l)'
      BY <1>6, <3>5, <3>6 DEF LeadsToAnswer, IsAnswer
    <3>8. GetInv(r)'
      BY <1>3, <1>7, <2>3, <3>1, <3>2, <3>7 DEF GetInv, LeadsToAnswer
    <3> QED
      BY <1>3, <1>7, <2>3, <3>8 DEF ReaderInv, GotInv, ScanInv, ScannedInv, FailInv
  <2> QED
    BY <2>2, <2>3
<1> HIDE DEF op
<1> QED
  BY <1>3, <1>4, <1>5, <1>7, ReaderStep

\* get, second step: the row the address leads to, or none, or an error.
LEMMA LookupStep ==
    ASSUME ReadsInv, NEW r \in Readers, GetFromMemtable(r) \/ GetEntry(r) \/ GetFromSegment(r)
    PROVE  ReadsInv'
<1>1. PICK l : l = reader[r].loc
  OBVIOUS
<1>2. /\ TypeInv /\ reader[r].op \in {"get", "get_read"}
      /\ reader[r].key \in Keys /\ l \in Locator /\ LeadsToAnswer(r, l) /\ reader[r].key # None
      /\ reader[r].op = "get_read" => l.src # 0
  BY <1>1, ReadsAssumption
     DEF ReadsInv, ReadersInv, ReaderInv, GetInv, GetFromMemtable, GetEntry, GetFromSegment
\* It returns a row that is right, or one that a flush has put there, or none.
<1>3. ASSUME NEW out, Finish(r, out),
             out = None => moved[r] # {},
             out # None => "flush" \in moved[r] \/ IsAnswer(r, out)
      PROVE  ReadsInv'
  <2>1. PICK s : s = [reader[r] EXCEPT !.op = "done", !.out = out]
    OBVIOUS
  <2>2. DOMAIN s = Fields /\ s.op = "done" /\ s.out = out /\ s.key = reader[r].key
    BY <2>1, ReaderForm
  <2>3. Becomes(r, s) /\ UNCHANGED history
    BY <1>3, <2>1 DEF Finish
  <2>4. ASSUME reader'[r] = s PROVE ReaderInv(r)'
    BY <1>2, <1>3, <2>2, <2>3, <2>4
       DEF ReaderInv, GetInv, GotInv, ScanInv, ScannedInv, FailInv, IsAnswer, history
  <2> QED
    BY <2>2, <2>3, <2>4, ReaderGoesOn
\* It fails.
<1>4. ASSUME FailRead(r), moved[r] # {}
      PROVE  ReadsInv'
  <2>1. PICK s : s = [reader[r] EXCEPT !.op = "failed"]
    OBVIOUS
  <2>2. DOMAIN s = Fields /\ s.op = "failed" /\ s.key = reader[r].key
    BY <2>1, ReaderForm
  <2>3. Becomes(r, s) /\ UNCHANGED history
    BY <1>4, <2>1 DEF FailRead
  <2>4. ASSUME reader'[r] = s PROVE ReaderInv(r)'
    BY <1>2, <1>4, <2>2, <2>3, <2>4
       DEF ReaderInv, GetInv, GotInv, ScanInv, ScannedInv, FailInv, history
  <2> QED
    BY <2>2, <2>3, <2>4, ReaderGoesOn
<1>5. CASE GetFromMemtable(r)
  <2>1. l.src = 0
    BY <1>1, <1>5 DEF GetFromMemtable
  <2>2. "flush" \notin moved[r] => l.ord \in DOMAIN memtable /\ IsAnswer(r, memtable[l.ord])
    BY <1>2, <2>1 DEF LeadsToAnswer
  <2>3. CASE memtable = <<>> /\ Finish(r, None)
    BY <1>3, <2>2, <2>3
  <2>4. CASE l.ord \in DOMAIN memtable /\ Finish(r, memtable[l.ord])
    <3>1. memtable[l.ord] # None
      BY <1>2, <2>4, RowForm DEF TypeInv
    <3> QED
      BY <1>3, <2>2, <2>4, <3>1
  <2>5. CASE l.ord \notin DOMAIN memtable /\ FailRead(r)
    BY <1>4, <2>2, <2>5
  <2> QED
    BY <1>1, <1>5, <2>3, <2>4, <2>5 DEF GetFromMemtable, RowOfBatches
<1>6. CASE GetEntry(r)
  <2>1. l.src # 0 /\ ("compact" \notin moved[r] => l.src \in DOMAIN segments)
    BY <1>1, <1>2, <1>6 DEF GetEntry, LeadsToAnswer, TypeInv, Locator
  <2>2. CASE l.src \notin DOMAIN segments
    <3>1. Finish(r, None)
      BY <1>1, <1>6, <2>2 DEF GetEntry
    <3> QED
      BY <1>3, <2>1, <2>2, <3>1
  <2>3. CASE l.src \in DOMAIN segments
    <3>1. PICK s : s = [reader[r] EXCEPT !.op = "get_read"]
      OBVIOUS
    <3>2. /\ DOMAIN s = Fields /\ s.op = "get_read" /\ s.key = reader[r].key /\ s.loc = l
      BY <1>1, <3>1, ReaderForm
    <3>3. Becomes(r, s) /\ UNCHANGED history
      BY <1>1, <1>6, <2>3, <3>1 DEF GetEntry
    <3>4. ASSUME reader'[r] = s PROVE ReaderInv(r)'
      <4>1. LeadsToAnswer(r, l)'
        BY <1>2, <3>2, <3>3, <3>4 DEF LeadsToAnswer, IsAnswer, Becomes, history
      <4>2. GetInv(r)'
        BY <1>2, <2>1, <3>2, <3>4, <4>1 DEF GetInv, LeadsToAnswer
      <4> QED
        BY <3>2, <3>4, <4>2 DEF ReaderInv, GotInv, ScanInv, ScannedInv, FailInv
    <3> QED
      BY <3>2, <3>3, <3>4, ReaderGoesOn
  <2> QED
    BY <2>2, <2>3
<1>7. CASE GetFromSegment(r)
  <2>1. l.src # 0
    BY <1>2, <1>7 DEF GetFromSegment
  <2>2. CASE l.src \in DOMAIN files /\ l.ord \in DOMAIN files[l.src]
    <3>1. Finish(r, files[l.src][l.ord])
      BY <1>1, <1>7, <2>2 DEF GetFromSegment
    <3>2. IsAnswer(r, files[l.src][l.ord])
      BY <1>2, <2>1, <2>2 DEF LeadsToAnswer
    <3>3. files[l.src][l.ord] # None
      BY <3>2, RowForm DEF IsAnswer
    <3> QED
      BY <1>3, <3>1, <3>2, <3>3
  <2>3. CASE ~(l.src \in DOMAIN files /\ l.ord \in DOMAIN files[l.src])
    <3>1. FailRead(r)
      BY <1>1, <1>7, <2>3 DEF GetFromSegment
    <3>2. moved[r] # {}
      BY <1>2, <2>1, <2>3 DEF LeadsToAnswer
    <3> QED
      BY <1>4, <3>1, <3>2
  <2> QED
    BY <2>2, <2>3
<1> QED
  BY <1>5, <1>6, <1>7

\* The table is what its segments and its memtable show.
LEMMA TableIsVisible ==
    ASSUME TypeInv, LiveInv
    PROVE  Table = (UNION { drop_suppressed(files[s], segments[s]) : s \in DOMAIN segments })
                     \cup drop_suppressed(memtable, memtable_suppressed)
<1> DEFINE Shown(s) == drop_suppressed(files[s], segments[s])
<1>1. ASSUME NEW x \in Table
      PROVE  (\E s \in DOMAIN segments : x \in Shown(s)) \/ x \in drop_suppressed(memtable, memtable_suppressed)
  <2>1. PICK k \in Keys : key_index[k] # None /\ x = RowAt(key_index[k])
    BY DEF Table
  <2>2. PICK l \in Live : x = RowAt(l)
    BY <2>1 DEF LiveInv
  <2>3. CASE l.src = 0 /\ l.ord \in DOMAIN memtable \ memtable_suppressed
    BY <2>2, <2>3 DEF RowAt, drop_suppressed
  <2>4. CASE l.src \in DOMAIN segments /\ l.ord \in DOMAIN files[l.src] \ segments[l.src]
    <3>1. x = files[l.src][l.ord]
      BY <2>2, <2>4 DEF RowAt, TypeInv
    <3> QED
      BY <2>4, <3>1 DEF drop_suppressed
  <2> QED
    BY <2>3, <2>4 DEF Live
<1>2. ASSUME NEW l \in Live PROVE RowAt(l) \in Table
  <2>1. RowAt(l).key \in Keys /\ key_index[RowAt(l).key] = l /\ l # None
    BY LiveIsRow, RowForm, ReadsAssumption DEF LiveInv, Live
  <2> QED
    BY <2>1 DEF Table
<1>3. ASSUME NEW s \in DOMAIN segments, NEW x \in Shown(s) PROVE x \in Table
  <2>1. PICK i \in DOMAIN files[s] \ segments[s] : x = files[s][i]
    BY DEF drop_suppressed
  <2>2. s \in Nat \ {0} /\ i \in Nat \ {0}
    <3>1. files[s] \in Seq(Rows) /\ s \in Nat \ {0}
      BY DEF TypeInv
    <3> QED
      BY <2>1, <3>1
  <2>3. PICK l \in Locator : l.src = s /\ l.ord = i
    BY <2>2, LocatorIs
  <2>4. l \in Live /\ RowAt(l) = x
    BY <2>1, <2>2, <2>3 DEF Live, RowAt
  <2> QED
    BY <1>2, <2>4
<1>4. ASSUME NEW x \in drop_suppressed(memtable, memtable_suppressed) PROVE x \in Table
  <2>1. PICK i \in DOMAIN memtable \ memtable_suppressed : x = memtable[i]
    BY DEF drop_suppressed
  <2>2. i \in Nat \ {0}
    BY <2>1 DEF TypeInv
  <2>3. PICK l \in Locator : l.src = 0 /\ l.ord = i
    BY <2>2, LocatorIs
  <2>4. l \in Live /\ RowAt(l) = x
    BY <2>1, <2>3 DEF Live, RowAt
  <2> QED
    BY <1>2, <2>4
<1> HIDE DEF Shown
<1>5. Table = (UNION { Shown(s) : s \in DOMAIN segments })
                \cup drop_suppressed(memtable, memtable_suppressed)
  BY <1>1, <1>3, <1>4
<1> QED
  BY <1>5 DEF Shown

\* snapshot: everything the scan will read is in place.
LEMMA SnapshotStep ==
    ASSUME ReadsInv, NEW r \in Readers, Snapshot(r)
    PROVE  ReadsInv'
<1>1. TypeInv /\ LiveInv
  BY DEF ReadsInv
<1>2. PICK snap : snap = [memtable |-> memtable, suppressed |-> memtable_suppressed,
                          segments |-> segments]
  OBVIOUS
<1>3. PICK s : s = [Idle EXCEPT !.op = "scan", !.todo = DOMAIN segments, !.out = {}, !.snap = snap]
  OBVIOUS
<1>4. /\ DOMAIN s = Fields /\ s.op = "scan" /\ s.key = None /\ s.todo = DOMAIN segments
      /\ s.out = {} /\ s.snap = snap
  BY <1>3 DEF Fields, Idle
<1>5. snap.memtable = memtable /\ snap.suppressed = memtable_suppressed /\ snap.segments = segments
  BY <1>2
<1>6. /\ Becomes(r, s)
      /\ held' = [held EXCEPT ![r] = {}]
      /\ moved' = [moved EXCEPT ![r] = {}]
      /\ expect' = [expect EXCEPT ![r] = Table]
  BY <1>2, <1>3 DEF Snapshot
<1>7. /\ expect'[r] = Table
      /\ DOMAIN held' = Readers /\ DOMAIN moved' = Readers /\ DOMAIN expect' = Readers
      /\ \A q \in Readers \ {r} :
              held'[q] = held[q] /\ moved'[q] = moved[q] /\ expect'[q] = expect[q]
  BY <1>1, <1>6 DEF TypeInv
<1>8. ASSUME reader'[r] = s PROVE ReaderInv(r)'
  <2>1. files' = files /\ next_segment_id' = next_segment_id
    BY <1>6 DEF Becomes
  <2>2. Left(r)' = Table
    <3>1. Left(r)' = {} \cup (UNION { drop_suppressed(files[i], segments[i]) : i \in DOMAIN segments })
                        \cup drop_suppressed(memtable, memtable_suppressed)
      BY <1>4, <1>5, <1>8, <2>1 DEF Left
    <3> QED
      BY <1>1, <3>1, TableIsVisible
  <2>3. ScanInv(r)'
    BY <1>1, <1>4, <1>7, <1>8, <2>1, <2>2 DEF ScanInv, TypeInv
  <2> QED
    BY <1>4, <1>8, <2>3 DEF ReaderInv, GetInv, GotInv, ScannedInv, FailInv
<1> QED
  BY <1>4, <1>6, <1>7, <1>8, ReaderStep

\* The segment a scan reads next is one that it has still to read.
LEMMA NextSegment ==
    ASSUME NEW S, S \subseteq Nat, S # {}
    PROVE  Min(S) \in S
<1>1. IsWellFoundedOn(OpToRel(<, Nat), Nat)
  BY NatLessThanWellFounded
<1>2. PICK x \in S : \A y \in S : ~(<<y, x>> \in OpToRel(<, Nat))
  BY <1>1, WFMin, Zenon
<1>3. ASSUME NEW y \in S PROVE x <= y
  <2>1. <<y, x>> \in Nat \X Nat
    OBVIOUS
  <2>2. ~(y < x)
    BY <1>2, <2>1 DEF OpToRel
  <2> QED
    BY <2>2
<1>4. \E z \in S : \A y \in S : z <= y
  BY <1>3
<1> QED
  BY <1>4, Zenon DEF Min

\* A scan reads on, returns what its snapshot showed, or fails because a
\* compaction has deleted the file.
LEMMA ScanStep ==
    ASSUME ReadsInv, NEW r \in Readers, ScanSegment(r) \/ ScanMemtable(r)
    PROVE  ReadsInv'
<1>1. /\ reader[r].op = "scan" /\ reader[r].key = None
      /\ reader[r].todo \subseteq 1 .. next_segment_id - 1
      /\ "compact" \notin moved[r] => reader[r].todo \subseteq DOMAIN files
      /\ reader[r].todo \subseteq DOMAIN files => expect[r] = Left(r)
      /\ TypeInv /\ DOMAIN reader[r] = Fields
  BY DEF ReadsInv, TypeInv, ReadersInv, ReaderInv, ScanInv, ScanSegment, ScanMemtable
<1>2. CASE ScanMemtable(r)
  <2>1. PICK out : out = reader[r].out
                         \cup drop_suppressed(reader[r].snap.memtable, reader[r].snap.suppressed)
    OBVIOUS
  <2>2. reader[r].todo = {} /\ Finish(r, out)
    BY <1>2, <2>1 DEF ScanMemtable
  <2>3. out = expect[r]
    BY <1>1, <2>1, <2>2 DEF Left
  <2>4. PICK s : s = [reader[r] EXCEPT !.op = "done", !.out = out]
    OBVIOUS
  <2>5. DOMAIN s = Fields /\ s.op = "done" /\ s.out = out /\ s.key = None
    BY <1>1, <2>4, ReaderForm
  <2>6. Becomes(r, s) /\ UNCHANGED history
    BY <2>2, <2>4 DEF Finish
  <2>7. ASSUME reader'[r] = s PROVE ReaderInv(r)'
    BY <2>3, <2>5, <2>6, <2>7
       DEF ReaderInv, GetInv, GotInv, ScanInv, ScannedInv, FailInv, history
  <2> QED
    BY <2>5, <2>6, <2>7, ReaderGoesOn
<1>3. CASE ScanSegment(r)
  <2>1. PICK n : n = Min(reader[r].todo)
    OBVIOUS
  <2>2. n \in reader[r].todo /\ next_segment_id \in Nat
    <3>1. reader[r].todo \subseteq Nat /\ reader[r].todo # {}
      BY <1>1, <1>3 DEF ScanSegment, TypeInv
    <3> QED
      BY <1>1, <2>1, <3>1, NextSegment DEF TypeInv
  <2>3. CASE n \in DOMAIN files
    <3>1. PICK part : part = drop_suppressed(files[n], reader[r].snap.segments[n])
      OBVIOUS
    <3>2. PICK s : s = [reader[r] EXCEPT !.todo = @ \ {n}, !.out = @ \cup part]
      OBVIOUS
    <3>3. /\ DOMAIN s = Fields /\ s.op = "scan" /\ s.key = None
          /\ s.todo = reader[r].todo \ {n} /\ s.out = reader[r].out \cup part
          /\ s.snap = reader[r].snap
      BY <1>1, <3>2 DEF Fields
    <3>4. Becomes(r, s) /\ UNCHANGED history
      BY <1>3, <2>1, <2>3, <3>1, <3>2 DEF ScanSegment
    <3>5. UNCHANGED <<files, next_segment_id>>
      BY <3>4 DEF Becomes
    <3>6. ASSUME reader'[r] = s PROVE ReaderInv(r)'
      <4> DEFINE Shown(i) == drop_suppressed(files[i], reader[r].snap.segments[i])
                 last == drop_suppressed(reader[r].snap.memtable, reader[r].snap.suppressed)
      <4>1. Left(r) = reader[r].out \cup (UNION { Shown(i) : i \in reader[r].todo }) \cup last
        BY DEF Left
      <4>2. Left(r)' = (reader[r].out \cup part)
                          \cup (UNION { Shown(i) : i \in reader[r].todo \ {n} }) \cup last
        BY <3>3, <3>5, <3>6 DEF Left
      <4>3. part = Shown(n)
        BY <3>1
      <4> HIDE DEF Shown, last
      <4>4. Left(r)' = Left(r)
        BY <2>2, <4>1, <4>2, <4>3
      <4>5. reader[r].todo \ {n} \subseteq DOMAIN files => reader[r].todo \subseteq DOMAIN files
        BY <2>3
      <4>6. ScanInv(r)'
        BY <1>1, <3>3, <3>4, <3>5, <3>6, <4>4, <4>5 DEF ScanInv, history
      <4> QED
        BY <3>3, <3>6, <4>6 DEF ReaderInv, GetInv, GotInv, ScannedInv, FailInv
    <3> QED
      BY <3>3, <3>4, <3>6, ReaderGoesOn
  <2>4. CASE n \notin DOMAIN files
    <3>1. FailRead(r)
      BY <1>3, <2>1, <2>4 DEF ScanSegment
    <3>2. "compact" \in moved[r]
      BY <1>1, <2>2, <2>4
    <3>3. PICK s : s = [reader[r] EXCEPT !.op = "failed"]
      OBVIOUS
    <3>4. DOMAIN s = Fields /\ s.op = "failed" /\ s.key = None
      BY <1>1, <3>3, ReaderForm
    <3>5. Becomes(r, s) /\ UNCHANGED history
      BY <3>1, <3>3 DEF FailRead
    <3>6. ASSUME reader'[r] = s PROVE ReaderInv(r)'
      BY <3>2, <3>4, <3>5, <3>6
         DEF ReaderInv, GetInv, GotInv, ScanInv, ScannedInv, FailInv, history
    <3> QED
      BY <3>4, <3>5, <3>6, ReaderGoesOn
  <2> QED
    BY <2>3, <2>4
<1> QED
  BY <1>2, <1>3

-----------------------------------------------------------------------------
(* The theorems.                                                           *)

\* The invariant holds throughout.
LEMMA ReadsInvHolds == Spec => []ReadsInv
<1>1. Init => ReadsInv
  <2> SUFFICES ASSUME Init PROVE ReadsInv
    OBVIOUS
  <2>1. TypeInv
    BY DEF Init, TypeInv, Idle, Fields
  <2>2. Live = {} /\ LiveInv
    BY DEF Init, LiveInv, Live
  <2>3. \A r \in Readers : reader[r].op = "idle"
    BY DEF Init, Idle
  <2>4. ReadersInv
    BY <2>3 DEF ReadersInv, ReaderInv, GetInv, GotInv, ScanInv, ScannedInv, FailInv
  <2> QED
    BY <2>1, <2>2, <2>4 DEF ReadsInv
<1>2. ReadsInv /\ [Next]_vars => ReadsInv'
  <2> SUFFICES ASSUME ReadsInv, [Next]_vars PROVE ReadsInv'
    OBVIOUS
  <2>1. CASE Write
    BY <2>1, WriteStep
  <2>2. ASSUME NEW r \in Readers, Read(r) PROVE ReadsInv'
    BY <2>2, LocateStep, LookupStep, SnapshotStep, ScanStep DEF Read
  <2>3. CASE UNCHANGED vars
    <3>1. TypeInv' /\ LiveInv'
      BY <2>3 DEF vars, ReadsInv, TypeInv, LiveInv, Live, RowAt
    <3>2. FilesKept
      BY <2>3 DEF vars, ReadsInv, TypeInv, FilesKept
    <3>3. ReadersInv'
      BY <2>3, <3>2, ReadersUndisturbed DEF vars, ReadsInv
    <3> QED
      BY <3>1, <3>3 DEF ReadsInv
  <2> QED
    BY <2>1, <2>2, <2>3 DEF Next
<1> QED
  BY <1>1, <1>2, PTL DEF Spec

(* A scan that completes returns the table as it was when its snapshot was *)
(* taken, and fails only when a compaction has deleted a file under it     *)
(* (Partition::snapshot, scan_partition).                                  *)
THEOREM ScansAreSnapshots == Spec => []ScanIsSnapshot
<1>1. ReadsInv => ScanIsSnapshot
  BY DEF ReadsInv, ReadersInv, ReaderInv, ScannedInv, FailInv, ScanIsSnapshot, Scanned, Failed
<1> QED
  BY <1>1, ReadsInvHolds, PTL

(* A point lookup that nothing moves rows under returns a value its key    *)
(* had while it ran (TableStore::get).                                     *)
THEOREM UndisturbedGetsAreCurrent == Spec => []GetIsCurrentIfUndisturbed
<1>1. ReadsInv => GetIsCurrentIfUndisturbed
  BY DEF ReadsInv, ReadersInv, ReaderInv, GotInv, FailInv, IsAnswer,
         GetIsCurrentIfUndisturbed, GotRow, Failed, Answer
<1> QED
  BY <1>1, ReadsInvHolds, PTL

(* A point lookup that compactions overlap, and no flush, returns a row of *)
(* its key or none (TableStore::get; segment ids are not reused).          *)
THEOREM UnflushedGetsAreRight == Spec => []GetIsRightUnlessFlushed
<1>1. ReadsInv => GetIsRightUnlessFlushed
  BY DEF ReadsInv, ReadersInv, ReaderInv, GotInv, IsAnswer, GetIsRightUnlessFlushed, GotRow
<1> QED
  BY <1>1, ReadsInvHolds, PTL

=============================================================================
