------------------------------ MODULE WalProofs ------------------------------
(***************************************************************************)
(* Proofs about module Wal, for all frame sizes, payloads, bounds and      *)
(* every subset of the failures: an acknowledged record survives in the    *)
(* file until a checkpoint covers it, and its lsn is never given again.    *)
(*                                                                         *)
(* The one hypothesis is that a payload is shorter than 2^32 bytes: append *)
(* compares and writes the length as a u32 and checks nothing else.        *)
(***************************************************************************)
EXTENDS Wal, FiniteSetTheorems, WellFoundedInduction, TLAPS

PayloadsFit == \A len \in PayloadLens : len < LenMod

-----------------------------------------------------------------------------
(* The inductive invariant.                                                *)

\* Acknowledged lsns are lsns that were given.
LsnInv == acked \subseteq 1 .. MaxLsn

Whole(c) == c.got = FrameHeader + c.len

\* The file while nothing irrecoverable has failed: lsns increase, only the last
\* frame may be torn, and that only while the process is down; what is
\* acknowledged and not checkpointed is a whole frame.
FileInv ==
    /\ writer = "path" /\ status # "refused"
    /\ \A i, j \in DOMAIN log : i < j => log[i].lsn < log[j].lsn
    /\ \A i \in DOMAIN log : log[i].len < LenMod
    /\ \A i \in DOMAIN log : i < Len(log) \/ status = "up" => Whole(log[i])
    /\ status = "up" => /\ \A i \in DOMAIN log : log[i].lsn < next_lsn
                        /\ \A l \in acked : l < next_lsn
                        /\ covered < next_lsn
    /\ \A l \in acked : l > covered =>
          \E i \in DOMAIN log : log[i].lsn = l /\ Whole(log[i])

WalInv == TypeOK /\ LsnInv /\ (Recoverable => FileInv)

-----------------------------------------------------------------------------
(* Least and greatest elements.                                            *)

\* A nonempty set of naturals has a least element, and Min is it.
LEMMA MinIsLeast ==
    ASSUME NEW S, S \subseteq Nat, S # {}
    PROVE  Min(S) \in S /\ \A y \in S : Min(S) <= y
<1>1. IsWellFoundedOn(OpToRel(<, Nat), Nat)
  BY NatLessThanWellFounded
<1>2. PICK x \in S : \A y \in S : ~(<<y, x>> \in OpToRel(<, Nat))
  BY <1>1, WFMin, Zenon
<1>3. ASSUME NEW y \in S PROVE x <= y
  <2>1. <<y, x>> \in Nat \X Nat
    OBVIOUS
  <2>2. ~(y < x)
    BY <1>2, <2>1 DEF OpToRel
  <2> QED
    BY <2>2
<1>4. \E x1 \in S : \A y \in S : x1 <= y
  BY <1>3
<1> QED
  BY <1>4, Zenon DEF Min

\* A nonempty bounded set of naturals has a greatest element, and Max is it.
LEMMA MaxIsGreatest ==
    ASSUME NEW S, NEW n \in Nat, S \subseteq 0 .. n, S # {}
    PROVE  Max(S) \in S /\ \A y \in S : y <= Max(S)
<1> DEFINE T == { n - i : i \in S }
<1>1. T \subseteq Nat /\ T # {}
  <2>1. \A i \in S : i \in 0 .. n /\ n - i \in Nat
    OBVIOUS
  <2> QED
    BY <2>1
<1>2. PICK t \in T : \A u \in T : t <= u
  BY <1>1, MinIsLeast, Zenon
<1>3. PICK x \in S : t = n - x
  OBVIOUS
<1>4. ASSUME NEW y \in S PROVE x >= y
  <2>1. n - y \in T
    OBVIOUS
  <2>2. n - x <= n - y
    BY <1>2, <1>3, <2>1
  <2> QED
    BY <2>2
<1>5. \E x1 \in S : \A y \in S : x1 >= y
  BY <1>4
<1>6. Max(S) \in S /\ \A y \in S : Max(S) >= y
  BY <1>5, Zenon DEF Max
<1> QED
  BY <1>6

\* The greatest acknowledged lsn.
LEMMA MaxAcked ==
    ASSUME LsnInv, acked # {}
    PROVE  Max(acked) \in acked /\ Max(acked) \in Nat /\ \A l \in acked : l <= Max(acked)
<1>1. MaxLsn \in Nat /\ acked \subseteq 0 .. MaxLsn
  BY WalAssumption DEF LsnInv
<1>2. Max(acked) \in acked /\ \A l \in acked : l <= Max(acked)
  BY <1>1, MaxIsGreatest, Zenon
<1>3. \A l \in acked : l \in Nat
  BY <1>1
<1> QED
  BY <1>2, <1>3, Zenon

\* The lsn recovery starts from is at least the checkpoint and the last entry's.
LEMMA LastUsedIs ==
    ASSUME TypeOK, NEW n \in 0 .. Len(log)
    PROVE  /\ LastUsed(n) \in Nat /\ covered <= LastUsed(n)
           /\ n > 0 => log[n].lsn <= LastUsed(n)
<1> DEFINE last == IF n = 0 THEN 0 ELSE log[n].lsn
<1>1. covered \in Nat /\ last \in Nat
  <2>1. n > 0 => log[n] \in Chunk
    BY DEF TypeOK
  <2> QED
    BY <2>1 DEF TypeOK, Chunk
<1> HIDE DEF last
<1>2. PICK m \in Nat : {covered, last} \subseteq 0 .. m
  <2>1. {covered, last} \subseteq 0 .. covered + last /\ covered + last \in Nat
    BY <1>1
  <2> QED
    BY <2>1
<1>3. /\ Max({covered, last}) \in {covered, last}
      /\ \A y \in {covered, last} : y <= Max({covered, last})
  BY <1>2, MaxIsGreatest
<1> QED
  BY <1>1, <1>3 DEF last, LastUsed

-----------------------------------------------------------------------------
(* What scan finds.                                                        *)

\* Chunks have sizes.
LEMMA ChunkIs ==
    ASSUME TypeOK, NEW i \in DOMAIN log
    PROVE  /\ log[i] \in Chunk
           /\ log[i].lsn \in Nat \ {0} /\ log[i].len \in Nat \ {0} /\ log[i].got \in Nat \ {0}
           /\ log[i].got <= FrameHeader + log[i].len
<1>1. log[i] \in Chunk /\ log[i].got <= FrameHeader + log[i].len
  BY DEF TypeOK
<1> QED
  BY <1>1 DEF Chunk

\* The bytes of the last chunk alone.
LEMMA LastUnits ==
    ASSUME NEW n \in Nat, Len(log) = n, log[n].got \in Nat
    PROVE  UnitsFrom(n) = log[n].got
<1> DEFINE S == {n}
           first(s) == CHOOSE x \in s : TRUE
           isSum(h) == h = [s \in SUBSET S |-> IF s = {} THEN 0
                                               ELSE log[first(s)].got + h[s \ {first(s)}]]
           g == [s \in SUBSET S |-> IF s = {} THEN 0 ELSE log[n].got]
<1>1. isSum(g)
  <2>1. \A s \in SUBSET S : s # {} => s = {n} /\ first(s) = n /\ s \ {n} = {}
    OBVIOUS
  <2> QED
    BY <2>1
<1>2. isSum(CHOOSE h : isSum(h))
  <2> HIDE DEF isSum, g
  <2> QED
    BY <1>1
<1>3. (CHOOSE h : isSum(h))[S] = log[n].got
  <2>1. PICK q : q = CHOOSE h : isSum(h)
    OBVIOUS
  <2>2. isSum(q)
    BY <1>2, <2>1, Zenon
  <2>3. q[{}] = 0 /\ q[S] = log[n].got + q[{}]
    BY <2>2
  <2>4. q[S] = log[n].got
    BY <2>3
  <2> QED
    BY <2>1, <2>4, Zenon
<1>4. n .. Len(log) = S
  OBVIOUS
<1> QED
  BY <1>3, <1>4, Zenon DEF UnitsFrom, MapThenSumSet, MapThenFoldSet

\* Whatever is in the file, scan returns a number of leading chunks.
LEMMA ScanTypes ==
    ASSUME TypeOK
    PROVE  \A o \in scan : o.n \in 0 .. Len(log) /\ o.ok \in BOOLEAN
<1> DEFINE bad == { i \in DOMAIN log : ~Intact(log[i]) }
           i   == Min(bad)
<1>1. Len(log) \in Nat /\ DOMAIN log = 1 .. Len(log)
  BY DEF TypeOK
<1>2. bad # {} => i \in 1 .. Len(log)
  <2>1. bad \subseteq Nat
    BY <1>1
  <2> QED
    BY <1>1, <2>1, MinIsLeast
<1>3. scan \subseteq {Good(Len(log)), Corruption}
      \/ (bad # {} /\ scan \subseteq {Good(i - 1), Corruption})
  BY DEF scan
<1> SUFFICES ASSUME NEW o \in scan PROVE o.n \in 0 .. Len(log) /\ o.ok \in BOOLEAN
  OBVIOUS
<1>4. o = Corruption \/ o = Good(Len(log)) \/ (bad # {} /\ o = Good(i - 1))
  BY <1>3
<1> HIDE DEF bad, i
<1>5. CASE o = Corruption
  BY <1>1, <1>5 DEF Corruption
<1>6. CASE o = Good(Len(log))
  BY <1>1, <1>6 DEF Good
<1>7. CASE bad # {} /\ o = Good(i - 1)
  <2>1. i - 1 \in 0 .. Len(log)
    BY <1>1, <1>2, <1>7
  <2> QED
    BY <1>7, <2>1 DEF Good
<1> QED
  BY <1>4, <1>5, <1>6, <1>7

\* In a recoverable file scan finds every whole frame and no corruption.
LEMMA ScanFindsWhole ==
    ASSUME TypeOK, FileInv
    PROVE  \E n \in 0 .. Len(log) :
              /\ scan = {Good(n)}
              /\ \A i \in DOMAIN log : Whole(log[i]) <=> i <= n
<1> DEFINE bad == { i \in DOMAIN log : ~Intact(log[i]) }
           last == Len(log)
<1>1. last \in Nat /\ DOMAIN log = 1 .. last /\ FrameHeader \in Nat \ {0} /\ LenMod \in Nat \ {0}
  BY WalAssumption DEF TypeOK
<1>2. \A i \in DOMAIN log : Declared(log[i]) = log[i].len /\ (Intact(log[i]) <=> Whole(log[i]))
  <2> SUFFICES ASSUME NEW i \in DOMAIN log
               PROVE  Declared(log[i]) = log[i].len /\ (Intact(log[i]) <=> Whole(log[i]))
    OBVIOUS
  <2>1. log[i].len \in Nat /\ log[i].len < LenMod
    BY ChunkIs DEF FileInv
  <2>2. Declared(log[i]) = log[i].len
    BY <1>1, <2>1 DEF Declared
  <2> QED
    BY <2>2 DEF Intact, Whole
<1>3. CASE bad = {}
  <2>1. scan = {Good(last)}
    BY <1>3 DEF scan
  <2> QED
    BY <1>1, <1>2, <1>3, <2>1
<1>4. CASE bad # {}
  <2>1. last \in DOMAIN log /\ bad = {last}
    BY <1>1, <1>2, <1>4 DEF FileInv
  <2>2. Min(bad) = last
    BY <1>1, <2>1, MinIsLeast
  <2>3. UnitsFrom(last) = log[last].got
    BY <1>1, <2>1, ChunkIs, LastUnits
  <2>4. /\ log[last].len \in Nat /\ log[last].got \in Nat
        /\ log[last].got <= FrameHeader + log[last].len
    BY <2>1, ChunkIs
  <2>5. FrameHeader + Declared(log[last]) >= UnitsFrom(last)
    BY <1>1, <1>2, <2>1, <2>3, <2>4
  <2>6. scan = {Good(last - 1)}
    <3>1. CASE UnitsFrom(last) < FrameHeader
      BY <1>4, <2>2, <3>1 DEF scan
    <3>2. CASE ~(UnitsFrom(last) < FrameHeader)
      BY <1>4, <2>2, <2>3, <2>5, <3>2 DEF scan
    <3> QED
      BY <3>1, <3>2
  <2>7. \A i \in DOMAIN log : Whole(log[i]) <=> i <= last - 1
    BY <1>1, <1>2, <2>1
  <2> QED
    BY <1>1, <2>1, <2>6, <2>7
<1> QED
  BY <1>3, <1>4

-----------------------------------------------------------------------------
(* Steps of the file.                                                      *)

\* One frame, or the beginning of one, at the end of the file.
LEMMA FrameWritten ==
    ASSUME TypeOK, NEW len \in PayloadLens, NEW got \in 1 .. FrameHeader + len, WriteFrame(len, got)
    PROVE  /\ log' \in Seq(Chunk)
           /\ \A i \in DOMAIN log' : log'[i].got <= FrameHeader + log'[i].len
           /\ writer = "path" =>
                 /\ Len(log') = Len(log) + 1
                 /\ \A i \in DOMAIN log : log'[i] = log[i]
                 /\ log'[Len(log')].lsn = next_lsn
                 /\ log'[Len(log')].len = len /\ log'[Len(log')].got = got
           /\ writer # "path" => log' = log
<1> DEFINE c == [lsn |-> next_lsn, len |-> len, got |-> got]
<1>1. len \in Nat \ {0} /\ FrameHeader \in Nat \ {0} /\ got \in Nat \ {0}
  BY WalAssumption
<1>2. c \in Chunk /\ c.got <= FrameHeader + c.len
  BY <1>1 DEF TypeOK, Chunk
<1>3. log \in Seq(Chunk) /\ \A i \in DOMAIN log : log[i].got <= FrameHeader + log[i].len
  BY DEF TypeOK
<1>4. CASE writer = "path"
  <2>1. log' = Append(log, c)
    BY <1>4 DEF WriteFrame
  <2>2. c.lsn = next_lsn /\ c.len = len /\ c.got = got
    OBVIOUS
  <2> HIDE DEF c
  <2>3. /\ log' \in Seq(Chunk) /\ Len(log') = Len(log) + 1
        /\ \A i \in DOMAIN log : log'[i] = log[i]
        /\ log'[Len(log')] = c
    BY <1>2, <1>3, <2>1
  <2>4. \A i \in DOMAIN log' : log'[i].got <= FrameHeader + log'[i].len
    <3> SUFFICES ASSUME NEW i \in DOMAIN log'
                 PROVE  log'[i].got <= FrameHeader + log'[i].len
      OBVIOUS
    <3>1. i \in DOMAIN log \/ i = Len(log')
      BY <1>3, <2>3
    <3> QED
      BY <1>2, <1>3, <2>3, <3>1
  <2> QED
    BY <1>4, <2>2, <2>3, <2>4
<1>5. CASE writer # "path"
  BY <1>3, <1>5 DEF WriteFrame
<1> QED
  BY <1>4, <1>5

\* The survivors of a truncation are chunks of the file, in its order.
LEMMA KeptInOrder ==
    ASSUME TypeOK, NEW n \in 0 .. Len(log), NEW kept \in InOrder(Survivors(n)),
           log' = [j \in DOMAIN kept |-> log[kept[j]]]
    PROVE  /\ log' \in Seq(Chunk) /\ Len(log') <= Len(log)
           /\ \A j \in DOMAIN log' : kept[j] \in Survivors(n) /\ log'[j] = log[kept[j]]
           /\ \A i, j \in DOMAIN log' : i < j => kept[i] < kept[j]
<1> DEFINE S == Survivors(n)
<1>1. Len(log) \in Nat /\ log \in Seq(Chunk) /\ S \subseteq 1 .. Len(log)
  BY DEF TypeOK, Survivors
<1>2. /\ IsFiniteSet(S) /\ Cardinality(S) \in Nat /\ Cardinality(S) <= Len(log)
  <2>1. IsFiniteSet(1 .. Len(log)) /\ Cardinality(1 .. Len(log)) = Len(log)
    <3>1. PICK m \in Nat : m = Len(log)
      BY <1>1
    <3>2. IsFiniteSet(1 .. m) /\ Cardinality(1 .. m) = m
      BY FS_Interval
    <3> QED
      BY <3>1, <3>2
  <2>2. IsFiniteSet(S) /\ Cardinality(S) <= Len(log)
    BY <1>1, <2>1, FS_Subset
  <2> QED
    BY <2>2, FS_CardinalityType
<1> HIDE DEF S
<1>3. /\ DOMAIN kept = 1 .. Cardinality(S) /\ \A j \in DOMAIN kept : kept[j] \in S
      /\ \A i, j \in DOMAIN kept : i < j => kept[i] < kept[j]
  BY DEF InOrder, S
<1>4. DOMAIN log' = 1 .. Cardinality(S) /\ \A j \in DOMAIN log' : log'[j] = log[kept[j]]
  BY <1>3
<1>5. \A j \in DOMAIN log' : log'[j] \in Chunk
  <2>1. \A i \in S : log[i] \in Chunk
    BY <1>1
  <2> QED
    BY <1>3, <1>4, <2>1
<1>6. log' \in Seq(Chunk) /\ Len(log') = Cardinality(S)
  BY <1>2, <1>4, <1>5
<1> QED
  BY <1>2, <1>3, <1>4, <1>6 DEF S

\* Types, and the range of acknowledged lsns, through every step.
LEMMA TypeStep ==
    ASSUME TypeOK, LsnInv, [Next]_vars
    PROVE  TypeOK' /\ LsnInv'
<1>1. MaxLsn \in Nat /\ FrameHeader \in Nat \ {0} /\ \A len \in PayloadLens : len \in Nat \ {0}
  BY WalAssumption
<1>2. ASSUME NEW len \in PayloadLens, AppendRecord(len)
      PROVE  TypeOK' /\ LsnInv'
  <2>1. log' = log \/ \E got \in 1 .. FrameHeader + len : WriteFrame(len, got)
    <3>1. FrameHeader + len \in 1 .. FrameHeader + len
          /\ 1 .. FrameHeader + len - 1 \subseteq 1 .. FrameHeader + len
      BY <1>1
    <3> QED
      BY <1>2, <3>1 DEF AppendRecord
  <2>2. log' \in Seq(Chunk) /\ \A i \in DOMAIN log' : log'[i].got <= FrameHeader + log'[i].len
    BY <2>1, FrameWritten DEF TypeOK
  <2>3. next_lsn <= MaxLsn /\ next_lsn' = next_lsn + 1 /\ acked' \subseteq acked \cup {next_lsn}
    BY <1>2 DEF AppendRecord, TakeLsn
  <2>4. failed' \subseteq Faults
    BY <1>2 DEF AppendRecord, Fail, TypeOK
  <2>5. UNCHANGED <<writer, status, crashes, covered>>
    BY <1>2 DEF AppendRecord
  <2>6. next_lsn \in 1 .. MaxLsn
    BY <1>1, <2>3 DEF TypeOK
  <2>7. acked' \subseteq 1 .. MaxLsn
    BY <2>3, <2>6 DEF LsnInv
  <2> QED
    BY <2>2, <2>3, <2>4, <2>5, <2>7 DEF TypeOK, LsnInv
<1>3. ASSUME NEW len \in PayloadLens, AppendOversized(len)
      PROVE  TypeOK' /\ LsnInv'
  BY <1>3 DEF AppendOversized, TakeLsn, TypeOK, LsnInv
<1>4. CASE TruncatePrefix
  <2>1. PICK o \in scan : \E kept \in InOrder(Survivors(o.n)) :
            log' = [j \in DOMAIN kept |-> log[kept[j]]]
    BY <1>4 DEF TruncatePrefix
  <2>2. o.n \in 0 .. Len(log)
    BY ScanTypes
  <2>3. PICK kept \in InOrder(Survivors(o.n)) : log' = [j \in DOMAIN kept |-> log[kept[j]]]
    BY <2>1
  <2>4. /\ log' \in Seq(Chunk)
        /\ \A j \in DOMAIN log' : kept[j] \in Survivors(o.n) /\ log'[j] = log[kept[j]]
    BY <2>2, <2>3, KeptInOrder
  <2>5. \A i \in Survivors(o.n) : i \in DOMAIN log
    BY <2>2 DEF Survivors, TypeOK
  <2>6. \A i \in DOMAIN log' : log'[i].got <= FrameHeader + log'[i].len
    BY <2>4, <2>5 DEF TypeOK
  <2>7. /\ covered' = Max(acked) /\ acked # {} /\ writer' \in {"path", "unlinked"}
        /\ failed' \subseteq Faults /\ UNCHANGED <<next_lsn, status, crashes, acked>>
    BY <1>4 DEF TruncatePrefix, Fail, TypeOK
  <2>8. covered' \in Nat
    BY <2>7, MaxAcked
  <2> QED
    BY <2>4, <2>6, <2>7, <2>8 DEF TypeOK, LsnInv
<1>5. CASE Crash
  <2>1. log' = log \/ \E len \in PayloadLens : \E got \in 1 .. FrameHeader + len : WriteFrame(len, got)
    BY <1>5 DEF Crash
  <2>2. log' \in Seq(Chunk) /\ \A i \in DOMAIN log' : log'[i].got <= FrameHeader + log'[i].len
    BY <2>1, FrameWritten DEF TypeOK
  <2> QED
    BY <1>5, <2>2 DEF Crash, TypeOK, LsnInv
<1>6. CASE Open
  <2>1. PICK o \in scan : IF o.ok
                          THEN /\ status' = "up" /\ writer' = "path" /\ log' = CutTail(o.n)
                               /\ next_lsn' = LastUsed(o.n) + 1
                          ELSE status' = "refused" /\ UNCHANGED <<log, writer, next_lsn>>
    BY <1>6 DEF Open
  <2>2. o.n \in 0 .. Len(log) /\ UNCHANGED <<crashes, failed, acked, covered>>
    BY <1>6, ScanTypes DEF Open
  <2>3. CASE o.ok
    <3>1. LastUsed(o.n) \in Nat
      BY <2>2, LastUsedIs
    <3>2. log \in Seq(Chunk) /\ Len(log) \in Nat
      BY DEF TypeOK
    <3>3. log' = SubSeq(log, 1, o.n)
      BY <2>1, <2>3 DEF CutTail
    <3>4. /\ log' \in Seq(Chunk) /\ DOMAIN log' \subseteq DOMAIN log
          /\ \A i \in DOMAIN log' : log'[i] = log[i]
      <4>1. PICK n \in 0 .. Len(log) : n = o.n
        BY <2>2
      <4>2. log' \in Seq(Chunk) /\ Len(log') = n /\ \A i \in 1 .. n : log'[i] = log[i]
        BY <3>2, <3>3, <4>1
      <4> QED
        BY <3>2, <4>2
    <3> QED
      BY <2>1, <2>2, <2>3, <3>1, <3>4 DEF TypeOK, LsnInv
  <2>4. CASE ~o.ok
    BY <2>1, <2>2, <2>4 DEF TypeOK, LsnInv
  <2> QED
    BY <2>3, <2>4
<1>7. CASE UNCHANGED vars
  BY <1>7 DEF vars, TypeOK, LsnInv
<1> QED
  BY <1>2, <1>3, <1>4, <1>5, <1>6, <1>7 DEF Next

\* The file after a whole record was appended, acknowledged or not.
LEMMA AppendKeepsFile ==
    ASSUME PayloadsFit, TypeOK, LsnInv, FileInv, NEW len \in PayloadLens, AppendRecord(len), Recoverable'
    PROVE  FileInv'
<1>1. /\ FrameHeader \in Nat \ {0} /\ len \in Nat \ {0} /\ len < LenMod
      /\ FrameHeader + len \in 1 .. FrameHeader + len
  BY WalAssumption DEF PayloadsFit
<1>2. /\ status = "up" /\ UNCHANGED <<writer, status, covered>>
      /\ next_lsn' = next_lsn + 1 /\ acked' \subseteq acked \cup {next_lsn}
      /\ WriteFrame(len, FrameHeader + len)
  BY DEF AppendRecord, TakeLsn, Fail, Recoverable
<1>3. /\ writer = "path" /\ log' \in Seq(Chunk) /\ log \in Seq(Chunk)
      /\ Len(log') = Len(log) + 1 /\ Len(log) \in Nat
      /\ \A i \in DOMAIN log : log'[i] = log[i]
      /\ log'[Len(log')].lsn = next_lsn /\ log'[Len(log')].len = len
      /\ log'[Len(log')].got = FrameHeader + len
  BY <1>1, <1>2, FrameWritten DEF FileInv, TypeOK
<1>4. /\ next_lsn \in Nat /\ covered \in Nat
      /\ \A l \in acked : l \in Nat
      /\ \A i \in DOMAIN log : log[i].lsn \in Nat /\ log[i].lsn < next_lsn
      /\ covered < next_lsn /\ \A l \in acked : l < next_lsn
  BY <1>2, ChunkIs DEF TypeOK, FileInv
<1>5. \A i \in DOMAIN log' : i \in DOMAIN log \/ i = Len(log')
  BY <1>3
<1>6. \A i, j \in DOMAIN log' : i < j => log'[i].lsn < log'[j].lsn
  <2> SUFFICES ASSUME NEW i \in DOMAIN log', NEW j \in DOMAIN log', i < j
               PROVE  log'[i].lsn < log'[j].lsn
    OBVIOUS
  <2>1. i \in DOMAIN log
    BY <1>3
  <2>2. CASE j \in DOMAIN log
    BY <1>3, <2>1, <2>2 DEF FileInv
  <2>3. CASE j = Len(log')
    BY <1>3, <1>4, <2>1, <2>3
  <2> QED
    BY <1>5, <2>2, <2>3
<1>7. \A i \in DOMAIN log' : /\ log'[i].len < LenMod /\ Whole(log'[i])
                             /\ log'[i].lsn < next_lsn'
  <2> SUFFICES ASSUME NEW i \in DOMAIN log'
               PROVE  /\ log'[i].len < LenMod /\ Whole(log'[i])
                      /\ log'[i].lsn < next_lsn'
    OBVIOUS
  <2>1. CASE i \in DOMAIN log
    BY <1>2, <1>3, <1>4, <2>1 DEF FileInv, Whole
  <2>2. CASE i = Len(log')
    BY <1>1, <1>2, <1>3, <1>4, <2>2 DEF Whole
  <2> QED
    BY <1>5, <2>1, <2>2
<1>8. \A l \in acked' : l > covered => \E i \in DOMAIN log' : log'[i].lsn = l /\ Whole(log'[i])
  <2> SUFFICES ASSUME NEW l \in acked', l > covered
               PROVE  \E i \in DOMAIN log' : log'[i].lsn = l
    BY <1>7
  <2>1. CASE l \in acked
    <3>1. PICK i \in DOMAIN log : log[i].lsn = l
      BY <2>1 DEF FileInv
    <3>2. i \in DOMAIN log' /\ log'[i].lsn = l
      BY <1>3, <3>1
    <3> QED
      BY <3>2
  <2>2. CASE l = next_lsn
    BY <1>3, <2>2
  <2> QED
    BY <1>2, <2>1, <2>2
<1>9. covered < next_lsn' /\ \A l \in acked' : l < next_lsn'
  BY <1>2, <1>4
<1> QED
  BY <1>2, <1>3, <1>6, <1>7, <1>8, <1>9 DEF FileInv, Whole

\* Truncation drops only what the checkpoint covers.
LEMMA TruncateKeepsFile ==
    ASSUME TypeOK, LsnInv, FileInv, TruncatePrefix, Recoverable'
    PROVE  FileInv'
<1>1. /\ status = "up" /\ acked # {} /\ covered' = Max(acked) /\ writer' = "path"
      /\ UNCHANGED <<next_lsn, status, acked>>
  BY DEF TruncatePrefix, Fail, Recoverable
<1>2. PICK o \in scan : \E kept \in InOrder(Survivors(o.n)) :
          log' = [j \in DOMAIN kept |-> log[kept[j]]]
  BY DEF TruncatePrefix
<1>3. o.n \in 0 .. Len(log)
  BY ScanTypes
<1>4. PICK kept \in InOrder(Survivors(o.n)) : log' = [j \in DOMAIN kept |-> log[kept[j]]]
  BY <1>2
<1>5. /\ \A j \in DOMAIN log' : kept[j] \in Survivors(o.n) /\ log'[j] = log[kept[j]]
      /\ \A i, j \in DOMAIN log' : i < j => kept[i] < kept[j]
  BY <1>3, <1>4, KeptInOrder
<1>6. \A i \in Survivors(o.n) : i \in DOMAIN log
  BY <1>3 DEF Survivors, TypeOK
<1>7. \A l \in acked : l <= Max(acked) /\ l \in Nat /\ Max(acked) \in acked /\ Max(acked) \in Nat
  BY <1>1, MaxAcked DEF TypeOK
<1>8. \A i, j \in DOMAIN log' : i < j => log'[i].lsn < log'[j].lsn
  BY <1>5, <1>6 DEF FileInv
<1>9. \A i \in DOMAIN log' : log'[i].len < LenMod /\ Whole(log'[i]) /\ log'[i].lsn < next_lsn
  BY <1>1, <1>5, <1>6 DEF FileInv
<1>10. covered' < next_lsn /\ \A l \in acked : l < next_lsn
  BY <1>1, <1>7 DEF FileInv
<1>11. \A l \in acked : ~(l > covered')
  BY <1>1, <1>7
<1> QED
  BY <1>1, <1>8, <1>9, <1>10, <1>11 DEF FileInv, Whole

\* A crash leaves at most a torn last frame, or a whole one nobody was told of.
LEMMA CrashKeepsFile ==
    ASSUME PayloadsFit, TypeOK, FileInv, Crash
    PROVE  FileInv'
<1>1. status = "up" /\ status' = "down" /\ UNCHANGED <<writer, next_lsn, acked, covered>>
  BY DEF Crash
<1>2. CASE log' = log
  BY <1>1, <1>2 DEF FileInv, Whole
<1>3. ASSUME NEW len \in PayloadLens, NEW got \in 1 .. FrameHeader + len, WriteFrame(len, got)
      PROVE  FileInv'
  <2>1. len < LenMod
    BY DEF PayloadsFit
  <2>2. /\ writer = "path" /\ log' \in Seq(Chunk) /\ log \in Seq(Chunk)
        /\ Len(log') = Len(log) + 1 /\ Len(log) \in Nat
        /\ \A i \in DOMAIN log : log'[i] = log[i]
        /\ log'[Len(log')].lsn = next_lsn /\ log'[Len(log')].len = len
    BY <1>3, FrameWritten DEF FileInv, TypeOK
  <2>3. \A i \in DOMAIN log' : i \in DOMAIN log \/ i = Len(log')
    BY <2>2
  <2>4. \A i \in DOMAIN log : log[i].lsn < next_lsn /\ Whole(log[i]) /\ log[i].len < LenMod
    BY <1>1 DEF FileInv
  <2>5. \A i, j \in DOMAIN log' : i < j => log'[i].lsn < log'[j].lsn
    <3> SUFFICES ASSUME NEW i \in DOMAIN log', NEW j \in DOMAIN log', i < j
                 PROVE  log'[i].lsn < log'[j].lsn
      OBVIOUS
    <3>1. i \in DOMAIN log
      BY <2>2
    <3>2. CASE j \in DOMAIN log
      BY <2>2, <3>1, <3>2 DEF FileInv
    <3>3. CASE j = Len(log')
      BY <2>2, <2>4, <3>1, <3>3
    <3> QED
      BY <2>3, <3>2, <3>3
  <2>6. \A i \in DOMAIN log' : log'[i].len < LenMod /\ (i < Len(log') => Whole(log'[i]))
    <3> SUFFICES ASSUME NEW i \in DOMAIN log'
                 PROVE  log'[i].len < LenMod /\ (i < Len(log') => Whole(log'[i]))
      OBVIOUS
    <3>1. CASE i \in DOMAIN log
      BY <2>2, <2>4, <3>1
    <3>2. CASE i = Len(log')
      BY <2>1, <2>2, <3>2
    <3> QED
      BY <2>3, <3>1, <3>2
  <2>7. \A l \in acked : l > covered => \E i \in DOMAIN log' : log'[i].lsn = l /\ Whole(log'[i])
    <3> SUFFICES ASSUME NEW l \in acked, l > covered
                 PROVE  \E i \in DOMAIN log' : log'[i].lsn = l /\ Whole(log'[i])
      OBVIOUS
    <3>1. PICK i \in DOMAIN log : log[i].lsn = l /\ Whole(log[i])
      BY DEF FileInv
    <3>2. i \in DOMAIN log' /\ log'[i] = log[i]
      BY <2>2, <3>1
    <3> QED
      BY <3>1, <3>2
  <2> QED
    BY <1>1, <2>2, <2>5, <2>6, <2>7 DEF FileInv, Whole
<1> QED
  BY <1>2, <1>3 DEF Crash

\* Opening cuts the torn tail and goes on above every lsn that was acknowledged.
LEMMA OpenKeepsFile ==
    ASSUME TypeOK, FileInv, Open
    PROVE  FileInv'
<1>1. PICK n \in 0 .. Len(log) : /\ scan = {Good(n)}
                                 /\ \A i \in DOMAIN log : Whole(log[i]) <=> i <= n
  BY ScanFindsWhole
<1>2. /\ status' = "up" /\ writer' = "path" /\ log' = SubSeq(log, 1, n)
      /\ next_lsn' = LastUsed(n) + 1 /\ UNCHANGED <<acked, covered>>
  BY <1>1 DEF Open, Good, CutTail
<1>3. log \in Seq(Chunk) /\ Len(log) \in Nat
  BY DEF TypeOK
<1>4. DOMAIN log' = 1 .. n /\ \A i \in 1 .. n : i \in DOMAIN log /\ log'[i] = log[i]
  BY <1>2, <1>3
<1>5. LastUsed(n) \in Nat /\ covered <= LastUsed(n) /\ (n > 0 => log[n].lsn <= LastUsed(n))
  BY LastUsedIs
<1>6. \A i \in 1 .. n : log[i].lsn \in Nat /\ log[i].lsn <= LastUsed(n)
  <2> SUFFICES ASSUME NEW i \in 1 .. n PROVE log[i].lsn \in Nat /\ log[i].lsn <= LastUsed(n)
    OBVIOUS
  <2>1. n > 0 /\ n \in DOMAIN log /\ i \in DOMAIN log
    BY <1>3
  <2>2. log[i].lsn \in Nat /\ log[n].lsn \in Nat
    BY <2>1, ChunkIs
  <2>3. i = n \/ log[i].lsn < log[n].lsn
    BY <2>1 DEF FileInv
  <2> QED
    BY <1>5, <2>1, <2>2, <2>3
<1>7. ASSUME NEW l \in acked, l > covered
      PROVE  \E i \in 1 .. n : log[i].lsn = l /\ Whole(log[i])
  <2>1. PICK i \in DOMAIN log : log[i].lsn = l /\ Whole(log[i])
    BY <1>7 DEF FileInv
  <2>2. i \in 1 .. n
    BY <1>1, <1>3, <2>1
  <2> QED
    BY <2>1, <2>2
<1>8. covered < next_lsn' /\ covered \in Nat
  BY <1>2, <1>5 DEF TypeOK
<1>9. ASSUME NEW l \in acked
      PROVE  l < next_lsn'
  <2>1. l \in Nat /\ covered \in Nat
    BY DEF TypeOK
  <2>2. CASE l > covered
    BY <1>2, <1>5, <1>6, <1>7, <2>1, <2>2
  <2>3. CASE ~(l > covered)
    BY <1>2, <1>5, <2>1, <2>3
  <2> QED
    BY <2>2, <2>3
<1>10. \A i \in DOMAIN log' : log'[i].len < LenMod /\ Whole(log'[i]) /\ log'[i].lsn < next_lsn'
  BY <1>1, <1>2, <1>4, <1>5, <1>6 DEF FileInv
<1>11. \A i, j \in DOMAIN log' : i < j => log'[i].lsn < log'[j].lsn
  BY <1>4 DEF FileInv
<1>12. \A l \in acked : l > covered => \E i \in DOMAIN log' : log'[i].lsn = l /\ Whole(log'[i])
  BY <1>4, <1>7
<1> QED
  BY <1>2, <1>8, <1>9, <1>10, <1>11, <1>12 DEF FileInv, Whole

\* The invariant is inductive.
LEMMA WalInvInductive ==
    ASSUME PayloadsFit
    PROVE  /\ Init => WalInv
           /\ WalInv /\ [Next]_vars => WalInv'
<1>1. Init => WalInv
  <2> SUFFICES ASSUME Init PROVE WalInv
    OBVIOUS
  <2>1. DOMAIN log = {} /\ log \in Seq(Chunk)
    BY DEF Init
  <2>2. TypeOK
    BY <2>1 DEF Init, TypeOK
  <2>3. LsnInv /\ FileInv
    BY <2>1 DEF Init, LsnInv, FileInv
  <2> QED
    BY <2>2, <2>3 DEF WalInv
<1>2. ASSUME WalInv, [Next]_vars PROVE WalInv'
  <2>1. TypeOK' /\ LsnInv' /\ TypeOK /\ LsnInv
    BY <1>2, TypeStep DEF WalInv
  <2>2. ASSUME Recoverable' PROVE FileInv'
    <3>1. failed \subseteq failed'
      BY <1>2 DEF Next, AppendRecord, AppendOversized, TruncatePrefix, Crash, Open, Fail, vars
    <3>2. FileInv
      BY <1>2, <2>2, <3>1 DEF WalInv, Recoverable
    <3>3. ASSUME NEW len \in PayloadLens, AppendRecord(len)
          PROVE  FileInv'
      BY <2>1, <2>2, <3>2, <3>3, AppendKeepsFile
    <3>4. ASSUME NEW len \in PayloadLens, AppendOversized(len)
          PROVE  FileInv'
      BY <2>1, <3>2, <3>4, ChunkIs DEF AppendOversized, TakeLsn, FileInv, Whole, TypeOK
    <3>5. CASE TruncatePrefix
      BY <2>1, <2>2, <3>2, <3>5, TruncateKeepsFile
    <3>6. CASE Crash
      BY <2>1, <3>2, <3>6, CrashKeepsFile
    <3>7. CASE Open
      BY <2>1, <3>2, <3>7, OpenKeepsFile
    <3>8. CASE UNCHANGED vars
      BY <3>2, <3>8 DEF vars, FileInv, Whole
    <3> QED
      BY <1>2, <3>3, <3>4, <3>5, <3>6, <3>7, <3>8 DEF Next
  <2> QED
    BY <2>1, <2>2 DEF WalInv
<1> QED
  BY <1>1, <1>2

-----------------------------------------------------------------------------
(* Theorems.                                                               *)

\* At every instant, through crashes in the middle of appends, failed fsyncs and
\* truncations, FileLogStore::open succeeds on the file and returns every record
\* whose append was acknowledged and that no checkpoint covers, as long as no
\* write stopped half way and every truncated log could be reopened.
THEOREM AcknowledgedSurvive ==
    ASSUME PayloadsFit
    PROVE  Spec => []AckedSurvive
<1>1. WalInv => AckedSurvive
  <2> SUFFICES ASSUME WalInv, Recoverable, NEW o \in scan
               PROVE  /\ o.ok
                      /\ \A l \in acked : l > covered => \E i \in 1 .. o.n : log[i].lsn = l
    BY DEF AckedSurvive
  <2>1. PICK n \in 0 .. Len(log) : /\ scan = {Good(n)}
                                   /\ \A i \in DOMAIN log : Whole(log[i]) <=> i <= n
    BY ScanFindsWhole DEF WalInv
  <2>2. o.ok /\ o.n = n
    BY <2>1 DEF Good
  <2>3. DOMAIN log = 1 .. Len(log) /\ Len(log) \in Nat
    BY DEF WalInv, TypeOK
  <2>4. \A l \in acked : l > covered => \E i \in DOMAIN log : log[i].lsn = l /\ i <= n
    BY <2>1 DEF WalInv, FileInv
  <2> QED
    BY <2>2, <2>3, <2>4
<1>2. /\ Init => WalInv
      /\ WalInv /\ [Next]_vars => WalInv'
  BY WalInvInductive
<1> QED
  BY <1>1, <1>2, PTL DEF Spec

\* The lsn of a record in the file was never acknowledged before and is above the
\* checkpoint, also after truncation emptied the log and the process restarted
\* (advance_to): recovery never takes a new record for a flushed one.
THEOREM AcknowledgedLsnsAreFresh ==
    ASSUME PayloadsFit
    PROVE  Spec => AckedLsnNotReused
<1>1. WalInv /\ [Next]_vars =>
        [Len(log') > Len(log) /\ Recoverable =>
            log'[Len(log')].lsn \notin acked /\ log'[Len(log')].lsn > covered]_vars
  <2> SUFFICES ASSUME WalInv, Next, Len(log') > Len(log), Recoverable
               PROVE  log'[Len(log')].lsn \notin acked /\ log'[Len(log')].lsn > covered
    OBVIOUS
  <2>1. TypeOK /\ LsnInv /\ FileInv /\ Len(log) \in Nat
    BY DEF WalInv, TypeOK
  <2>2. ASSUME NEW len \in PayloadLens, NEW got \in 1 .. FrameHeader + len,
               WriteFrame(len, got), status = "up"
        PROVE  log'[Len(log')].lsn \notin acked /\ log'[Len(log')].lsn > covered
    <3>1. log'[Len(log')].lsn = next_lsn
      BY <2>1, <2>2, FrameWritten DEF FileInv
    <3>2. covered < next_lsn /\ \A l \in acked : l < next_lsn
      BY <2>1, <2>2 DEF FileInv
    <3>3. next_lsn \in Nat /\ covered \in Nat
      BY <2>1 DEF TypeOK
    <3> QED
      BY <3>1, <3>2, <3>3
  <2>3. log' # log
    BY <2>1
  <2>4. ASSUME NEW len \in PayloadLens, AppendRecord(len)
        PROVE  status = "up" /\ \E got \in 1 .. FrameHeader + len : WriteFrame(len, got)
    <3>1. FrameHeader + len \in 1 .. FrameHeader + len
          /\ 1 .. FrameHeader + len - 1 \subseteq 1 .. FrameHeader + len
      BY WalAssumption
    <3> QED
      BY <2>3, <2>4, <3>1 DEF AppendRecord
  <2>5. ASSUME TruncatePrefix
        PROVE  FALSE
    <3>1. PICK o \in scan : \E kept \in InOrder(Survivors(o.n)) :
              log' = [j \in DOMAIN kept |-> log[kept[j]]]
      BY <2>5 DEF TruncatePrefix
    <3>2. o.n \in 0 .. Len(log)
      BY <2>1, ScanTypes
    <3>3. Len(log') <= Len(log)
      BY <2>1, <3>1, <3>2, KeptInOrder
    <3>4. Len(log') \in Nat
      BY <2>1, TypeStep DEF TypeOK
    <3> QED
      BY <2>1, <3>3, <3>4
  <2>6. ASSUME Open
        PROVE  FALSE
    <3>1. PICK n \in 0 .. Len(log) : scan = {Good(n)}
      BY <2>1, ScanFindsWhole
    <3>2. log' = SubSeq(log, 1, n) /\ log \in Seq(Chunk)
      BY <2>1, <2>6, <3>1 DEF Open, Good, CutTail, TypeOK
    <3>3. Len(log') = n
      BY <3>2
    <3> QED
      BY <2>1, <3>3
  <2>7. ASSUME NEW len \in PayloadLens, AppendOversized(len)
        PROVE  FALSE
    BY <2>3, <2>7 DEF AppendOversized
  <2>8. CASE Crash
    BY <2>2, <2>3, <2>8 DEF Crash
  <2> QED
    BY <2>2, <2>4, <2>5, <2>6, <2>7, <2>8 DEF Next
<1>2. /\ Init => WalInv
      /\ WalInv /\ [Next]_vars => WalInv'
  BY WalInvInductive
<1> QED
  BY <1>1, <1>2, PTL DEF Spec, AckedLsnNotReused

==============================================================================
