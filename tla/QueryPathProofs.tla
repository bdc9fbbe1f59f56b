-------------------------- MODULE QueryPathProofs ---------------------------
(***************************************************************************)
(* The theorems of module QueryPath, for every table, every content of it  *)
(* and every request, whatever the number of partitions:                   *)
(*   - WorkIsFinite: each step uses up some of a finite amount of work;    *)
(*   - ReadsAreCharged: the threads together stay within the byte budget;  *)
(*   - SkippedSegmentsHoldNothing: what is skipped on its statistics has   *)
(*     no row the filter is true of.                                       *)
(*                                                                         *)
(* The last one follows a request through every stage.  What translate     *)
(* makes of a question is a plan request, what to_ir makes of a request is *)
(* a query, what validate lets through compares columns with constants of  *)
(* their types, what build makes of it is renamed to the columns of the    *)
(* table, and of such a filter the atoms are right about the statistics.   *)
(* A function that recurses over an expression, the words of a question or *)
(* the nodes of a plan is taken as a sequence of layers (IsLayers, IsWalk, *)
(* IsPass...) that some lemma says exists, and that satisfies the equation *)
(* of the recursion at each layer.                                         *)
(***************************************************************************)
EXTENDS QueryPath, FiniteSetTheorems, WellFoundedInduction, TLAPS

-----------------------------------------------------------------------------
(* Induction up to a number, by a set.                                     *)

\* A nonempty set of naturals has a least element.
LEMMA LeastExists ==
    ASSUME NEW S, S \subseteq Nat, S # {}
    PROVE  \E n \in S : \A k \in S : n <= k
<1>1. PICK n \in S : \A k \in S : ~(<<k, n>> \in OpToRel(<, Nat))
  BY NatLessThanWellFounded, WFMin, Zenon
<1>2. ASSUME NEW k \in S PROVE n <= k
  <2>1. <<k, n>> \in Nat \X Nat
    OBVIOUS
  <2> QED
    BY <1>1, <2>1 DEF OpToRel
<1> QED
  BY <1>2

\* What holds of 0 and of every successor up to N holds up to N.
LEMMA UpTo ==
    ASSUME NEW N \in Nat, NEW S, 0 \in S, \A n \in 0..(N - 1) : n \in S => n + 1 \in S
    PROVE  0..N \subseteq S
<1> DEFINE Bad == { n \in 0..N : n \notin S }
<1>1. SUFFICES ASSUME Bad # {} PROVE FALSE
  OBVIOUS
<1>2. PICK n \in Bad : \A k \in Bad : n <= k
  <2>1. Bad \subseteq Nat
    OBVIOUS
  <2> QED
    BY <1>1, <2>1, LeastExists, Zenon
<1>3. n # 0 /\ n - 1 \in 0..(N - 1) /\ n - 1 \notin Bad
  BY <1>2
<1>4. n - 1 \in S
  BY <1>3
<1>5. (n - 1) + 1 \in S
  BY <1>3, <1>4
<1> QED
  BY <1>2, <1>5

\* The sequences over what they hold.
LEMMA SequenceIs ==
    ASSUME NEW s
    PROVE  /\ IsSequence(s) => Len(s) \in Nat /\ DOMAIN s = 1..Len(s) /\ s \in [1..Len(s) -> ToSet(s)]
           /\ \A D : s \in Seq(D) => IsSequence(s) /\ ToSet(s) \subseteq D
<1>1. ASSUME NEW D, s \in Seq(D)
      PROVE  IsSequence(s) /\ ToSet(s) \subseteq D
  <2>1. Len(s) \in Nat /\ DOMAIN s = 1..Len(s) /\ s = [i \in 1..Len(s) |-> s[i]]
    BY <1>1
  <2>2. \A i \in 1..Len(s) : s[i] \in ToSet(s) /\ s[i] \in D
    BY <1>1, <2>1 DEF ToSet
  <2>3. s \in Seq(ToSet(s))
    BY <2>1, <2>2
  <2>4. ToSet(s) \subseteq D
    BY <2>1, <2>2 DEF ToSet
  <2> QED
    BY <2>3, <2>4 DEF IsSequence
<1>2. IsSequence(s) => Len(s) \in Nat /\ DOMAIN s = 1..Len(s) /\ s \in [1..Len(s) -> ToSet(s)]
  BY DEF IsSequence
<1> QED
  BY <1>1, <1>2

\* A function on 1..n is a sequence of length n.
LEMMA MakesSequence ==
    ASSUME NEW n \in Nat, NEW s, s = [i \in 1..n |-> s[i]]
    PROVE  IsSequence(s) /\ Len(s) = n /\ DOMAIN s = 1..n /\ ToSet(s) = {s[i] : i \in 1..n}
<1>1. DOMAIN s = 1..n
  BY Zenon
<1>2. ToSet(s) = {s[i] : i \in 1..n}
  BY <1>1 DEF ToSet
<1>3. s \in [1..n -> ToSet(s)]
  BY <1>1, <1>2
<1>4. s \in Seq(ToSet(s)) /\ Len(s) = n
  BY <1>1, <1>3
<1> QED
  BY <1>1, <1>2, <1>4 DEF IsSequence

\* A concatenation is a sequence: the one, then the other.
LEMMA Concatenates ==
    ASSUME NEW a, NEW b, IsSequence(a), IsSequence(b)
    PROVE  /\ IsSequence(a \o b) /\ Len(a \o b) = Len(a) + Len(b)
           /\ DOMAIN (a \o b) = 1..(Len(a) + Len(b))
           /\ \A i \in 1..Len(a) : (a \o b)[i] = a[i]
           /\ \A i \in 1..Len(b) : (a \o b)[Len(a) + i] = b[i]
           /\ \A i \in DOMAIN (a \o b) : i \in 1..Len(a) \/ i - Len(a) \in 1..Len(b)
           /\ ToSet(a \o b) = ToSet(a) \cup ToSet(b)
<1> DEFINE D == ToSet(a) \cup ToSet(b)
<1>1. a \in Seq(D) /\ b \in Seq(D)
  <2>1. /\ Len(a) \in Nat /\ a \in [1..Len(a) -> ToSet(a)]
        /\ Len(b) \in Nat /\ b \in [1..Len(b) -> ToSet(b)]
    BY SequenceIs
  <2>2. a \in [1..Len(a) -> D] /\ b \in [1..Len(b) -> D]
    BY <2>1
  <2> HIDE DEF D
  <2> QED
    BY <2>1, <2>2
<1> HIDE DEF D
<1>2. a \o b \in Seq(D) /\ Len(a \o b) = Len(a) + Len(b) /\ DOMAIN (a \o b) = 1..(Len(a) + Len(b))
  BY <1>1
<1>3. /\ \A i \in 1..Len(a) : (a \o b)[i] = a[i]
      /\ \A i \in 1..Len(b) : (a \o b)[Len(a) + i] = b[i]
      /\ \A i \in DOMAIN (a \o b) : i \in 1..Len(a) \/ i - Len(a) \in 1..Len(b)
  BY <1>1, <1>2
<1>4. DOMAIN a = 1..Len(a) /\ DOMAIN b = 1..Len(b) /\ Len(a) \in Nat /\ Len(b) \in Nat
  BY <1>1
<1>5. ToSet(a \o b) = ToSet(a) \cup ToSet(b)
  <2>1. ASSUME NEW e \in ToSet(a \o b) PROVE e \in ToSet(a) \cup ToSet(b)
    <3>1. PICK i \in DOMAIN (a \o b) : e = (a \o b)[i]
      BY DEF ToSet
    <3>2. CASE i \in 1..Len(a)
      BY <1>3, <1>4, <3>1, <3>2 DEF ToSet
    <3>3. CASE i - Len(a) \in 1..Len(b)
      <4>1. i = Len(a) + (i - Len(a))
        BY <1>2, <1>4, <3>1
      <4> QED
        BY <1>3, <1>4, <3>1, <3>3, <4>1 DEF ToSet
    <3> QED
      BY <1>3, <3>1, <3>2, <3>3
  <2>2. ASSUME NEW e \in ToSet(a) PROVE e \in ToSet(a \o b)
    <3>1. PICK i \in 1..Len(a) : e = a[i]
      BY <1>4 DEF ToSet
    <3>2. i \in DOMAIN (a \o b)
      BY <1>2, <1>4
    <3> QED
      BY <1>3, <3>1, <3>2 DEF ToSet
  <2>3. ASSUME NEW e \in ToSet(b) PROVE e \in ToSet(a \o b)
    <3>1. PICK i \in 1..Len(b) : e = b[i]
      BY <1>4 DEF ToSet
    <3>2. Len(a) + i \in DOMAIN (a \o b)
      BY <1>2, <1>4
    <3> QED
      BY <1>3, <3>1, <3>2 DEF ToSet
  <2> QED
    BY <2>1, <2>2, <2>3
<1>6. IsSequence(a \o b)
  BY <1>2, SequenceIs
<1> QED
  BY <1>2, <1>3, <1>5, <1>6

-----------------------------------------------------------------------------
(* Sums over the partitions.                                               *)

IsSum(s, w, N) == s \in [0..N -> Nat] /\ s[0] = 0 /\ \A k \in 1..N : s[k] = s[k - 1] + w[k]

\* There are running sums of the weights.
LEMMA SumsExist ==
    ASSUME NEW N \in Nat, NEW w \in [1..N -> Nat]
    PROVE  \E s : IsSum(s, w, N)
<1> DEFINE S == { n \in 0..N : \E s : IsSum(s, w, n) }
<1>1. 0 \in S
  <2>1. IsSum([k \in 0..0 |-> 0], w, 0)
    BY DEF IsSum
  <2> QED
    BY <2>1
<1>2. ASSUME NEW n \in 0..(N - 1), n \in S
      PROVE  n + 1 \in S
  <2>1. PICK s : IsSum(s, w, n)
    BY <1>2
  <2> DEFINE t == [k \in 0..(n + 1) |-> IF k = n + 1 THEN s[n] + w[n + 1] ELSE s[k]]
  <2>2. s[n] \in Nat /\ w[n + 1] \in Nat /\ s \in [0..n -> Nat]
    BY <2>1 DEF IsSum
  <2>3. t \in [0..(n + 1) -> Nat]
    BY <2>2
  <2>4. t[0] = 0
    BY <2>1 DEF IsSum
  <2>5. ASSUME NEW k \in 1..(n + 1) PROVE t[k] = t[k - 1] + w[k]
    <3>1. k - 1 \in 0..n /\ t[k - 1] = s[k - 1]
      OBVIOUS
    <3>2. CASE k = n + 1
      BY <3>1, <3>2
    <3>3. CASE k # n + 1
      <4>1. k \in 1..n /\ t[k] = s[k]
        BY <3>3
      <4> QED
        BY <2>1, <3>1, <4>1 DEF IsSum
    <3> QED
      BY <3>2, <3>3
  <2> HIDE DEF t
  <2>6. IsSum(t, w, n + 1)
    BY <2>3, <2>4, <2>5 DEF IsSum
  <2> QED
    BY <2>6
<1> HIDE DEF S
<1>3. 0..N \subseteq S
  BY <1>1, <1>2, UpTo
<1> QED
  BY <1>3 DEF S

\* A sum changes with one of its weights by as much.
IsWeights(w, N) == w \in [1..N -> Nat]
AllBut(p, w, v, N) == \A k \in 1..N : k # p => v[k] = w[k]

\* A sum changes by what the one weight that changed does.
LEMMA SumChanges ==
    ASSUME NEW N \in Nat, NEW w, IsWeights(w, N), NEW v, IsWeights(v, N),
           NEW p \in 1..N, AllBut(p, w, v, N),
           NEW s, IsSum(s, w, N), NEW t, IsSum(t, v, N)
    PROVE  t[N] = s[N] + (v[p] - w[p])
<1>0. \A k \in 1..N : k # p => v[k] = w[k]
  BY DEF AllBut
<1>w. w \in [1..N -> Nat] /\ v \in [1..N -> Nat]
  BY DEF IsWeights
<1> DEFINE S == { n \in 0..N : t[n] = s[n] + IF n < p THEN 0 ELSE v[p] - w[p] }
<1>1. \A n \in 0..N : s[n] \in Nat /\ t[n] \in Nat
  BY DEF IsSum
<1>2. 0 \in S
  BY DEF IsSum
<1>3. ASSUME NEW n \in 0..(N - 1), n \in S
      PROVE  n + 1 \in S
  <2>1. n + 1 \in 1..N /\ (n + 1) - 1 = n
    OBVIOUS
  <2>2. t[n + 1] = t[n] + v[n + 1] /\ s[n + 1] = s[n] + w[n + 1]
    BY <2>1 DEF IsSum
  <2>3. v[n + 1] \in Nat /\ w[n + 1] \in Nat /\ v[p] \in Nat /\ w[p] \in Nat
    BY <1>w, <2>1
  <2>4. n + 1 # p => v[n + 1] = w[n + 1]
    BY <1>0, <2>1
  <2>5. t[n] = s[n] + IF n < p THEN 0 ELSE v[p] - w[p]
    BY <1>3
  <2>6. t[n + 1] = s[n + 1] + IF n + 1 < p THEN 0 ELSE v[p] - w[p]
    <3> s[n] \in Nat /\ t[n] \in Nat /\ n \in Nat
      BY <1>1
    <3>1. CASE n + 1 = p
      <4>1. t[n] = s[n] /\ v[n + 1] = v[p] /\ w[n + 1] = w[p]
        BY <2>5, <3>1
      <4>2. t[n + 1] = s[n] + v[p] /\ s[n + 1] = s[n] + w[p]
        BY <2>2, <4>1
      <4> QED
        BY <2>3, <3>1, <4>2
    <3>2. CASE n + 1 # p
      <4>1. n < p <=> n + 1 < p
        BY <3>2
      <4> QED
        BY <2>2, <2>3, <2>4, <2>5, <3>2, <4>1
    <3> QED
      BY <3>1, <3>2
  <2> QED
    BY <2>1, <2>6
<1> HIDE DEF S
<1>4. N \in S
  <2>1. 0..N \subseteq S
    BY <1>2, <1>3, UpTo
  <2> QED
    BY <2>1
<1> QED
  BY <1>4 DEF S

\* Two sums of the same weights are the same.
LEMMA SumsAgree ==
    ASSUME NEW N \in Nat, NEW w, NEW s, IsSum(s, w, N), NEW t, IsSum(t, w, N)
    PROVE  t[N] = s[N]
<1> DEFINE S == { n \in 0..N : t[n] = s[n] }
<1>1. 0 \in S
  BY DEF IsSum
<1>2. ASSUME NEW n \in 0..(N - 1), n \in S
      PROVE  n + 1 \in S
  <2>1. n + 1 \in 1..N /\ (n + 1) - 1 = n
    OBVIOUS
  <2>2. t[n + 1] = t[n] + w[n + 1] /\ s[n + 1] = s[n] + w[n + 1]
    BY <2>1 DEF IsSum
  <2> QED
    BY <1>2, <2>1, <2>2
<1> HIDE DEF S
<1>3. N \in S
  <2>1. 0..N \subseteq S
    BY <1>1, <1>2, UpTo
  <2> QED
    BY <2>1
<1> QED
  BY <1>3 DEF S

-----------------------------------------------------------------------------
(* The scan: its threads, the budget they share, and the work they have.   *)

\* The contents a query reads are snapshots, its limits are numbers.
LEMMA StoreFacts ==
    ASSUME NEW i \in Inputs
    PROVE  /\ IsSequence(Stores[i.store])
           /\ \A p \in DOMAIN Stores[i.store] : IsSnapshot(Stores[i.store][p])
           /\ i.limits.max_rows \in Nat /\ i.limits.max_bytes \in Nat
<1>1. i.store \in DOMAIN Stores /\ i.limits.max_rows \in Nat /\ i.limits.max_bytes \in Nat
  BY InputsAreRequests
<1>2. IsSequence(Stores[i.store]) /\ \A s \in ToSet(Stores[i.store]) : IsSnapshot(s)
  BY <1>1, StoresAreSnapshots
<1> QED
  BY <1>1, <1>2 DEF ToSet

\* The sources of a snapshot, and the segments among them.
LEMMA SourcesFacts ==
    ASSUME NEW s, IsSnapshot(s)
    PROVE  /\ Len(Sources(s)) \in Nat /\ DOMAIN Sources(s) = 1..Len(Sources(s))
           /\ \A i \in 1..Len(Sources(s)) :
                 /\ Sources(s)[i].file.bytes \in Nat
                 /\ Sources(s)[i].kind = "segment" =>
                       /\ i \in DOMAIN s.segments /\ Sources(s)[i].file = s.segments[i]
                       /\ IsSegment(s.segments[i])
<1>a. PICK a : a = [i \in DOMAIN s.segments |->
                    [kind |-> "segment", file |-> s.segments[i], offset |-> 0,
                     suppressed |-> s.segments[i].suppressed]]
  OBVIOUS
<1>b. PICK b : b = [i \in DOMAIN s.memtable |->
                    [kind |-> "memtable", file |-> s.memtable[i],
                     offset |-> RowsOf(SubSeq(s.memtable, 1, i - 1)),
                     suppressed |-> s.memtable_suppressed]]
  OBVIOUS
<1>1. /\ IsSequence(s.segments) /\ \A i \in DOMAIN s.segments : IsSegment(s.segments[i])
      /\ IsSequence(s.memtable) /\ \A i \in DOMAIN s.memtable : s.memtable[i].bytes \in Nat
  BY DEF IsSnapshot, ToSet
<1>2. /\ Len(s.segments) \in Nat /\ DOMAIN s.segments = 1..Len(s.segments)
      /\ Len(s.memtable) \in Nat /\ DOMAIN s.memtable = 1..Len(s.memtable)
  BY <1>1, SequenceIs
<1>3. a = [i \in 1..Len(s.segments) |-> a[i]] /\ b = [i \in 1..Len(s.memtable) |-> b[i]]
  BY <1>2, <1>a, <1>b
<1>4. Sources(s) = a \o b
  BY <1>a, <1>b DEF Sources
<1>5. \A i \in 1..Len(s.segments) : a[i].kind = "segment" /\ a[i].file = s.segments[i]
  BY <1>2, <1>a
<1>6. \A i \in 1..Len(s.memtable) : b[i].kind = "memtable" /\ b[i].file = s.memtable[i]
  BY <1>2, <1>b
<1>7. /\ IsSequence(a) /\ Len(a) = Len(s.segments)
      /\ IsSequence(b) /\ Len(b) = Len(s.memtable)
  BY <1>2, <1>3, MakesSequence
<1>8. /\ Len(a \o b) = Len(a) + Len(b) /\ DOMAIN (a \o b) = 1..(Len(a) + Len(b))
      /\ \A i \in 1..Len(a) : (a \o b)[i] = a[i]
      /\ \A i \in 1..Len(b) : (a \o b)[Len(a) + i] = b[i]
      /\ \A i \in DOMAIN (a \o b) : i \in 1..Len(a) \/ i - Len(a) \in 1..Len(b)
  <2>1. IsSequence(a) /\ IsSequence(b)
    BY <1>7
  <2> QED
    BY <2>1, Concatenates
<1>9. Len(Sources(s)) \in Nat /\ DOMAIN Sources(s) = 1..Len(Sources(s))
  <2>1. Len(Sources(s)) = Len(a) + Len(b) /\ DOMAIN Sources(s) = 1..(Len(a) + Len(b))
    BY <1>4, <1>8, Zenon
  <2>2. Len(a) + Len(b) \in Nat
    <3>1. Len(a) \in Nat /\ Len(b) \in Nat
      BY <1>7 DEF IsSequence
    <3> QED
      BY <3>1
  <2> QED
    BY <2>1, <2>2
<1>10. ASSUME NEW i \in 1..Len(Sources(s))
       PROVE  /\ Sources(s)[i].file.bytes \in Nat
              /\ Sources(s)[i].kind = "segment" =>
                    /\ i \in DOMAIN s.segments /\ Sources(s)[i].file = s.segments[i]
                    /\ IsSegment(s.segments[i])
  <2>1. CASE i \in 1..Len(a)
    <3>1. Sources(s)[i] = a[i] /\ i \in DOMAIN s.segments
      BY <1>2, <1>4, <1>7, <1>8, <2>1
    <3>2. s.segments[i].bytes \in Nat
      BY <1>1, <3>1 DEF IsSegment
    <3> QED
      BY <1>1, <1>2, <1>5, <3>1, <3>2
  <2>2. CASE i - Len(a) \in 1..Len(b)
    <3>1. i = Len(a) + (i - Len(a))
      BY <1>2, <1>7
    <3>2. Sources(s)[i] = b[i - Len(a)]
      BY <1>4, <1>8, <2>2, <3>1
    <3> QED
      BY <1>1, <1>2, <1>6, <1>7, <2>2, <3>2
  <2> QED
    BY <1>4, <1>8, <2>1, <2>2
<1> QED
  BY <1>9, <1>10

\* A thread over n sources.
IsThread(t, n) ==
    \/ /\ t.state \in {"visit", "read", "done"}
       /\ t = [state |-> t.state, at |-> t.at, rows |-> t.rows, groups |-> t.groups]
       /\ t.at \in 1..(n + 1)
       /\ t.state = "read" => t.at <= n
    \/ t.state = "failed"

Phases == {"translate", "lower", "validate", "build", "execute", "scan", "finish", "done"}
ScanInv ==
    /\ input \in Inputs /\ phase \in Phases /\ late \in BOOLEAN
    /\ phase \in {"scan", "finish"} =>
          /\ scan = [p \in Partitions |-> scan[p]]
          /\ \A p \in Partitions : IsThread(scan[p], Len(Sources(store[p])))

\* What a thread is after a batch was emitted.
LEMMA EmitFacts ==
    ASSUME NEW t, NEW n \in Nat, IsThread(t, n), t.state = "read", NEW rows
    PROVE  /\ IsThread(Emit(t, rows), n)
           /\ Emit(t, rows).state \in {"visit", "done"}
           /\ Emit(t, rows).at = t.at + 1
<1>1. t = [state |-> t.state, at |-> t.at, rows |-> t.rows, groups |-> t.groups] /\ t.at \in 1..n
  BY DEF IsThread
<1> DEFINE enough == is_streaming_limit(plan) /\ rows /= <<>> /\ Len(t.rows \o rows) >= fetch_rows(plan)
           state == IF enough THEN "done" ELSE "visit"
           all == t.rows \o rows
<1>2. state \in {"visit", "done"}
  OBVIOUS
<1> HIDE DEF enough
<1>3. Emit(t, rows) =
        IF plan.aggregate = NoAggregate
        THEN [[t EXCEPT !.state = state, !.at = @ + 1] EXCEPT !.rows = all]
        ELSE [[t EXCEPT !.state = state, !.at = @ + 1] EXCEPT !.groups = update_batch(plan.aggregate, types, @, rows)]
  BY DEF Emit, enough
<1>6. PICK st : st = state
  OBVIOUS
<1> HIDE DEF state, all
<1>4. [t EXCEPT !.state = st, !.at = @ + 1] =
        [state |-> st, at |-> t.at + 1, rows |-> t.rows, groups |-> t.groups]
  <2>1. PICK u : u = [t EXCEPT !.state = st]
    OBVIOUS
  <2>2. u = [state |-> st, at |-> t.at, rows |-> t.rows, groups |-> t.groups]
    BY <1>1, <2>1
  <2>3. [u EXCEPT !.at = t.at + 1] = [state |-> st, at |-> t.at + 1, rows |-> t.rows, groups |-> t.groups]
    BY <2>2
  <2>4. u.at = t.at
    BY <2>2
  <2> QED
    BY <2>1, <2>3, <2>4
<1>5. \E r, g : Emit(t, rows) = [state |-> state, at |-> t.at + 1, rows |-> r, groups |-> g]
  BY <1>3, <1>4, <1>6, Zenon
<1> QED
  BY <1>1, <1>2, <1>5 DEF IsThread

WorkOf(t, n) == IF t.state = "visit" THEN (2 * (n + 1 - t.at) + 2) + 1
                ELSE IF t.state = "read" THEN 2 * (n + 1 - t.at) + 2 ELSE 0

\* The work left of a thread is a number.
LEMMA WorkIsCounted ==
    ASSUME NEW t, NEW n \in Nat, IsThread(t, n)
    PROVE  WorkOf(t, n) \in Nat
<1>1. CASE t.state \in {"visit", "read", "done"} /\ t.at \in 1..(n + 1)
  <2>1. n + 1 - t.at \in Nat
    BY <1>1
  <2> QED
    BY <2>1 DEF WorkOf
<1>2. CASE t.state = "failed"
  BY <1>2 DEF WorkOf
<1> QED
  BY <1>1, <1>2 DEF IsThread

\* The work left to a thread of the scan.
LEMMA LeftIsWork ==
    ASSUME NEW p
    PROVE  Left(p) = WorkOf(scan[p], Len(Sources(store[p])))
<1> DEFINE n == Len(Sources(store[p]))
<1> HIDE DEF n
<1>1. Left(p) = LET visits == 2 * (n + 1 - scan[p].at) + 2
           IN  CASE scan[p].state = "visit" -> visits + 1
                 [] scan[p].state = "read" -> visits
                 [] OTHER -> 0
  BY DEF Left, n
<1>2. CASE scan[p].state = "visit"
  BY <1>1, <1>2 DEF WorkOf, n
<1>3. CASE scan[p].state = "read"
  BY <1>1, <1>3 DEF WorkOf, n
<1>4. CASE scan[p].state \notin {"visit", "read"}
  BY <1>1, <1>4 DEF WorkOf, n
<1> QED
  BY <1>2, <1>3, <1>4

\* A partition of the scan, its sources and its thread.
LEMMA ThreadFacts ==
    ASSUME ScanInv, phase \in {"scan", "finish"}, NEW p \in DOMAIN scan
    PROVE  /\ p \in Partitions /\ DOMAIN scan = Partitions
           /\ IsSnapshot(store[p])
           /\ Len(Sources(store[p])) \in Nat
           /\ IsThread(scan[p], Len(Sources(store[p])))
           /\ Left(p) \in Nat
<1>1. p \in Partitions /\ DOMAIN scan = Partitions /\ input \in Inputs
      /\ IsThread(scan[p], Len(Sources(store[p])))
  BY DEF ScanInv
<1>2. IsSnapshot(store[p])
  BY <1>1, StoreFacts DEF store, Partitions
<1>3. Len(Sources(store[p])) \in Nat
  BY <1>2, SourcesFacts
<1>4. Left(p) \in Nat
  BY <1>1, <1>3, LeftIsWork, WorkIsCounted
<1> QED
  BY <1>1, <1>2, <1>3, <1>4

\* A step of a thread: of that thread alone, to less work.
LEMMA ThreadSteps ==
    ASSUME ScanInv, phase = "scan", NEW p \in DOMAIN scan,
           UNCHANGED <<input, phase, late>>,
           NEW t, IsThread(t, Len(Sources(store[p]))),
           WorkOf(t, Len(Sources(store[p]))) < WorkOf(scan[p], Len(Sources(store[p]))),
           scan' = [scan EXCEPT ![p] = t]
    PROVE  /\ ScanInv'
           /\ Rank[phase'] = Rank[phase] /\ DOMAIN scan' = DOMAIN scan
           /\ Nothing_grows /\ Something_shrinks
<1>1. scan = [q \in Partitions |-> scan[q]] /\ p \in Partitions
  BY DEF ScanInv
<1>2. store' = store /\ Partitions' = Partitions
  BY DEF store, Partitions
<1>3. scan'[p] = t /\ \A q \in Partitions : q # p => scan'[q] = scan[q]
  BY <1>1
<1>4. scan' = [q \in Partitions |-> scan'[q]] /\ DOMAIN scan' = DOMAIN scan
  BY <1>1
<1>5. \A q \in Partitions : IsThread(scan'[q], Len(Sources(store[q])))
  BY <1>3 DEF ScanInv
<1>6. ScanInv'
  BY <1>2, <1>4, <1>5 DEF ScanInv
<1>7. ASSUME NEW q \in DOMAIN scan PROVE Left(q)' = WorkOf(scan'[q], Len(Sources(store[q])))
  <2>1. Left(q)' = WorkOf(scan[q], Len(Sources(store[q])))'
    <3>1. Left(q) = WorkOf(scan[q], Len(Sources(store[q])))
      BY LeftIsWork
    <3> DEFINE n == Len(Sources(store[q])) 
    <3>2. n' = n
      BY <1>2
    <3> HIDE DEF n
    <3>3. (Left(q))' = LET visits == 2 * (n' + 1 - scan'[q].at) + 2
           IN  CASE scan'[q].state = "visit" -> visits + 1
                 [] scan'[q].state = "read" -> visits
                 [] OTHER -> 0
      BY DEF Left, n
    <3>4. WorkOf(scan'[q], n') = IF scan'[q].state = "visit" THEN (2 * (n' + 1 - scan'[q].at) + 2) + 1
                ELSE IF scan'[q].state = "read" THEN 2 * (n' + 1 - scan'[q].at) + 2 ELSE 0
      BY DEF WorkOf
    <3>6. (Left(q))' = WorkOf(scan'[q], n')
      BY <3>3, <3>4
    <3> QED
      BY <3>6 DEF n
  <2> QED
    BY <2>1, <1>2
<1>8. ASSUME NEW q \in DOMAIN scan PROVE Left(q) \in Nat /\ (q # p => Left(q)' = Left(q))
  <2>1. Left(q) \in Nat
    BY ThreadFacts
  <2>2. q \in Partitions
    BY <1>1
  <2>3. q # p => Left(q)' = WorkOf(scan[q], Len(Sources(store[q])))
    BY <1>3, <1>7, <2>2
  <2> QED
    BY <2>1, <2>3, LeftIsWork
<1>9. Left(p)' < Left(p) /\ Left(p)' \in Nat
  <2>1. Left(p)' = WorkOf(t, Len(Sources(store[p]))) /\ Left(p) = WorkOf(scan[p], Len(Sources(store[p])))
    BY <1>3, <1>7, LeftIsWork
  <2>2. WorkOf(t, Len(Sources(store[p]))) \in Nat
    BY ThreadFacts, WorkIsCounted
  <2> QED
    BY <2>1, <2>2
<1>10. \A q \in DOMAIN scan : Left(q)' <= Left(q)
  <2>1. SUFFICES ASSUME NEW q \in DOMAIN scan PROVE Left(q)' <= Left(q)
    OBVIOUS
  <2>2. CASE q = p
    BY <1>8, <1>9, <2>2
  <2>3. CASE q # p
    BY <1>8, <2>3
  <2> QED
    BY <2>2, <2>3
<1>11. Nothing_grows
  BY <1>10 DEF Nothing_grows
<1>12. Something_shrinks
  BY <1>9 DEF Something_shrinks
<1> QED
  BY <1>4, <1>6, <1>11, <1>12

\* A thread that visits a source is left at it, past it, or failed.
LEMMA VisitSteps ==
    ASSUME ScanInv, NEW p \in DOMAIN scan, Visit(p)
    PROVE  /\ ScanInv'
           /\ Rank[phase'] = Rank[phase] /\ DOMAIN scan' = DOMAIN scan
           /\ Nothing_grows /\ Something_shrinks
<1> PICK n : n = Len(Sources(store[p]))
  OBVIOUS
<1>1. phase = "scan" /\ scan[p].state = "visit" /\ UNCHANGED <<input, phase, late>>
  BY DEF Visit, Running
<1>2. n \in Nat /\ IsThread(scan[p], n) /\ scan = [q \in Partitions |-> scan[q]] /\ p \in Partitions
  BY <1>1, ThreadFacts DEF ScanInv
<1>3. scan[p].at <= n
  BY DEF Visit
<1>4. \/ scan' = [scan EXCEPT ![p] = Failed("limit")]
      \/ scan' = [scan EXCEPT ![p].at = @ + 1]
      \/ scan' = [scan EXCEPT ![p] = [@ EXCEPT !.state = "read"]]
  <2>1. PICK b : b = SourceAt(p).file.bytes
    OBVIOUS
  <2>2. PICK skip \in BOOLEAN : skip = (SourceAt(p).kind = "segment" /\ can_skip(SourceAt(p).file, plan.pruning))
    OBVIOUS
  <2>3. scan' = IF late THEN [scan EXCEPT ![p] = Failed("limit")]
                ELSE IF skip THEN [scan EXCEPT ![p].at = @ + 1]
                ELSE [scan EXCEPT ![p] = IF OverBudget(SourceAt(p).file.bytes) THEN Failed("limit")
                                               ELSE [@ EXCEPT !.state = "read"]]
    BY <2>2 DEF Visit
  <2> QED
    BY <2>3
<1>5. PICK t : t = scan[p]
  OBVIOUS
<1>6. t.state = "visit" /\ t = [state |-> t.state, at |-> t.at, rows |-> t.rows, groups |-> t.groups] /\ t.at \in 1..n
  BY <1>1, <1>2, <1>3, <1>5 DEF IsThread
<1>7. ASSUME NEW u, scan' = [scan EXCEPT ![p] = u], IsThread(u, n), WorkOf(u, n) < WorkOf(t, n)
      PROVE  /\ ScanInv'
             /\ Rank[phase'] = Rank[phase] /\ DOMAIN scan' = DOMAIN scan
             /\ Nothing_grows /\ Something_shrinks
  BY <1>1, <1>5, <1>7, ThreadSteps
<1>8. CASE scan' = [scan EXCEPT ![p] = Failed("limit")]
  <2>1. IsThread(Failed("limit"), n) /\ WorkOf(Failed("limit"), n) = 0
    BY DEF IsThread, WorkOf, Failed
  <2>2. WorkOf(t, n) > 0
    BY <1>2, <1>6 DEF WorkOf
  <2>3. WorkOf(Failed("limit"), n) < WorkOf(t, n)
    BY <2>1, <2>2, <1>2, <1>5, WorkIsCounted
  <2> QED
    BY <1>7, <1>8, <2>1, <2>3
<1>9. CASE scan' = [scan EXCEPT ![p].at = @ + 1]
  <2>1. PICK u : u = [t EXCEPT !.at = @ + 1]
    OBVIOUS
  <2>2. scan' = [scan EXCEPT ![p] = u]
    BY <1>5, <1>9, <2>1
  <2>3. u = [state |-> "visit", at |-> t.at + 1, rows |-> t.rows, groups |-> t.groups]
    BY <1>6, <2>1
  <2>4. IsThread(u, n)
    BY <1>2, <1>6, <2>3 DEF IsThread
  <2>5. WorkOf(u, n) < WorkOf(t, n)
    BY <1>2, <1>6, <2>3 DEF WorkOf
  <2> QED
    BY <1>7, <2>2, <2>4, <2>5
<1>10. CASE scan' = [scan EXCEPT ![p] = [@ EXCEPT !.state = "read"]]
  <2>1. PICK u : u = [t EXCEPT !.state = "read"]
    OBVIOUS
  <2>2. scan' = [scan EXCEPT ![p] = u]
    BY <1>5, <1>10, <2>1
  <2>3. u = [state |-> "read", at |-> t.at, rows |-> t.rows, groups |-> t.groups]
    BY <1>6, <2>1
  <2>4. IsThread(u, n)
    BY <1>2, <1>6, <2>3 DEF IsThread
  <2>5. WorkOf(u, n) < WorkOf(t, n)
    BY <1>2, <1>6, <2>3 DEF WorkOf
  <2> QED
    BY <1>7, <2>2, <2>4, <2>5
<1> QED
  BY <1>4, <1>8, <1>9, <1>10

\* A thread that reads a source is past it, done, or failed.
LEMMA ReadSteps ==
    ASSUME ScanInv, NEW p \in DOMAIN scan, Read(p) \/ ReadFails(p)
    PROVE  /\ ScanInv'
           /\ Rank[phase'] = Rank[phase] /\ DOMAIN scan' = DOMAIN scan
           /\ Nothing_grows /\ Something_shrinks
<1> PICK n : n = Len(Sources(store[p]))
  OBVIOUS
<1>1. phase = "scan" /\ scan[p].state = "read" /\ UNCHANGED <<input, phase, late>>
  BY DEF Read, ReadFails, Running
<1>2. n \in Nat /\ IsThread(scan[p], n) /\ scan = [q \in Partitions |-> scan[q]] /\ p \in Partitions
  BY <1>1, ThreadFacts DEF ScanInv
<1>3. \E u : /\ scan' = [scan EXCEPT ![p] = u]
             /\ (\E kind : u = Failed(kind)) \/ (\E rows : u = Emit(scan[p], rows))
  <2>1. CASE Read(p)
    <3>1. PICK live : live = drop_suppressed(project_with_backfill(SourceAt(p).file.rows, plan.projection), SourceAt(p).suppressed, SourceAt(p).offset)
      OBVIOUS
    <3>2. PICK rows : rows = matching(plan, live)
      OBVIOUS
    <3>3. scan' = [scan EXCEPT ![p] = IF live /= <<>> /\ ~(Resolves /\ Evaluates) THEN Failed("internal") ELSE Emit(@, rows)]
      BY <2>1, <3>1, <3>2 DEF Read
    <3>4. CASE live /= <<>> /\ ~(Resolves /\ Evaluates)
      BY <3>3, <3>4
    <3>5. CASE ~(live /= <<>> /\ ~(Resolves /\ Evaluates))
      BY <3>3, <3>5
    <3> QED
      BY <3>4, <3>5
  <2>2. CASE ReadFails(p)
    BY <2>2 DEF ReadFails
  <2> QED
    BY <2>1, <2>2
<1>4. PICK u : /\ scan' = [scan EXCEPT ![p] = u]
               /\ (\E kind : u = Failed(kind)) \/ (\E rows : u = Emit(scan[p], rows))
  BY <1>3
<1>5. WorkOf(scan[p], n) \in Nat /\ WorkOf(scan[p], n) = 2 * (n + 1 - scan[p].at) + 2 /\ scan[p].at \in 1..n
  <2>1. scan[p].at \in 1..n
    BY <1>1, <1>2 DEF IsThread
  <2> QED
    BY <1>1, <1>2, <2>1, WorkIsCounted DEF WorkOf
<1>6. IsThread(u, n) /\ WorkOf(u, n) < WorkOf(scan[p], n)
  <2>1. CASE \E kind : u = Failed(kind)
    <3>1. u.state = "failed"
      BY <2>1 DEF Failed
    <3>2. WorkOf(u, n) = 0 /\ IsThread(u, n)
      BY <3>1 DEF WorkOf, IsThread
    <3> QED
      BY <1>2, <1>5, <3>2
  <2>2. CASE \E rows : u = Emit(scan[p], rows)
    <3>1. IsThread(u, n) /\ u.state \in {"visit", "done"} /\ u.at = scan[p].at + 1
      BY <1>1, <1>2, <2>2, EmitFacts
    <3>2. WorkOf(u, n) = 0 \/ WorkOf(u, n) = (2 * (n + 1 - (scan[p].at + 1)) + 2) + 1
      BY <3>1 DEF WorkOf
    <3>3. WorkOf(u, n) < WorkOf(scan[p], n)
      BY <1>2, <1>5, <3>2
    <3> QED
      BY <3>1, <3>3
  <2> QED
    BY <1>4, <2>1, <2>2
<1> QED
  BY <1>1, <1>4, <1>6, ThreadSteps

\* A thread that has no source left is done.
LEMMA EndSteps ==
    ASSUME ScanInv, NEW p \in DOMAIN scan, ScanEnds(p)
    PROVE  /\ ScanInv'
           /\ Rank[phase'] = Rank[phase] /\ DOMAIN scan' = DOMAIN scan
           /\ Nothing_grows /\ Something_shrinks
<1> PICK n : n = Len(Sources(store[p]))
  OBVIOUS
<1>1. phase = "scan" /\ scan[p].state = "visit" /\ UNCHANGED <<input, phase, late>>
  BY DEF ScanEnds, Running
<1>2. n \in Nat /\ IsThread(scan[p], n)
  BY <1>1, ThreadFacts
<1>3. PICK t : t = scan[p]
  OBVIOUS
<1>4. t.state = "visit" /\ t = [state |-> t.state, at |-> t.at, rows |-> t.rows, groups |-> t.groups] /\ t.at \in 1..(n + 1)
  BY <1>1, <1>2, <1>3 DEF IsThread
<1>5. PICK u : u = [t EXCEPT !.state = "done"]
  OBVIOUS
<1>6. u = [state |-> "done", at |-> t.at, rows |-> t.rows, groups |-> t.groups]
  BY <1>4, <1>5
<1>7. IsThread(u, n) /\ WorkOf(u, n) = 0
  BY <1>4, <1>6 DEF IsThread, WorkOf
<1>8. WorkOf(t, n) \in Nat /\ WorkOf(t, n) = (2 * (n + 1 - t.at) + 2) + 1
  BY <1>2, <1>3, <1>4, WorkIsCounted DEF WorkOf
<1>9. WorkOf(u, n) < WorkOf(t, n)
  BY <1>2, <1>4, <1>7, <1>8
<1>10. scan' = [scan EXCEPT ![p] = u]
  BY <1>3, <1>5 DEF ScanEnds
<1> QED
  BY <1>1, <1>3, <1>7, <1>9, <1>10, ThreadSteps

\* A step of the coordinator is to a later phase.
LEMMA CoordinatorSteps ==
    ASSUME ScanInv, Coordinator
    PROVE  ScanInv' /\ Rank[phase'] < Rank[phase]
<1>0. Rank = [translate |-> 7, lower |-> 6, validate |-> 5, build |-> 4, execute |-> 3, scan |-> 2, finish |-> 1, done |-> 0]
  BY DEF Rank
<1>1. CASE phase' = "done" /\ phase # "done" /\ UNCHANGED <<input, late>>
  <2>1. phase \in Phases
    BY DEF ScanInv
  <2>2. Rank[phase'] < Rank[phase]
    BY <1>0, <1>1, <2>1 DEF Phases
  <2> QED
    BY <1>1, <2>2 DEF ScanInv, Phases
<1>2. CASE Translate
  BY <1>0, <1>1, <1>2 DEF Translate, ScanInv, Phases, End
<1>3. CASE Lower
  BY <1>0, <1>1, <1>3 DEF Lower, ScanInv, Phases, End
<1>4. CASE Validate
  BY <1>0, <1>1, <1>4 DEF Validate, ScanInv, Phases, End
<1>5. CASE Build
  BY <1>0, <1>1, <1>5 DEF Build, ScanInv, Phases, End
<1>6. CASE MetadataCount
  BY <1>1, <1>6, Zenon DEF MetadataCount, End
<1>7. CASE Spawn
  <2>1. phase = "execute" /\ phase' = "scan" /\ UNCHANGED <<input, late>>
        /\ scan' = [p \in Partitions |-> Idle]
    BY <1>7 DEF Spawn
  <2>2. store' = store /\ Partitions' = Partitions
    BY <2>1 DEF store, Partitions
  <2>3. \A p \in Partitions : IsThread(Idle, Len(Sources(store[p])))
    <3>1. SUFFICES ASSUME NEW p \in Partitions PROVE IsThread(Idle, Len(Sources(store[p])))
      OBVIOUS
    <3>2. IsSnapshot(store[p])
      BY StoreFacts DEF ScanInv, Partitions, store
    <3>3. Len(Sources(store[p])) \in Nat
      BY <3>2, SourcesFacts
    <3>4. 1 \in 1..(Len(Sources(store[p])) + 1)
      BY <3>3
    <3> QED
      BY <3>4 DEF IsThread, Idle
  <2>4. scan' = [p \in Partitions |-> scan'[p]] /\ \A p \in Partitions : scan'[p] = Idle
    BY <2>1
  <2>5. ScanInv'
    BY <2>1, <2>2, <2>3, <2>4 DEF ScanInv, Phases
  <2> QED
    BY <1>0, <2>1, <2>5
<1>8. CASE Collect
  <2>1. phase = "scan" /\ UNCHANGED <<input, late, scan>> /\ phase' \in {"finish", "done"}
    BY <1>8, Zenon DEF Collect, Collected, End
  <2>2. store' = store /\ Partitions' = Partitions
    BY <2>1 DEF store, Partitions
  <2>3. ScanInv'
    BY <2>1, <2>2 DEF ScanInv, Phases
  <2> QED
    BY <1>0, <2>1, <2>3
<1>9. CASE Finish
  <2>1. phase = "finish" /\ phase' = "done" /\ UNCHANGED <<input, late>>
    BY <1>9 DEF Finish, End
  <2> QED
    BY <1>1, <2>1
<1> QED
  BY <1>2, <1>3, <1>4, <1>5, <1>6, <1>7, <1>8, <1>9 DEF Coordinator

\* The clock runs out once.
LEMMA ClockSteps ==
    ASSUME ScanInv, Clock
    PROVE  /\ ScanInv'
           /\ Rank[phase'] = Rank[phase] /\ DOMAIN scan' = DOMAIN scan
           /\ Nothing_grows /\ Something_shrinks
<1>1. phase \in {"scan", "finish"} /\ late' /\ ~late /\ UNCHANGED <<input, phase, scan>>
  BY DEF Clock
<1>2. store' = store /\ Partitions' = Partitions
  BY <1>1 DEF store, Partitions
<1>3. late' \in BOOLEAN
  BY DEF Clock
<1>4. ScanInv'
  BY <1>1, <1>2, <1>3 DEF ScanInv
<1>5. \A p \in DOMAIN scan : Left(p)' = Left(p) /\ Left(p) \in Nat
  BY <1>1, <1>2, ThreadFacts DEF Left
<1>6. Nothing_grows
  BY <1>1, <1>5 DEF Nothing_grows
<1> QED
  BY <1>1, <1>4, <1>6 DEF Something_shrinks

WorkStep == \/ Rank[phase'] < Rank[phase]
            \/ /\ Rank[phase'] = Rank[phase] /\ DOMAIN scan' = DOMAIN scan
               /\ Nothing_grows /\ Something_shrinks

\* Every step keeps the scan in order and uses up some of its work.
LEMMA ScanStep ==
    ASSUME ScanInv, [Next]_vars
    PROVE  ScanInv' /\ (WorkStep \/ UNCHANGED vars)
<1>1. CASE UNCHANGED vars
  <2>1. UNCHANGED <<input, phase, late, scan>>
    BY <1>1 DEF vars
  <2>2. store' = store /\ Partitions' = Partitions
    BY <2>1 DEF store, Partitions
  <2> QED
    BY <1>1, <2>1, <2>2 DEF ScanInv
<1>2. CASE Coordinator
  BY <1>2, CoordinatorSteps DEF WorkStep
<1>3. CASE Clock
  BY <1>3, ClockSteps DEF WorkStep
<1>4. ASSUME NEW p \in DOMAIN scan, Thread(p) \/ ReadFails(p)
      PROVE  ScanInv' /\ WorkStep
  BY <1>4, VisitSteps, ReadSteps, EndSteps DEF Thread, WorkStep
<1> QED
  BY <1>1, <1>2, <1>3, <1>4 DEF Next, Ended

\* Before the scan there is nothing to be in order.
LEMMA ScanStarts == Init => ScanInv
<1> SUFFICES ASSUME Init PROVE ScanInv
  OBVIOUS
<1> QED
  BY DEF Init, ScanInv, Phases

\* Every step of a query uses up some of a finite amount of work, whatever is
\* asked and however the threads of run_per_partition are scheduled: the
\* coordinator moves to a later phase, or a thread gets further.
THEOREM WorkIsFinite == Spec => WorkRunsOut
<1>1. ScanInv /\ [Next]_vars => ScanInv'
  BY ScanStep
<1>2. ScanInv /\ [Next]_vars => [WorkStep]_vars
  BY ScanStep
<1> QED
  BY <1>1, <1>2, ScanStarts, PTL DEF Spec, WorkRunsOut, WorkStep

\* What a thread has charged and not yet read.
Pending == [p \in Partitions |-> IF scan[p].state = "read" THEN SourceAt(p).file.bytes ELSE 0]

\* What was read and what is pending was charged, within the limit.
Charged == LET N == Len(store) IN
    \A s : IsSum(s, Pending, N) => read + s[N] <= budget.bytes /\ read + s[N] <= limits.max_bytes
BudgetInv ==
    /\ budget = [bytes |-> budget.bytes, truncated |-> budget.truncated]
    /\ budget.bytes \in Nat /\ read \in Nat /\ read <= limits.max_bytes
    /\ phase \in Phases \ {"scan", "finish", "done"} => read = 0
    /\ phase = "scan" => Charged

\* What each partition has charged and not yet read is a number.
LEMMA PendingFacts ==
    ASSUME ScanInv, phase = "scan"
    PROVE  /\ Len(store) \in Nat /\ Partitions = 1..Len(store) /\ DOMAIN scan = Partitions
           /\ Pending \in [1..Len(store) -> Nat]
           /\ limits.max_bytes \in Nat
           /\ \A p \in Partitions : scan[p].state = "read" => SourceAt(p).file.bytes \in Nat
<1>1. input \in Inputs
  BY DEF ScanInv
<1>2. IsSequence(store) /\ limits.max_bytes \in Nat
  BY <1>1, StoreFacts DEF store, limits
<1>3. Len(store) \in Nat /\ Partitions = 1..Len(store)
  BY <1>2, SequenceIs DEF Partitions
<1>4. ASSUME NEW p \in Partitions, scan[p].state = "read"
      PROVE  SourceAt(p).file.bytes \in Nat
  <2>1. p \in DOMAIN scan
    BY DEF ScanInv
  <2>2. IsSnapshot(store[p]) /\ Len(Sources(store[p])) \in Nat /\ IsThread(scan[p], Len(Sources(store[p])))
    BY <2>1, ThreadFacts
  <2>3. scan[p].at \in 1..Len(Sources(store[p]))
    BY <1>4, <2>2 DEF IsThread
  <2> QED
    BY <2>2, <2>3, SourcesFacts DEF SourceAt
<1>5. ASSUME NEW p \in Partitions PROVE Pending[p] \in Nat
  BY <1>4 DEF Pending
<1>6. Pending = [p \in 1..Len(store) |-> Pending[p]]
  BY <1>3 DEF Pending
<1>7. Pending \in [1..Len(store) -> Nat]
  BY <1>3, <1>5, <1>6
<1>8. DOMAIN scan = Partitions
  BY ThreadFacts DEF ScanInv
<1> QED
  BY <1>2, <1>3, <1>4, <1>7, <1>8

\* A step of one thread changes what that thread has pending.
LEMMA ChargeSteps ==
    ASSUME ScanInv, phase = "scan", ScanInv', UNCHANGED <<input, phase>>, BudgetInv,
           NEW p \in Partitions, NEW u, scan' = [scan EXCEPT ![p] = u],
           NEW old \in Nat, old = Pending[p],
           NEW new \in Nat, new = IF u.state = "read" THEN Sources(store[p])[u.at].file.bytes ELSE 0,
           read' \in Nat, budget'.bytes \in Nat,
           read' + new - (read + old) <= budget'.bytes - budget.bytes,
           read' + new <= read + old \/ budget'.bytes <= limits.max_bytes
    PROVE  Charged'
<1>1. store' = store /\ Partitions' = Partitions /\ limits' = limits
  BY DEF store, Partitions, limits
<1>2. /\ Len(store) \in Nat /\ Partitions = 1..Len(store)
      /\ Pending \in [1..Len(store) -> Nat] /\ limits.max_bytes \in Nat
  BY PendingFacts
<1>3. scan = [q \in Partitions |-> scan[q]]
  BY DEF ScanInv
<1>4. scan'[p] = u /\ \A q \in Partitions : q # p => scan'[q] = scan[q]
  BY <1>3
<1>5. Pending' = [q \in Partitions |-> IF scan'[q].state = "read" THEN Sources(store[q])[scan'[q].at].file.bytes ELSE 0]
  BY <1>1 DEF Pending, SourceAt
<1>6. Pending = [q \in Partitions |-> IF scan[q].state = "read" THEN Sources(store[q])[scan[q].at].file.bytes ELSE 0]
  BY DEF Pending, SourceAt
<1>7. Pending'[p] = new /\ \A q \in Partitions : q # p => Pending'[q] = Pending[q]
  <2>1. Pending'[p] = IF scan'[p].state = "read" THEN Sources(store[p])[scan'[p].at].file.bytes ELSE 0
    BY <1>5, Zenon
  <2>2. Pending'[p] = new
    BY <2>1, <1>4, Zenon
  <2>3. ASSUME NEW q \in Partitions, q # p PROVE Pending'[q] = Pending[q]
    <3>1. scan'[q] = scan[q]
      BY <2>3, <1>4, Zenon
    <3>2. Pending'[q] = IF scan'[q].state = "read" THEN Sources(store[q])[scan'[q].at].file.bytes ELSE 0
      BY <1>5, Zenon
    <3>3. Pending[q] = IF scan[q].state = "read" THEN Sources(store[q])[scan[q].at].file.bytes ELSE 0
      BY <1>6, Zenon
    <3> QED
      BY <3>1, <3>2, <3>3, Zenon
  <2> QED
    BY <2>2, <2>3, Zenon
<1>8. Pending' \in [1..Len(store) -> Nat]
  <2>1. \A q \in 1..Len(store) : Pending'[q] \in Nat
    BY <1>2, <1>7
  <2>2. Pending' = [q \in 1..Len(store) |-> Pending'[q]]
    BY <1>2, <1>5
  <2> QED
    BY <2>1, <2>2
<1>9. SUFFICES ASSUME NEW t, IsSum(t, Pending', Len(store))
               PROVE  read' + t[Len(store)] <= budget'.bytes /\ read' + t[Len(store)] <= limits.max_bytes
  BY <1>1 DEF Charged
<1>10. PICK s : IsSum(s, Pending, Len(store))
  BY <1>2, SumsExist
<1>11. read + s[Len(store)] <= budget.bytes /\ read + s[Len(store)] <= limits.max_bytes
       /\ read \in Nat /\ budget.bytes \in Nat
  BY <1>10 DEF BudgetInv, Charged
<1>12. t[Len(store)] = s[Len(store)] + (new - old)
  <2>1. t[Len(store)] = s[Len(store)] + (Pending'[p] - Pending[p])
    <3>1. PICK N, w, v : N = Len(store) /\ w = Pending /\ v = Pending'
      OBVIOUS
    <3>2. N \in Nat /\ IsWeights(w, N) /\ IsWeights(v, N) /\ p \in 1..N
          /\ IsSum(s, w, N) /\ IsSum(t, v, N)
      BY <1>2, <1>8, <1>9, <1>10, <3>1 DEF IsWeights
    <3>3. AllBut(p, w, v, N)
      BY <1>2, <1>7, <3>1 DEF AllBut
    <3>4. t[N] = s[N] + (v[p] - w[p])
      BY <3>2, <3>3, SumChanges
    <3> QED
      BY <3>1, <3>4
  <2> QED
    BY <2>1, <1>7
<1>13. s[Len(store)] \in Nat /\ t[Len(store)] \in Nat
  BY <1>2, <1>9, <1>10 DEF IsSum
<1> DEFINE before == s[Len(store)]  after == t[Len(store)]  had == budget.bytes  charged == budget'.bytes
           most == limits.max_bytes
<1>14. before \in Nat /\ after \in Nat /\ had \in Nat /\ charged \in Nat /\ most \in Nat /\ read \in Nat /\ read' \in Nat
  BY <1>2, <1>11, <1>13
<1>15. after = before + (new - old) /\ read + before <= had /\ read + before <= most
  BY <1>11, <1>12
<1>16. read' + new - (read + old) <= charged - had /\ (read' + new <= read + old \/ charged <= most)
  OBVIOUS
<1> HIDE DEF before, after, had, charged, most
<1>17. read' + after <= charged /\ read' + after <= most
  BY <1>14, <1>15, <1>16
<1> QED
  BY <1>17 DEF after, charged, most

\* A thread that is not reading has nothing pending, before and after.
LEMMA IdleSteps ==
    ASSUME ScanInv, phase = "scan", ScanInv', UNCHANGED <<input, phase, budget, read>>, BudgetInv,
           NEW p \in Partitions, NEW u, scan' = [scan EXCEPT ![p] = u], u.state # "read"
    PROVE  BudgetInv'
<1>1. limits' = limits /\ limits.max_bytes \in Nat /\ budget.bytes \in Nat /\ read \in Nat
  BY PendingFacts DEF BudgetInv, limits
<1>2. PICK old : old = Pending[p]
  OBVIOUS
<1>3. old \in Nat
  BY <1>2, PendingFacts
<1>4. Charged'
  <2>1. read' \in Nat /\ budget'.bytes \in Nat /\ read' = read /\ budget'.bytes = budget.bytes
    BY <1>1
  <2>2. read' + 0 - (read + old) <= budget'.bytes - budget.bytes /\ read' + 0 <= read + old
    BY <1>1, <1>3, <2>1
  <2>3. 0 \in Nat /\ 0 = IF u.state = "read" THEN Sources(store[p])[u.at].file.bytes ELSE 0
    OBVIOUS
  <2> QED
    BY <1>2, <1>3, <2>1, <2>2, <2>3, ChargeSteps
<1> QED
  BY <1>1, <1>4 DEF BudgetInv

\* A thread reads on only when the total with its charge is in the budget.
LEMMA VisitCharges ==
    ASSUME ScanInv, BudgetInv, NEW p \in DOMAIN scan, Visit(p), ScanInv'
    PROVE  BudgetInv'
<1>1. phase = "scan" /\ scan[p].state = "visit" /\ UNCHANGED <<input, phase, read>>
  BY DEF Visit, Running
<1>2. p \in Partitions /\ IsSnapshot(store[p]) /\ IsThread(scan[p], Len(Sources(store[p])))
      /\ Len(Sources(store[p])) \in Nat
  BY <1>1, ThreadFacts
<1>3. scan[p].at <= Len(Sources(store[p]))
  BY DEF Visit
<1>4. PICK t : t = scan[p]
  OBVIOUS
<1>5. t.state = "visit" /\ t = [state |-> t.state, at |-> t.at, rows |-> t.rows, groups |-> t.groups]
      /\ t.at \in 1..Len(Sources(store[p]))
  BY <1>1, <1>2, <1>3, <1>4 DEF IsThread
<1>6. PICK b : b = SourceAt(p).file.bytes
  OBVIOUS
<1>7. b \in Nat
  BY <1>2, <1>4, <1>5, <1>6, SourcesFacts DEF SourceAt
<1>8. PICK skip \in BOOLEAN : skip = (SourceAt(p).kind = "segment" /\ can_skip(SourceAt(p).file, plan.pruning))
  OBVIOUS
<1>9. PICK r : r = [t EXCEPT !.state = "read"]
  OBVIOUS
<1>10. PICK v : v = [t EXCEPT !.at = @ + 1]
  OBVIOUS
<1>11. r = [state |-> "read", at |-> t.at, rows |-> t.rows, groups |-> t.groups]
       /\ v = [state |-> "visit", at |-> t.at + 1, rows |-> t.rows, groups |-> t.groups]
  BY <1>5, <1>9, <1>10
<1>12. \/ scan' = [scan EXCEPT ![p] = Failed("limit")] /\ UNCHANGED budget
       \/ scan' = [scan EXCEPT ![p] = v] /\ UNCHANGED budget
       \/ scan' = [scan EXCEPT ![p] = Failed("limit")] /\ budget' = [budget EXCEPT !.bytes = @ + b]
       \/ /\ ~OverBudget(b)
          /\ scan' = [scan EXCEPT ![p] = r] /\ budget' = [budget EXCEPT !.bytes = @ + b]
  <2>1. \/ scan' = [scan EXCEPT ![p] = Failed("limit")] /\ UNCHANGED budget
        \/ scan' = [scan EXCEPT ![p].at = @ + 1] /\ UNCHANGED budget
        \/ /\ scan' = [scan EXCEPT ![p] = IF OverBudget(b) THEN Failed("limit") ELSE [@ EXCEPT !.state = "read"]]
           /\ budget' = [budget EXCEPT !.bytes = @ + b]
    BY <1>6, <1>8 DEF Visit
  <2>2. CASE scan' = [scan EXCEPT ![p] = Failed("limit")] /\ UNCHANGED budget
    BY <2>2
  <2>3. CASE scan' = [scan EXCEPT ![p].at = @ + 1] /\ UNCHANGED budget
    BY <2>3, <1>4, <1>10
  <2>4. CASE /\ scan' = [scan EXCEPT ![p] = IF OverBudget(b) THEN Failed("limit") ELSE [@ EXCEPT !.state = "read"]]
             /\ budget' = [budget EXCEPT !.bytes = @ + b]
    <3>1. CASE OverBudget(b)
      BY <2>4, <3>1
    <3>2. CASE ~OverBudget(b)
      BY <2>4, <3>2, <1>4, <1>9
    <3> QED
      BY <3>1, <3>2
  <2> QED
    BY <2>1, <2>2, <2>3, <2>4
<1>13. Failed("limit").state = "failed" /\ r.state = "read" /\ r.at = t.at /\ v.state = "visit"
  BY <1>11 DEF Failed
<1>14. CASE \E u : scan' = [scan EXCEPT ![p] = u] /\ u.state # "read" /\ UNCHANGED budget
  BY <1>1, <1>2, <1>14, IdleSteps
<1>15. CASE \E u : /\ scan' = [scan EXCEPT ![p] = u] /\ budget' = [budget EXCEPT !.bytes = @ + b]
                   /\ u.state = "read" => u.at = t.at /\ ~OverBudget(b)
  <2>1. PICK u : /\ scan' = [scan EXCEPT ![p] = u] /\ budget' = [budget EXCEPT !.bytes = @ + b]
                 /\ u.state = "read" => u.at = t.at /\ ~OverBudget(b)
    BY <1>15
  <2>2. limits' = limits /\ limits.max_bytes \in Nat /\ budget.bytes \in Nat /\ read \in Nat /\ read' = read
    BY <1>1, PendingFacts DEF BudgetInv, limits
  <2>3. budget' = [bytes |-> budget'.bytes, truncated |-> budget'.truncated]
        /\ budget'.bytes = budget.bytes + b
    BY <2>1 DEF BudgetInv
  <2>4. Pending[p] = 0
    BY <1>1, <1>2 DEF Pending
  <2>5. PICK new : new = IF u.state = "read" THEN Sources(store[p])[u.at].file.bytes ELSE 0
    OBVIOUS
  <2>6. new = (IF u.state = "read" THEN b ELSE 0)
    BY <1>4, <1>6, <2>1, <2>5 DEF SourceAt
  <2>7. u.state = "read" => budget.bytes + b <= limits.max_bytes
    BY <1>7, <2>1, <2>2 DEF OverBudget
  <2>8. /\ new \in Nat /\ read' \in Nat /\ budget'.bytes \in Nat
        /\ read' + new - (read + 0) <= budget'.bytes - budget.bytes
        /\ read' + new <= read + 0 \/ budget'.bytes <= limits.max_bytes
    BY <1>7, <2>2, <2>3, <2>6, <2>7
  <2>9. Charged'
    <3>1. 0 \in Nat /\ 0 = Pending[p]
      BY <2>4
    <3> QED
      BY <1>1, <1>2, <2>1, <2>5, <2>8, <3>1, ChargeSteps
  <2> QED
    BY <1>1, <2>2, <2>3, <2>8, <2>9 DEF BudgetInv
<1> QED
  BY <1>12, <1>13, <1>14, <1>15

\* What a thread reads is what it has charged for.
LEMMA ReadCharges ==
    ASSUME ScanInv, BudgetInv, NEW p \in DOMAIN scan, Read(p), ScanInv'
    PROVE  BudgetInv'
<1>1. phase = "scan" /\ scan[p].state = "read" /\ UNCHANGED <<input, phase, budget>>
  BY DEF Read, Running
<1>2. p \in Partitions /\ IsSnapshot(store[p]) /\ IsThread(scan[p], Len(Sources(store[p])))
      /\ Len(Sources(store[p])) \in Nat
  BY <1>1, ThreadFacts
<1>3. PICK b : b = SourceAt(p).file.bytes
  OBVIOUS
<1>4. b \in Nat /\ limits.max_bytes \in Nat /\ limits' = limits /\ Len(store) \in Nat
      /\ Pending \in [1..Len(store) -> Nat]
  BY <1>1, <1>2, <1>3, PendingFacts DEF limits
<1>5. Pending[p] = b
  BY <1>1, <1>2, <1>3 DEF Pending
<1>6. PICK live : live = drop_suppressed(project_with_backfill(SourceAt(p).file.rows, plan.projection), SourceAt(p).suppressed, SourceAt(p).offset)
  OBVIOUS
<1>7. PICK rows : rows = matching(plan, live)
  OBVIOUS
<1>8. /\ scan' = [scan EXCEPT ![p] = IF live /= <<>> /\ ~(Resolves /\ Evaluates) THEN Failed("internal") ELSE Emit(@, rows)]
      /\ read' = read + b
  BY <1>3, <1>6, <1>7 DEF Read
<1>9. Failed("internal").state # "read" /\ Emit(scan[p], rows).state # "read"
  <2>1. Emit(scan[p], rows).state \in {"visit", "done"}
    BY <1>1, <1>2, EmitFacts
  <2> QED
    BY <2>1 DEF Failed
<1>10. PICK u : scan' = [scan EXCEPT ![p] = u] /\ u.state # "read"
  <2>1. CASE live /= <<>> /\ ~(Resolves /\ Evaluates)
    BY <1>8, <1>9, <2>1
  <2>2. CASE ~(live /= <<>> /\ ~(Resolves /\ Evaluates))
    BY <1>8, <1>9, <2>2
  <2> QED
    BY <2>1, <2>2
<1>11. budget.bytes \in Nat /\ read \in Nat /\ read' \in Nat /\ budget'.bytes = budget.bytes
  BY <1>1, <1>4, <1>8 DEF BudgetInv
<1>12. Charged'
  <2>1. 0 \in Nat /\ 0 = IF u.state = "read" THEN Sources(store[p])[u.at].file.bytes ELSE 0
    BY <1>10
  <2>2. read' + 0 - (read + b) <= budget'.bytes - budget.bytes /\ read' + 0 <= read + b
    BY <1>4, <1>8, <1>11
  <2>3. budget'.bytes \in Nat
    BY <1>11
  <2> QED
    BY <1>1, <1>2, <1>4, <1>5, <1>10, <1>11, <2>1, <2>2, <2>3, ChargeSteps
<1>13. read' <= limits.max_bytes
  <2>1. PICK s : IsSum(s, Pending, Len(store))
    BY <1>4, SumsExist
  <2>2. read + s[Len(store)] <= limits.max_bytes
    BY <1>1, <2>1 DEF BudgetInv, Charged
  <2>3. PICK v : v = [Pending EXCEPT ![p] = 0]
    OBVIOUS
  <2>4. IsWeights(Pending, Len(store)) /\ IsWeights(v, Len(store)) /\ AllBut(p, Pending, v, Len(store)) /\ p \in 1..Len(store)
        /\ v[p] = 0 /\ v \in [1..Len(store) -> Nat]
    BY <1>1, <1>2, <1>4, <2>3, PendingFacts DEF IsWeights, AllBut
  <2>5. PICK t : IsSum(t, v, Len(store))
    BY <1>4, <2>4, SumsExist
  <2>6. t[Len(store)] = s[Len(store)] + (0 - b)
    <3>1. t[Len(store)] = s[Len(store)] + (v[p] - Pending[p])
      BY <1>4, <2>1, <2>4, <2>5, SumChanges
    <3> QED
      BY <1>5, <2>4, <3>1
  <2>7. t[Len(store)] \in Nat /\ s[Len(store)] \in Nat
    BY <1>4, <2>1, <2>5 DEF IsSum
  <2> QED
    BY <1>4, <1>8, <1>11, <2>2, <2>6, <2>7
<1> QED
  BY <1>1, <1>4, <1>11, <1>12, <1>13 DEF BudgetInv

\* A thread that ends or fails reads nothing more.
LEMMA EndCharges ==
    ASSUME ScanInv, BudgetInv, NEW p \in DOMAIN scan, ReadFails(p) \/ ScanEnds(p), ScanInv'
    PROVE  BudgetInv'
<1>1. phase = "scan" /\ UNCHANGED <<input, phase, budget, read>>
  BY DEF ReadFails, ScanEnds, Running
<1>2. p \in Partitions /\ IsThread(scan[p], Len(Sources(store[p])))
  BY <1>1, ThreadFacts
<1>3. CASE ReadFails(p)
  <2>1. scan' = [scan EXCEPT ![p] = Failed("storage")] /\ Failed("storage").state # "read"
    BY <1>3 DEF ReadFails, Failed
  <2> QED
    BY <1>1, <1>2, <2>1, IdleSteps
<1>4. CASE ScanEnds(p)
  <2>1. PICK t : t = scan[p]
    OBVIOUS
  <2>2. t = [state |-> t.state, at |-> t.at, rows |-> t.rows, groups |-> t.groups]
    BY <1>2, <1>4, <2>1 DEF IsThread, ScanEnds
  <2>3. PICK u : u = [t EXCEPT !.state = "done"]
    OBVIOUS
  <2>4. scan' = [scan EXCEPT ![p] = u] /\ u.state = "done"
    BY <1>4, <2>1, <2>2, <2>3 DEF ScanEnds
  <2> QED
    BY <1>1, <1>2, <2>4, IdleSteps
<1> QED
  BY <1>3, <1>4

\* The coordinator and the clock read nothing, and charge nothing.
LEMMA CoordinatorCharges ==
    ASSUME ScanInv, BudgetInv, Coordinator \/ Clock \/ UNCHANGED vars, ScanInv'
    PROVE  BudgetInv'
<1>1. CASE UNCHANGED vars
  <2>1. UNCHANGED <<input, phase, scan, budget, read>>
    BY <1>1 DEF vars
  <2> QED
    BY <2>1 DEF BudgetInv, Charged, Pending, SourceAt, Partitions, store, limits
<1>2. CASE Clock
  <2>1. UNCHANGED <<input, phase, scan, budget, read>>
    BY <1>2 DEF Clock
  <2> QED
    BY <2>1 DEF BudgetInv, Charged, Pending, SourceAt, Partitions, store, limits
<1>3. CASE Translate \/ Lower \/ Validate \/ Build
  <2>1. UNCHANGED <<input, budget, read>> /\ phase' \in Phases \ {"scan", "finish"} /\ phase \in Phases \ {"scan", "finish", "done"}
    BY <1>3 DEF Translate, Lower, Validate, Build, End, Phases
  <2> QED
    BY <2>1 DEF BudgetInv, limits
<1>4. CASE MetadataCount \/ Collect
  <2>1. UNCHANGED <<input, budget, read>> /\ phase' \in {"finish", "done"}
    BY <1>4, Zenon DEF MetadataCount, Collect, Collected, End
  <2> QED
    BY <2>1 DEF BudgetInv, limits
<1>5. CASE Finish
  <2>1. UNCHANGED <<input, read>> /\ phase' = "done"
    BY <1>5 DEF Finish, End
  <2>2. budget' = budget \/ \E short : budget' = [budget EXCEPT !.truncated = @ \/ short]
    BY <1>5 DEF Finish
  <2>3. budget' = [bytes |-> budget'.bytes, truncated |-> budget'.truncated] /\ budget'.bytes = budget.bytes
    BY <2>2 DEF BudgetInv
  <2> QED
    BY <2>1, <2>3 DEF BudgetInv, limits
<1>6. CASE Spawn
  <2>1. phase = "execute" /\ phase' = "scan" /\ UNCHANGED <<input, budget, read>>
        /\ scan' = [p \in Partitions |-> Idle]
    BY <1>6 DEF Spawn
  <2>2. store' = store /\ Partitions' = Partitions /\ limits' = limits
    BY <2>1 DEF store, Partitions, limits
  <2>3. IsSequence(store) /\ limits.max_bytes \in Nat
    BY StoreFacts DEF store, limits, ScanInv
  <2>4. Len(store) \in Nat /\ Partitions = 1..Len(store)
    BY <2>3, SequenceIs DEF Partitions
  <2>5. Pending' = [p \in 1..Len(store) |-> 0]
    BY <2>1, <2>2, <2>4 DEF Pending, Idle
  <2>6. read = 0 /\ budget.bytes \in Nat
    BY <2>1 DEF BudgetInv, Phases
  <2>7. ASSUME NEW s, IsSum(s, Pending', Len(store))
        PROVE  s[Len(store)] = 0
    <3> DEFINE N == Len(store)
               S == { n \in 0..N : s[n] = 0 }
    <3>1. 0 \in S
      BY <2>4, <2>7 DEF IsSum
    <3>2. ASSUME NEW n \in 0..(N - 1), n \in S PROVE n + 1 \in S
      <4>1. n + 1 \in 1..N /\ (n + 1) - 1 = n
        BY <2>4
      <4>2. s[n + 1] = s[n] + Pending'[n + 1]
        BY <2>7, <4>1 DEF IsSum
      <4>3. Pending'[n + 1] = 0
        BY <2>5, <4>1
      <4> QED
        BY <3>2, <4>1, <4>2, <4>3
    <3> HIDE DEF S
    <3>3. 0..N \subseteq S
      BY <2>4, <3>1, <3>2, UpTo
    <3>4. N \in S
      BY <2>4, <3>3
    <3> QED
      BY <3>4 DEF S
  <2>8. Charged'
    BY <2>1, <2>2, <2>3, <2>6, <2>7 DEF Charged
  <2> QED
    BY <2>1, <2>2, <2>6, <2>8 DEF BudgetInv
<1> QED
  BY <1>1, <1>2, <1>3, <1>4, <1>5, <1>6 DEF Coordinator

\* However many threads share the budget, the bytes they read stay within
\* max_bytes: charge_bytes adds before the read, in one fetch_add whose total
\* it compares (budget.rs).
THEOREM ReadsAreCharged == Spec => []ReadsWithinBudget
<1>1. Init => BudgetInv
  <2> SUFFICES ASSUME Init PROVE BudgetInv
    OBVIOUS
  <2>1. limits.max_bytes \in Nat
    BY StoreFacts DEF Init, limits
  <2> QED
    BY <2>1 DEF Init, BudgetInv
<1>2. ScanInv /\ BudgetInv /\ [Next]_vars => ScanInv' /\ BudgetInv'
  <2> SUFFICES ASSUME ScanInv, BudgetInv, [Next]_vars PROVE ScanInv' /\ BudgetInv'
    OBVIOUS
  <2>1. ScanInv'
    BY ScanStep
  <2>2. CASE Coordinator \/ Clock \/ UNCHANGED vars
    BY <2>1, <2>2, CoordinatorCharges
  <2>3. ASSUME NEW p \in DOMAIN scan, Thread(p) \/ ReadFails(p) PROVE BudgetInv'
    BY <2>1, <2>3, VisitCharges, ReadCharges, EndCharges DEF Thread
  <2> QED
    BY <2>1, <2>2, <2>3 DEF Next, Ended
<1>3. BudgetInv => ReadsWithinBudget
  BY DEF BudgetInv, ReadsWithinBudget
<1> QED
  BY <1>1, <1>2, <1>3, ScanStarts, PTL DEF Spec

-----------------------------------------------------------------------------
(* Expressions and their parts.                                            *)

IsLayers(L, x, N) == L = [n \in 0..N |-> IF n = 0 THEN {x} ELSE Beneath(L[n - 1])]

\* Every expression has layers.
LEMMA LayersExist ==
    ASSUME NEW x, NEW N \in Nat
    PROVE  \E L : IsLayers(L, x, N)
<1> DEFINE S == { m \in 0..N : \E L : IsLayers(L, x, m) }
<1>1. 0 \in S
  <2>1. PICK L : L = [n \in 0..0 |-> {x}]
    OBVIOUS
  <2>2. IsLayers(L, x, 0)
    BY <2>1 DEF IsLayers
  <2> QED
    BY <2>2
<1>2. ASSUME NEW m \in 0..(N - 1), m \in S
      PROVE  m + 1 \in S
  <2>1. PICK L : IsLayers(L, x, m)
    BY <1>2
  <2>2. PICK K : K = [n \in 0..(m + 1) |-> IF n = m + 1 THEN Beneath(L[m]) ELSE L[n]]
    OBVIOUS
  <2>3. ASSUME NEW n \in 0..(m + 1) PROVE K[n] = IF n = 0 THEN {x} ELSE Beneath(K[n - 1])
    <3>1. CASE n = m + 1
      <4>1. n # 0 /\ n - 1 = m /\ K[n] = Beneath(L[m]) /\ K[m] = L[m]
        BY <2>2, <3>1
      <4> QED
        BY <4>1
    <3>2. CASE n # m + 1
      <4>1. n \in 0..m /\ K[n] = L[n] /\ (n # 0 => K[n - 1] = L[n - 1])
        BY <2>2, <3>2
      <4>2. L[n] = IF n = 0 THEN {x} ELSE Beneath(L[n - 1])
        BY <2>1, <4>1 DEF IsLayers
      <4> QED
        BY <4>1, <4>2
    <3> QED
      BY <3>1, <3>2
  <2>4. K = [n \in 0..(m + 1) |-> K[n]]
    BY <2>2
  <2>5. IsLayers(K, x, m + 1)
    BY <2>3, <2>4 DEF IsLayers
  <2> QED
    BY <2>5
<1> HIDE DEF S
<1>3. 0..N \subseteq S
  BY <1>1, <1>2, UpTo
<1> QED
  BY <1>3 DEF S

\* The parts of an expression are those of its layers.
LEMMA PartsAre ==
    ASSUME NEW x
    PROVE  \E L : /\ IsLayers(L, x, MaxDepth)
                  /\ Parts(x) = UNION {L[n] : n \in 0..MaxDepth}
<1> DEFINE layer[n \in 0..MaxDepth] == IF n = 0 THEN {x} ELSE Beneath(layer[n - 1])
<1>1. Parts(x) = UNION {layer[n] : n \in 0..MaxDepth}
  BY DEF Parts
<1>2. \E L : L = [n \in 0..MaxDepth |-> IF n = 0 THEN {x} ELSE Beneath(L[n - 1])]
  <2>1. MaxDepth \in Nat
    BY DepthIsBound
  <2> QED
    BY <2>1, LayersExist, ZenonT(30) DEF IsLayers
<1>3. layer = [n \in 0..MaxDepth |-> IF n = 0 THEN {x} ELSE Beneath(layer[n - 1])]
  BY <1>2
<1>4. IsLayers(layer, x, MaxDepth)
  BY <1>3 DEF IsLayers
<1> HIDE DEF layer
<1> QED
  BY <1>1, <1>4

\* A part and the layer it lies in.
LEMMA LayerFacts ==
    ASSUME NEW x, NEW L, IsLayers(L, x, MaxDepth), Parts(x) = UNION {L[n] : n \in 0..MaxDepth}
    PROVE  /\ L[0] = {x} /\ x \in Parts(x) /\ MaxDepth \in Nat
           /\ \A n \in 0..MaxDepth : L[n] \subseteq Parts(x)
           /\ \A n \in 0..(MaxDepth - 1) : \A y : y \in L[n] => Operands(y) \subseteq L[n + 1]
<1>1. MaxDepth \in Nat /\ 0 \in 0..MaxDepth
  BY DepthIsBound
<1>2. \A n \in 0..MaxDepth : L[n] = IF n = 0 THEN {x} ELSE Beneath(L[n - 1])
  BY DEF IsLayers
<1>3. L[0] = {x}
  BY <1>1, <1>2
<1>4. \A n \in 0..MaxDepth : L[n] \subseteq Parts(x)
  OBVIOUS
<1>5. x \in Parts(x)
  BY <1>1, <1>3, <1>4
<1>6. ASSUME NEW n \in 0..(MaxDepth - 1), NEW y \in L[n]
      PROVE  Operands(y) \subseteq L[n + 1]
  <2>1. n + 1 \in 0..MaxDepth /\ n + 1 # 0 /\ (n + 1) - 1 = n
    BY <1>1
  <2>2. L[n + 1] = Beneath(L[n])
    BY <1>2, <2>1
  <2> QED
    BY <2>2 DEF Beneath
<1> QED
  BY <1>1, <1>3, <1>4, <1>5, <1>6

\* An expression is one of its parts.
LEMMA PartsOfItself ==
    ASSUME NEW x
    PROVE  x \in Parts(x)
BY PartsAre, LayerFacts

\* The parts of an operator are itself and parts of its operands.
LEMMA PartsBelow ==
    ASSUME NEW x, NEW y \in Parts(x), y # x
    PROVE  \E o \in Operands(x) : y \in Parts(o)
<1>1. PICK L : IsLayers(L, x, MaxDepth) /\ Parts(x) = UNION {L[n] : n \in 0..MaxDepth}
  BY PartsAre
<1> DEFINE S == { n \in 0..MaxDepth : \A z \in L[n] : n > 0 =>
                     \E o \in Operands(x) : \E K :
                        /\ IsLayers(K, o, MaxDepth)
                        /\ Parts(o) = UNION {K[k] : k \in 0..MaxDepth}
                        /\ z \in K[n - 1] }
<1>2. MaxDepth \in Nat /\ L[0] = {x}
  BY <1>1, LayerFacts
<1>3. \A n \in 0..MaxDepth : L[n] = IF n = 0 THEN {x} ELSE Beneath(L[n - 1])
  BY <1>1 DEF IsLayers
<1>4. 0 \in S
  BY <1>2
<1>5. ASSUME NEW n \in 0..(MaxDepth - 1), n \in S
      PROVE  n + 1 \in S
  <2>1. n + 1 \in 0..MaxDepth /\ n + 1 # 0 /\ (n + 1) - 1 = n
    BY <1>2
  <2>2. L[n + 1] = Beneath(L[n])
    BY <1>3, <2>1
  <2>3. ASSUME NEW z \in L[n + 1]
        PROVE  \E o \in Operands(x) : \E K :
                        /\ IsLayers(K, o, MaxDepth)
                        /\ Parts(o) = UNION {K[k] : k \in 0..MaxDepth}
                        /\ z \in K[n]
    <3>1. PICK w \in L[n] : z \in Operands(w)
      BY <2>2 DEF Beneath
    <3>2. CASE n = 0
      <4>1. z \in Operands(x)
        BY <1>2, <3>1, <3>2
      <4>2. PICK K : IsLayers(K, z, MaxDepth) /\ Parts(z) = UNION {K[k] : k \in 0..MaxDepth}
        BY PartsAre
      <4>3. z \in K[0]
        BY <4>2, LayerFacts
      <4> QED
        BY <3>2, <4>1, <4>2, <4>3
    <3>3. CASE n > 0
      <4>a. PICK o \in Operands(x) : \E K : /\ IsLayers(K, o, MaxDepth)
                                          /\ Parts(o) = UNION {K[k] : k \in 0..MaxDepth}
                                          /\ w \in K[n - 1]
        BY <1>5, <3>1, <3>3
      <4>1. PICK K : /\ IsLayers(K, o, MaxDepth)
                     /\ Parts(o) = UNION {K[k] : k \in 0..MaxDepth}
                     /\ w \in K[n - 1]
        BY <4>a
      <4>2. n - 1 \in 0..(MaxDepth - 1) /\ (n - 1) + 1 = n
        BY <1>2, <3>3
      <4>3. Operands(w) \subseteq K[(n - 1) + 1]
        BY <4>1, <4>2, LayerFacts
      <4>4. z \in K[n]
        BY <3>1, <4>2, <4>3
      <4> QED
        BY <4>1, <4>4
    <3> QED
      BY <1>2, <3>2, <3>3
  <2> QED
    BY <2>1, <2>3
<1>6. 0..MaxDepth \subseteq S
  <2> HIDE DEF S
  <2> QED
    BY <1>2, <1>4, <1>5, UpTo
<1>7. PICK n \in 0..MaxDepth : y \in L[n]
  BY <1>1
<1>8. n > 0
  BY <1>2, <1>7
<1>a. PICK o \in Operands(x) : \E K : Parts(o) = UNION {K[k] : k \in 0..MaxDepth} /\ y \in K[n - 1]
  BY <1>6, <1>7, <1>8
<1>9. PICK K : Parts(o) = UNION {K[k] : k \in 0..MaxDepth} /\ y \in K[n - 1]
  BY <1>a
<1>10. n - 1 \in 0..MaxDepth
  BY <1>2, <1>8
<1> QED
  BY <1>9, <1>10

\* What cannot become an atom of its own.
Connective(y) == y.e = "not" \/ (y.e = "binary" /\ y.op \in {"and", "or"})

IsConjuncts(C, x, N) ==
    C = [n \in 0..N |-> [y \in Parts(x) |->
            IF n > 0 /\ y.e = "binary" /\ y.op = "and"
            THEN C[n - 1][y.left] \o C[n - 1][y.right] ELSE <<y>>]]

\* The conjuncts can be computed up to any depth.
LEMMA ConjunctsExist ==
    ASSUME NEW x, NEW N \in Nat
    PROVE  \E C : IsConjuncts(C, x, N)
<1> DEFINE S == { m \in 0..N : \E C : IsConjuncts(C, x, m) }
<1>1. 0 \in S
  <2>1. PICK C : C = [n \in 0..0 |-> [y \in Parts(x) |-> <<y>>]]
    OBVIOUS
  <2>2. IsConjuncts(C, x, 0)
    BY <2>1 DEF IsConjuncts
  <2> QED
    BY <2>2
<1>2. ASSUME NEW m \in 0..(N - 1), m \in S
      PROVE  m + 1 \in S
  <2>1. PICK C : IsConjuncts(C, x, m)
    BY <1>2
  <2> DEFINE At(D, n) == [y \in Parts(x) |->
            IF n > 0 /\ y.e = "binary" /\ y.op = "and"
            THEN D[n - 1][y.left] \o D[n - 1][y.right] ELSE <<y>>]
  <2>2. PICK K : K = [n \in 0..(m + 1) |-> IF n = m + 1 THEN At(C, m + 1) ELSE C[n]]
    OBVIOUS
  <2>a. \A n \in 0..m : C[n] = At(C, n)
    BY <2>1 DEF IsConjuncts
  <2>b. \A n \in 0..(m + 1) : n > 0 => n - 1 \in 0..m /\ K[n - 1] = C[n - 1]
    BY <2>2
  <2>c. \A n \in 0..(m + 1) : At(K, n) = At(C, n)
    BY <2>b
  <2>3. ASSUME NEW n \in 0..(m + 1) PROVE K[n] = At(K, n)
    <3>1. CASE n = m + 1
      <4>1. K[n] = At(C, n)
        <5> HIDE DEF At
        <5> QED
          BY <2>2, <3>1
      <4> HIDE DEF At
      <4> QED
        BY <2>c, <4>1
    <3>2. CASE n # m + 1
      <4>1. n \in 0..m
        BY <3>2
      <4> HIDE DEF At
      <4>2. K[n] = C[n]
        BY <2>2, <3>2, <4>1
      <4> QED
        BY <2>a, <2>c, <4>1, <4>2
    <3> QED
      BY <3>1, <3>2
  <2>4. K = [n \in 0..(m + 1) |-> K[n]]
    BY <2>2
  <2>5. K = [n \in 0..(m + 1) |-> At(K, n)]
    <3> HIDE DEF At
    <3> QED
      BY <2>3, <2>4
  <2>6. IsConjuncts(K, x, m + 1)
    BY <2>5 DEF IsConjuncts
  <2> QED
    BY <2>6
<1> HIDE DEF S
<1>3. 0..N \subseteq S
  BY <1>1, <1>2, UpTo
<1> QED
  BY <1>3 DEF S

\* conjuncts is what the computation over the layers makes.
LEMMA ConjunctsAre ==
    ASSUME NEW x
    PROVE  \E C : IsConjuncts(C, x, MaxDepth) /\ conjuncts(x) = C[MaxDepth][x]
<1> DEFINE of[n \in 0..MaxDepth] ==
            [y \in Parts(x) |-> IF n > 0 /\ y.e = "binary" /\ y.op = "and"
                             THEN of[n - 1][y.left] \o of[n - 1][y.right] ELSE <<y>>]
<1>1. conjuncts(x) = of[MaxDepth][x]
  BY DEF conjuncts
<1>2. \E C : IsConjuncts(C, x, MaxDepth)
  <2>1. MaxDepth \in Nat
    BY DepthIsBound
  <2> QED
    BY <2>1, ConjunctsExist
<1>4. IsConjuncts(of, x, MaxDepth)
  BY <1>2, Zenon DEF IsConjuncts
<1> HIDE DEF of
<1> QED
  BY <1>1, <1>4

IsTruth(D, x, row, N) ==
    D = [n \in 0..N |-> [y \in Parts(x) |->
            CASE y.e = "not" /\ n > 0 ->
                   [yes |-> D[n - 1][y.arg].no, no |-> D[n - 1][y.arg].yes]
              [] y.e = "binary" /\ y.op = "and" /\ n > 0 ->
                   [yes |-> D[n - 1][y.left].yes /\ D[n - 1][y.right].yes,
                    no |-> D[n - 1][y.left].no \/ D[n - 1][y.right].no]
              [] y.e = "binary" /\ y.op = "or" /\ n > 0 ->
                   [yes |-> D[n - 1][y.left].yes \/ D[n - 1][y.right].yes,
                    no |-> D[n - 1][y.left].no /\ D[n - 1][y.right].no]
              [] OTHER -> [yes |-> Holds(y, row), no |-> Fails(y, row)]]]

\* The truth of an expression can be computed up to any depth.
LEMMA TruthExists ==
    ASSUME NEW x, NEW row, NEW N \in Nat
    PROVE  \E D : IsTruth(D, x, row, N)
<1> DEFINE S == { m \in 0..N : \E D : IsTruth(D, x, row, m) }
           At(D, n) == [y \in Parts(x) |->
            CASE y.e = "not" /\ n > 0 ->
                   [yes |-> D[n - 1][y.arg].no, no |-> D[n - 1][y.arg].yes]
              [] y.e = "binary" /\ y.op = "and" /\ n > 0 ->
                   [yes |-> D[n - 1][y.left].yes /\ D[n - 1][y.right].yes,
                    no |-> D[n - 1][y.left].no \/ D[n - 1][y.right].no]
              [] y.e = "binary" /\ y.op = "or" /\ n > 0 ->
                   [yes |-> D[n - 1][y.left].yes \/ D[n - 1][y.right].yes,
                    no |-> D[n - 1][y.left].no /\ D[n - 1][y.right].no]
              [] OTHER -> [yes |-> Holds(y, row), no |-> Fails(y, row)]]
<1>0. ASSUME NEW D, NEW K, NEW n \in Nat, n > 0 => D[n - 1] = K[n - 1] PROVE At(D, n) = At(K, n)
  <2>1. CASE n = 0
    BY <2>1
  <2>2. CASE n > 0
    <3>1. D[n - 1] = K[n - 1]
      BY <1>0, <2>2
    <3> QED
      BY <3>1
  <2> QED
    BY <2>1, <2>2
<1>1. 0 \in S
  <2>1. PICK D : D = [n \in 0..0 |-> At(D, 0)]
    <3>1. PICK K : K = [n \in 0..0 |-> At(<<>>, 0)]
      OBVIOUS
    <3>2. At(K, 0) = At(<<>>, 0)
      BY <1>0
    <3> HIDE DEF At
    <3> QED
      BY <3>1, <3>2
  <2>2. D = [n \in 0..0 |-> At(D, n)]
    <3> HIDE DEF At
    <3> QED
      BY <2>1
  <2>3. IsTruth(D, x, row, 0)
    BY <2>2, Zenon DEF IsTruth
  <2> QED
    BY <2>3
<1>2. ASSUME NEW m \in 0..(N - 1), m \in S
      PROVE  m + 1 \in S
  <2>1. PICK C : IsTruth(C, x, row, m)
    BY <1>2
  <2>a. C = [n \in 0..m |-> At(C, n)]
    BY <2>1, Zenon DEF IsTruth
  <2>2. PICK K : K = [n \in 0..(m + 1) |-> IF n = m + 1 THEN At(C, m + 1) ELSE C[n]]
    OBVIOUS
  <2>3. K = [n \in 0..(m + 1) |-> At(K, n)]
    <3> HIDE DEF At
    <3>1. \A n \in 0..(m + 1) : n \in Nat /\ (n > 0 => K[n - 1] = C[n - 1])
      BY <2>2
    <3>2. \A n \in 0..(m + 1) : At(K, n) = At(C, n)
      BY <1>0, <3>1
    <3>3. \A n \in 0..(m + 1) : K[n] = At(C, n)
      BY <2>2, <2>a
    <3> QED
      BY <2>2, <3>2, <3>3
  <2>5. IsTruth(K, x, row, m + 1)
    BY <2>3, Zenon DEF IsTruth
  <2> QED
    BY <2>5
<1> HIDE DEF S
<1>3. 0..N \subseteq S
  BY <1>1, <1>2, UpTo
<1> QED
  BY <1>3 DEF S

\* IsTrue is what the computation over the layers makes.
LEMMA TruthIs ==
    ASSUME NEW x, NEW row
    PROVE  \E D : IsTruth(D, x, row, MaxDepth) /\ IsTrue(x, row) = D[MaxDepth][x].yes
<1> DEFINE truth[n \in 0..MaxDepth] == [y \in Parts(x) |->
            CASE y.e = "not" /\ n > 0 ->
                   [yes |-> truth[n - 1][y.arg].no, no |-> truth[n - 1][y.arg].yes]
              [] y.e = "binary" /\ y.op = "and" /\ n > 0 ->
                   [yes |-> truth[n - 1][y.left].yes /\ truth[n - 1][y.right].yes,
                    no |-> truth[n - 1][y.left].no \/ truth[n - 1][y.right].no]
              [] y.e = "binary" /\ y.op = "or" /\ n > 0 ->
                   [yes |-> truth[n - 1][y.left].yes \/ truth[n - 1][y.right].yes,
                    no |-> truth[n - 1][y.left].no /\ truth[n - 1][y.right].no]
              [] OTHER -> [yes |-> Holds(y, row), no |-> Fails(y, row)]]
<1>1. IsTrue(x, row) = truth[MaxDepth][x].yes
  BY DEF IsTrue
<1>2. \E D : IsTruth(D, x, row, MaxDepth)
  <2>1. MaxDepth \in Nat
    BY DepthIsBound
  <2> QED
    BY <2>1, TruthExists
<1>4. IsTruth(truth, x, row, MaxDepth)
  BY <1>2, Zenon DEF IsTruth
<1> HIDE DEF truth
<1> QED
  BY <1>1, <1>4

\* The conjuncts of a predicate are parts of it, and each one holds where
\* the predicate is true.
LEMMA ConjunctsHold ==
    ASSUME NEW x
    PROVE  /\ IsSequence(conjuncts(x)) /\ ToSet(conjuncts(x)) \subseteq Parts(x)
           /\ \A row : IsTrue(x, row) => \A c \in ToSet(conjuncts(x)) : Connective(c) \/ Holds(c, row)
<1>1. PICK L : IsLayers(L, x, MaxDepth) /\ Parts(x) = UNION {L[n] : n \in 0..MaxDepth}
  BY PartsAre
<1>2. PICK C : IsConjuncts(C, x, MaxDepth) /\ conjuncts(x) = C[MaxDepth][x]
  BY ConjunctsAre
<1>3. MaxDepth \in Nat /\ L[0] = {x} /\ x \in Parts(x)
      /\ \A n \in 0..MaxDepth : L[n] \subseteq Parts(x)
  BY <1>1, LayerFacts
<1>4. ASSUME NEW n \in 0..MaxDepth, NEW y \in Parts(x)
      PROVE  C[n][y] = IF n > 0 /\ y.e = "binary" /\ y.op = "and"
                       THEN C[n - 1][y.left] \o C[n - 1][y.right] ELSE <<y>>
  <2>1. C[n] = [z \in Parts(x) |-> IF n > 0 /\ z.e = "binary" /\ z.op = "and"
                       THEN C[n - 1][z.left] \o C[n - 1][z.right] ELSE <<z>>]
    BY <1>2 DEF IsConjuncts
  <2> QED
    BY <2>1
<1>a. ASSUME NEW y \in Parts(x) PROVE C[0][y] = <<y>>
  <2>1. 0 \in 0..MaxDepth
    BY <1>3
  <2>2. C[0][y] = IF 0 > 0 /\ y.e = "binary" /\ y.op = "and"
                  THEN C[0 - 1][y.left] \o C[0 - 1][y.right] ELSE <<y>>
    BY <1>4, <2>1, Zenon
  <2> QED
    BY <2>2
<1>5. ASSUME NEW n \in 0..(MaxDepth - 1), NEW y \in L[MaxDepth - (n + 1)], y.e = "binary"
      PROVE  y.left \in L[MaxDepth - n] /\ y.right \in L[MaxDepth - n]
  <2>1. MaxDepth - (n + 1) \in 0..(MaxDepth - 1) /\ (MaxDepth - (n + 1)) + 1 = MaxDepth - n
    BY <1>3
  <2>2. Operands(y) \subseteq L[MaxDepth - n]
    BY <1>1, <2>1, LayerFacts
  <2>3. Operands(y) = {y.left, y.right}
    BY <1>5 DEF Operands
  <2> QED
    BY <2>2, <2>3
<1>6. ASSUME NEW y PROVE IsSequence(<<y>>) /\ ToSet(<<y>>) = {y}
  <2>1. <<y>> \in Seq({y}) /\ DOMAIN <<y>> = {1} /\ <<y>>[1] = y
    OBVIOUS
  <2>2. IsSequence(<<y>>)
    BY <2>1, SequenceIs
  <2>3. ToSet(<<y>>) = {y}
    BY <2>1 DEF ToSet
  <2> QED
    BY <2>2, <2>3
<1> DEFINE S == { n \in 0..MaxDepth : \A y \in L[MaxDepth - n] :
                    IsSequence(C[n][y]) /\ ToSet(C[n][y]) \subseteq Parts(x) }
<1>7. 0 \in S
  <2>0. MaxDepth - 0 = MaxDepth /\ MaxDepth \in 0..MaxDepth /\ 0 \in 0..MaxDepth
    BY <1>3
  <2>1. \A y \in L[MaxDepth - 0] : y \in Parts(x)
    BY <1>3, <2>0
  <2>2. ASSUME NEW y \in L[MaxDepth - 0] PROVE IsSequence(C[0][y]) /\ ToSet(C[0][y]) \subseteq Parts(x)
    <3>1. y \in Parts(x)
      BY <2>1
    <3>2. C[0][y] = <<y>>
      BY <1>a, <3>1
    <3> QED
      BY <1>6, <3>1, <3>2
  <2> QED
    BY <2>0, <2>2
<1>8. ASSUME NEW n \in 0..(MaxDepth - 1), n \in S
      PROVE  n + 1 \in S
  <2>2. MaxDepth - (n + 1) \in 0..MaxDepth /\ n + 1 \in 0..MaxDepth /\ (n + 1) - 1 = n /\ n + 1 > 0
    BY <1>3
  <2>1. SUFFICES ASSUME NEW y \in L[MaxDepth - (n + 1)]
                 PROVE  IsSequence(C[n + 1][y]) /\ ToSet(C[n + 1][y]) \subseteq Parts(x)
    BY <2>2
  <2>3. y \in Parts(x)
    BY <1>3, <2>2
  <2>4. CASE y.e = "binary" /\ y.op = "and"
    <3>1. C[n + 1][y] = C[n][y.left] \o C[n][y.right]
      BY <1>4, <2>2, <2>3, <2>4
    <3>2. y.left \in L[MaxDepth - n] /\ y.right \in L[MaxDepth - n]
      BY <1>5, <2>4
    <3>3. IsSequence(C[n][y.left]) /\ IsSequence(C[n][y.right])
      BY <1>8, <3>2
    <3>4. ToSet(C[n][y.left]) \subseteq Parts(x) /\ ToSet(C[n][y.right]) \subseteq Parts(x)
      BY <1>8, <3>2
    <3>5. IsSequence(C[n + 1][y]) /\ ToSet(C[n + 1][y]) = ToSet(C[n][y.left]) \cup ToSet(C[n][y.right])
      BY <3>1, <3>3, Concatenates
    <3> QED
      BY <3>4, <3>5
  <2>5. CASE ~(y.e = "binary" /\ y.op = "and")
    <3>1. C[n + 1][y] = <<y>>
      BY <1>4, <2>2, <2>3, <2>5
    <3> QED
      BY <1>6, <2>3, <3>1
  <2> QED
    BY <2>4, <2>5
<1>9. 0..MaxDepth \subseteq S
  <2> HIDE DEF S
  <2> QED
    BY <1>3, <1>7, <1>8, UpTo
<1>10. IsSequence(conjuncts(x)) /\ ToSet(conjuncts(x)) \subseteq Parts(x)
  <2>1. MaxDepth \in S /\ MaxDepth - MaxDepth = 0
    BY <1>3, <1>9
  <2> QED
    BY <1>2, <1>3, <2>1
<1>11. ASSUME NEW row, IsTrue(x, row)
       PROVE  \A c \in ToSet(conjuncts(x)) : Connective(c) \/ Holds(c, row)
  <2>1. PICK D : IsTruth(D, x, row, MaxDepth) /\ IsTrue(x, row) = D[MaxDepth][x].yes
    BY TruthIs
  <2>2. ASSUME NEW n \in 0..MaxDepth, NEW y \in Parts(x)
        PROVE  /\ n > 0 /\ y.e = "binary" /\ y.op = "and" =>
                    D[n][y].yes = (D[n - 1][y.left].yes /\ D[n - 1][y.right].yes)
               /\ ~Connective(y) => D[n][y].yes = Holds(y, row)
    <3>0. D[n] = [z \in Parts(x) |-> CASE z.e = "not" /\ n > 0 ->
                   [yes |-> D[n - 1][z.arg].no, no |-> D[n - 1][z.arg].yes]
              [] z.e = "binary" /\ z.op = "and" /\ n > 0 ->
                   [yes |-> D[n - 1][z.left].yes /\ D[n - 1][z.right].yes,
                    no |-> D[n - 1][z.left].no \/ D[n - 1][z.right].no]
              [] z.e = "binary" /\ z.op = "or" /\ n > 0 ->
                   [yes |-> D[n - 1][z.left].yes \/ D[n - 1][z.right].yes,
                    no |-> D[n - 1][z.left].no /\ D[n - 1][z.right].no]
              [] OTHER -> [yes |-> Holds(z, row), no |-> Fails(z, row)]]
      BY <2>1, Zenon DEF IsTruth
    <3>1. D[n][y] = CASE y.e = "not" /\ n > 0 ->
                   [yes |-> D[n - 1][y.arg].no, no |-> D[n - 1][y.arg].yes]
              [] y.e = "binary" /\ y.op = "and" /\ n > 0 ->
                   [yes |-> D[n - 1][y.left].yes /\ D[n - 1][y.right].yes,
                    no |-> D[n - 1][y.left].no \/ D[n - 1][y.right].no]
              [] y.e = "binary" /\ y.op = "or" /\ n > 0 ->
                   [yes |-> D[n - 1][y.left].yes \/ D[n - 1][y.right].yes,
                    no |-> D[n - 1][y.left].no /\ D[n - 1][y.right].no]
              [] OTHER -> [yes |-> Holds(y, row), no |-> Fails(y, row)]
      BY <3>0
    <3>2. n > 0 /\ y.e = "binary" /\ y.op = "and" =>
             D[n][y] = [yes |-> D[n - 1][y.left].yes /\ D[n - 1][y.right].yes,
                    no |-> D[n - 1][y.left].no \/ D[n - 1][y.right].no]
      BY <3>1
    <3>3. ~Connective(y) => D[n][y] = [yes |-> Holds(y, row), no |-> Fails(y, row)]
      BY <3>1 DEF Connective
    <3> QED
      BY <3>2, <3>3
  <2> DEFINE Q == { n \in 0..MaxDepth : \A y \in L[MaxDepth - n] : D[n][y].yes =>
                      \A c \in ToSet(C[n][y]) : Connective(c) \/ Holds(c, row) }
  <2>3. 0 \in Q
    <3>0. MaxDepth - 0 = MaxDepth /\ MaxDepth \in 0..MaxDepth /\ 0 \in 0..MaxDepth
      BY <1>3
    <3>1. \A y \in L[MaxDepth - 0] : y \in Parts(x)
      BY <1>3, <3>0
    <3>2. \A y \in L[MaxDepth - 0] : C[0][y] = <<y>>
      BY <1>a, <3>1
    <3>3. ASSUME NEW y \in L[MaxDepth - 0], D[0][y].yes, NEW c \in ToSet(C[0][y])
          PROVE  Connective(c) \/ Holds(c, row)
      <4>1. c = y
        BY <1>6, <3>2, <3>3
      <4>2. ~Connective(y) => D[0][y].yes = Holds(y, row)
        BY <2>2, <3>0, <3>1
      <4> QED
        BY <3>3, <4>1, <4>2
    <3> QED
      BY <3>0, <3>3
  <2>4. ASSUME NEW n \in 0..(MaxDepth - 1), n \in Q
        PROVE  n + 1 \in Q
    <3>2. MaxDepth - (n + 1) \in 0..MaxDepth /\ n + 1 \in 0..MaxDepth /\ (n + 1) - 1 = n /\ n + 1 > 0
      BY <1>3
    <3>1. SUFFICES ASSUME NEW y \in L[MaxDepth - (n + 1)], D[n + 1][y].yes,
                          NEW c \in ToSet(C[n + 1][y])
                   PROVE  Connective(c) \/ Holds(c, row)
      BY <3>2
    <3>3. y \in Parts(x)
      BY <1>3, <3>2
    <3>4. CASE y.e = "binary" /\ y.op = "and"
      <4>1. C[n + 1][y] = C[n][y.left] \o C[n][y.right]
        BY <1>4, <3>2, <3>3, <3>4
      <4>2. y.left \in L[MaxDepth - n] /\ y.right \in L[MaxDepth - n]
        BY <1>5, <3>4
      <4>a. n \in S
        BY <1>3, <1>9
      <4>3. IsSequence(C[n][y.left]) /\ IsSequence(C[n][y.right])
        BY <4>2, <4>a
      <4>4. c \in ToSet(C[n][y.left]) \/ c \in ToSet(C[n][y.right])
        BY <3>1, <4>1, <4>3, Concatenates
      <4>5. D[n + 1][y].yes = (D[n][y.left].yes /\ D[n][y.right].yes)
        <5>1. D[n + 1][y].yes = (D[(n + 1) - 1][y.left].yes /\ D[(n + 1) - 1][y.right].yes)
          BY <2>2, <3>2, <3>3, <3>4
        <5> QED
          BY <3>2, <5>1
      <4>6. D[n][y.left].yes /\ D[n][y.right].yes
        BY <3>1, <4>5
      <4> QED
        BY <2>4, <4>2, <4>4, <4>6
    <3>5. CASE ~(y.e = "binary" /\ y.op = "and")
      <4>1. C[n + 1][y] = <<y>>
        BY <1>4, <3>2, <3>3, <3>5
      <4>2. c = y
        BY <1>6, <3>1, <4>1
      <4>3. ~Connective(y) => D[n + 1][y].yes = Holds(y, row)
        BY <2>2, <3>2, <3>3
      <4> QED
        BY <3>1, <4>2, <4>3
    <3> QED
      BY <3>4, <3>5
  <2>5. 0..MaxDepth \subseteq Q
    <3> HIDE DEF Q
    <3> QED
      BY <1>3, <2>3, <2>4, UpTo
  <2>6. MaxDepth \in Q /\ MaxDepth - MaxDepth = 0
    BY <1>3, <2>5
  <2> QED
    BY <1>2, <1>3, <1>11, <2>1, <2>6
<1> QED
  BY <1>10, <1>11

-----------------------------------------------------------------------------
(* Values, and the statistics of a segment.                                *)

\* Some element of a nonempty set of indices has the least value.
LEMMA LeastIndex ==
    ASSUME NEW N \in Nat, NEW m \in [1..N -> Int], NEW K, K \subseteq 1..N, K # {}
    PROVE  \E i \in K : \A j \in K : m[i] <= m[j]
<1> DEFINE S == { n \in 0..N : \A J : J \subseteq 1..n /\ J # {} => \E i \in J : \A j \in J : m[i] <= m[j] }
<1>1. 0 \in S
  <2>1. 1..0 = {}
    OBVIOUS
  <2> QED
    BY <2>1
<1>2. ASSUME NEW n \in 0..(N - 1), n \in S
      PROVE  n + 1 \in S
  <2>1. n + 1 \in 0..N /\ n + 1 \in 1..N
    OBVIOUS
  <2>2. ASSUME NEW J, J \subseteq 1..(n + 1), J # {}
        PROVE  \E i \in J : \A j \in J : m[i] <= m[j]
    <3>1. J \ {n + 1} \subseteq 1..n
      BY <2>2
    <3>2. CASE n + 1 \notin J
      <4>1. J \subseteq 1..n
        BY <3>1, <3>2
      <4> QED
        BY <1>2, <2>2, <4>1
    <3>3. CASE J = {n + 1}
      BY <2>1, <3>3
    <3>4. CASE n + 1 \in J /\ J # {n + 1}
      <4>1. J \ {n + 1} # {}
        BY <3>4
      <4>2. PICK i \in J \ {n + 1} : \A j \in J \ {n + 1} : m[i] <= m[j]
        BY <1>2, <3>1, <4>1
      <4>3. \A j \in J : m[j] \in Int
        BY <2>1, <2>2
      <4>4. CASE m[i] <= m[n + 1]
        BY <4>2, <4>4
      <4>5. CASE ~(m[i] <= m[n + 1])
        <5>1. \A j \in J : m[n + 1] <= m[j]
          BY <3>4, <4>2, <4>3, <4>5
        <5> QED
          BY <3>4, <5>1
      <4> QED
        BY <4>4, <4>5
    <3> QED
      BY <3>2, <3>3, <3>4
  <2> QED
    BY <2>1, <2>2
<1>3. 0..N \subseteq S
  <2> HIDE DEF S
  <2> QED
    BY <1>1, <1>2, UpTo
<1>4. N \in S
  <2> HIDE DEF S
  <2> QED
    BY <1>3
<1> QED
  BY <1>4

\* A value that a column of type t holds.
Typed(v, t) == v \in Scalars /\ v[1] = Stored(t)

\* A scalar is a kind and a number.
LEMMA ScalarFacts ==
    ASSUME NEW v \in Scalars
    PROVE  /\ v = <<v[1], v[2]>> /\ v[2] \in Int /\ v[1] \in DOMAIN discriminant
           /\ Magnitude(v) \in Int
           /\ discriminant[v[1]] \in Nat
<1>1. v = <<v[1], v[2]>> /\ v[2] \in Int /\ v[1] \in DOMAIN discriminant
  BY DEF Scalars
<1>2. Magnitude(v) \in Int
  BY <1>1 DEF Magnitude, One
<1>3. discriminant[v[1]] \in Nat
  BY <1>1 DEF discriminant
<1> QED
  BY <1>1, <1>2, <1>3

\* Values of one type are ordered by their numbers.
LEMMA TypedOrder ==
    ASSUME NEW t \in DataTypes, NEW v, NEW w, Typed(v, t), Typed(w, t)
    PROVE  /\ Magnitude(v) \in Int /\ Magnitude(w) \in Int
           /\ Precedes(v, w) <=> Magnitude(v) < Magnitude(w)
           /\ Precedes(w, v) <=> Magnitude(w) < Magnitude(v)
           /\ Magnitude(v) = Magnitude(w) => v = w
           /\ v # Null /\ w # Null
<1>1. v = <<v[1], v[2]>> /\ v[2] \in Int /\ w = <<w[1], w[2]>> /\ w[2] \in Int /\ v[1] = w[1]
      /\ discriminant[v[1]] \in Nat /\ Magnitude(v) \in Int /\ Magnitude(w) \in Int
  BY ScalarFacts DEF Typed
<1>2. (Precedes(v, w) <=> Magnitude(v) < Magnitude(w)) /\ (Precedes(w, v) <=> Magnitude(w) < Magnitude(v))
  BY <1>1 DEF Precedes
<1>3. Magnitude(v) = Magnitude(w) => v = w
  <2>1. Magnitude(v) = Magnitude(w) => v[2] = w[2]
    BY <1>1 DEF Magnitude, One
  <2> QED
    BY <1>1, <2>1
<1>4. Stored(t) # "null"
  BY DEF Stored, DataTypes
<1>5. v # Null /\ w # Null
  BY <1>4 DEF Null, Typed
<1> QED
  BY <1>1, <1>2, <1>3, <1>5

\* The column of a name that is in a schema has that name.
LEMMA ColumnIs ==
    ASSUME NEW schema, NEW c \in Names(schema)
    PROVE  Column(schema, c) \in ToSet(schema) /\ Column(schema, c).name = c
<1>1. \E d \in ToSet(schema) : d.name = c
  BY DEF Names, ToSet
<1> QED
  BY <1>1 DEF Column

\* The columns of the table have types.
LEMMA TableTypes ==
    ASSUME NEW c \in Names(Table)
    PROVE  Column(Table, c).type \in DataTypes /\ Column(Table, c).name = c
BY TableIsSchema, ColumnIs

Covers(stats, v, t) ==
    /\ Typed(stats.min, t) /\ Typed(stats.max, t)
    /\ Magnitude(stats.min) <= Magnitude(v) /\ Magnitude(v) <= Magnitude(stats.max)
    /\ stats.has_bloom => probes(v) \subseteq stats.bloom

\* What the statistics of a segment say of each value in it.
LEMMA StatisticsCover ==
    ASSUME NEW s, IsSegment(s), NEW c \in DOMAIN s.stats, NEW r \in DOMAIN s.rows
    PROVE  /\ c \in Names(Table) /\ DOMAIN s.rows[r] = DOMAIN s.stats
           /\ s.rows[r][c] = Null \/ Typed(s.rows[r][c], Column(Table, c).type)
           /\ s.rows[r][c] # Null /\ Column(Table, c).type # "json" =>
                 Covers(s.stats[c], s.rows[r][c], Column(Table, c).type)
           /\ s.stats[c].null_count = 0 => s.rows[r][c] # Null
           /\ s.stats[c].null_count = Len(s.rows) => s.rows[r][c] = Null
<1>1. PICK rows : rows = s.rows
  OBVIOUS
<1>2. PICK t : t = Column(Table, c).type
  OBVIOUS
<1>3. c \in Names(Table) /\ t \in DataTypes /\ Column(Table, c).name = c
  BY <1>2, TableTypes DEF IsSegment
<1>4. rows \in Seq([DOMAIN s.stats -> Scalars])
  BY <1>1 DEF IsSegment
<1>5. Len(rows) \in Nat /\ DOMAIN rows = 1..Len(rows)
      /\ \A i \in 1..Len(rows) : rows[i] \in [DOMAIN s.stats -> Scalars]
  BY <1>4
<1>6. \A i \in 1..Len(rows) : rows[i][c] \in Scalars /\ DOMAIN rows[i] = DOMAIN s.stats
  BY <1>5
<1>7. \A i \in 1..Len(rows) : rows[i][c] = Null \/ Typed(rows[i][c], t)
  BY <1>1, <1>2, <1>5, <1>6 DEF IsSegment, Typed
<1>8. s.stats[c] = ColumnStats(Column(Table, c), rows)
  BY <1>1 DEF IsSegment
<1> DEFINE col == Column(Table, c)
           values == {rows[i][col.name] : i \in DOMAIN rows} \ {Null}
           kept == IF col.type = "json" THEN {} ELSE values
           least == CHOOSE v \in kept : \A w \in kept : ~Precedes(w, v)
           greatest == CHOOSE v \in kept : \A w \in kept : ~Precedes(v, w)
           bloom == wants_bloom_filter(col) /\ is_filterable(col.type) /\ rows /= <<>>
           nulls == {i \in DOMAIN rows : rows[i][col.name] = Null}
<1>9. s.stats[c] = [min |-> IF kept = {} THEN Null ELSE least,
         max |-> IF kept = {} THEN Null ELSE greatest,
         null_count |-> Cardinality(nulls),
         has_bloom |-> bloom,
         bloom |-> IF bloom THEN UNION {probes(v) : v \in values} ELSE {}]
  BY <1>8 DEF ColumnStats
<1>10. values = {rows[i][c] : i \in 1..Len(rows)} \ {Null} /\ nulls = {i \in 1..Len(rows) : rows[i][c] = Null}
  BY <1>3, <1>5
<1>11. \A v \in values : Typed(v, t)
  BY <1>7, <1>10
<1>12. r \in 1..Len(rows)
  BY <1>1, <1>5
<1>13. ASSUME rows[r][c] # Null, t # "json"
       PROVE  Covers(s.stats[c], rows[r][c], t)
  <2>1. kept = values
    BY <1>2, <1>13
  <2>2. rows[r][c] \in values
    BY <1>10, <1>12, <1>13
  <2> DEFINE K == {i \in 1..Len(rows) : rows[i][c] # Null}
             m == [i \in 1..Len(rows) |-> Magnitude(rows[i][c])]
  <2>3. m \in [1..Len(rows) -> Int]
    BY <1>6, ScalarFacts
  <2>4. K \subseteq 1..Len(rows) /\ K # {}
    BY <1>12, <1>13
  <2>5. PICK i \in K : \A j \in K : m[i] <= m[j]
    <3> HIDE DEF m, K
    <3> QED
      BY <1>5, <2>3, <2>4, LeastIndex
  <2>6. PICK k \in K : \A j \in K : m[j] <= m[k]
    <3> DEFINE n == [j \in 1..Len(rows) |-> -m[j]]
    <3>1. n \in [1..Len(rows) -> Int]
      <4> HIDE DEF m
      <4> QED
        BY <2>3
    <3>2. PICK k \in K : \A j \in K : n[k] <= n[j]
      <4> HIDE DEF n, K
      <4> QED
        BY <1>5, <2>4, <3>1, LeastIndex
    <3>3. \A j \in K : n[k] = -m[k] /\ n[j] = -m[j] /\ m[k] \in Int /\ m[j] \in Int
      BY <2>3, <2>4
    <3> HIDE DEF n, m, K
    <3> QED
      BY <3>2, <3>3
  <2>7. \A v \in values : \E j \in K : v = rows[j][c] /\ m[j] = Magnitude(v)
    BY <1>10
  <2>8. rows[i][c] \in values /\ \A w \in values : ~Precedes(w, rows[i][c])
    <3>1. rows[i][c] \in values
      BY <1>10
    <3>2. ASSUME NEW w \in values PROVE ~Precedes(w, rows[i][c])
      <4>1. PICK j \in K : w = rows[j][c] /\ m[j] = Magnitude(w)
        BY <2>7
      <4>2. m[i] <= m[j] /\ m[i] = Magnitude(rows[i][c])
        BY <2>5
      <4>3. Typed(w, t) /\ Typed(rows[i][c], t)
        BY <1>11, <3>1
      <4> HIDE DEF m, K
      <4> QED
        BY <1>3, <4>1, <4>2, <4>3, TypedOrder
    <3> QED
      BY <3>1, <3>2
  <2>9. rows[k][c] \in values /\ \A w \in values : ~Precedes(rows[k][c], w)
    <3>1. rows[k][c] \in values
      BY <1>10
    <3>2. ASSUME NEW w \in values PROVE ~Precedes(rows[k][c], w)
      <4>1. PICK j \in K : w = rows[j][c] /\ m[j] = Magnitude(w)
        BY <2>7
      <4>2. m[j] <= m[k] /\ m[k] = Magnitude(rows[k][c])
        BY <2>6
      <4>3. Typed(w, t) /\ Typed(rows[k][c], t)
        BY <1>11, <3>1
      <4> HIDE DEF m, K
      <4> QED
        BY <1>3, <4>1, <4>2, <4>3, TypedOrder
    <3> QED
      BY <3>1, <3>2
  <2>10. least \in values /\ \A w \in values : ~Precedes(w, least)
    <3> HIDE DEF values
    <3> QED
      BY <2>1, <2>8
  <2>11. greatest \in values /\ \A w \in values : ~Precedes(greatest, w)
    <3> HIDE DEF values
    <3> QED
      BY <2>1, <2>9
  <2>12. s.stats[c].min = least /\ s.stats[c].max = greatest
         /\ s.stats[c].has_bloom = bloom /\ (bloom => s.stats[c].bloom = UNION {probes(v) : v \in values})
    <3>1. kept # {}
      BY <2>1, <2>2
    <3> HIDE DEF least, greatest, bloom, values, kept, nulls
    <3> QED
      BY <1>9, <3>1
  <2>13. Typed(least, t) /\ Typed(greatest, t) /\ Typed(rows[r][c], t)
    <3> HIDE DEF least, greatest, values
    <3> QED
      BY <1>11, <2>2, <2>10, <2>11
  <2>14. ~Precedes(rows[r][c], least) /\ ~Precedes(greatest, rows[r][c])
    <3> HIDE DEF least, greatest, values
    <3> QED
      BY <2>2, <2>10, <2>11
  <2> HIDE DEF least, greatest, bloom, values
  <2>15. Magnitude(least) <= Magnitude(rows[r][c]) /\ Magnitude(rows[r][c]) <= Magnitude(greatest)
    BY <1>3, <2>13, <2>14, TypedOrder
  <2>16. s.stats[c].has_bloom => probes(rows[r][c]) \subseteq s.stats[c].bloom
    BY <2>2, <2>12
  <2> QED
    BY <2>12, <2>13, <2>15, <2>16 DEF Covers
<1>14. s.stats[c].null_count = Cardinality(nulls)
  <2> HIDE DEF least, greatest, bloom, values, kept, nulls
  <2> QED
    BY <1>9
<1>15. IsFiniteSet(1..Len(rows)) /\ Cardinality(1..Len(rows)) = Len(rows)
  <2>1. 1 \in Int /\ Len(rows) \in Int
    BY <1>5
  <2>2. IsFiniteSet(1..Len(rows)) /\ Cardinality(1..Len(rows)) = IF 1 > Len(rows) THEN 0 ELSE Len(rows) - 1 + 1
    BY <2>1, FS_Interval
  <2> QED
    BY <1>5, <2>2
<1>16. nulls \subseteq 1..Len(rows) /\ IsFiniteSet(nulls)
  <2>1. nulls \subseteq 1..Len(rows)
    BY <1>10
  <2> HIDE DEF nulls
  <2> QED
    BY <1>15, <2>1, FS_Subset
<1>17. s.stats[c].null_count = 0 => rows[r][c] # Null
  <2>1. s.stats[c].null_count = 0 => nulls = {}
    <3> HIDE DEF nulls
    <3> QED
      BY <1>14, <1>16, FS_EmptySet
  <2> QED
    BY <1>10, <1>12, <2>1
<1>18. s.stats[c].null_count = Len(rows) => rows[r][c] = Null
  <2>1. s.stats[c].null_count = Len(rows) => nulls = 1..Len(rows)
    <3> HIDE DEF nulls
    <3> QED
      BY <1>14, <1>15, <1>16, FS_Subset
  <2> QED
    BY <1>10, <1>12, <2>1
<1> QED
  BY <1>1, <1>2, <1>3, <1>6, <1>7, <1>12, <1>13, <1>17, <1>18

\* A value that may be compared with a column of type t.
Suits(v, t) == v = Null \/ Typed(v, t)

\* A part whose comparisons of columns with constants are of one type.
SuitsColumn(x, v, schema) ==
    x.e = "column" => x.name \in Names(schema) /\ Suits(v, Column(schema, x.name).type)
Fit(y, schema) ==
    /\ IsPart(y)
    /\ y.e = "column" => y.name \in Names(schema)
    /\ y.e = "binary" /\ y.op \in comparison =>
          /\ y.right.e = "literal" => SuitsColumn(y.left, y.right.value, schema)
          /\ y.left.e = "literal" => SuitsColumn(y.right, y.left.value, schema)
    /\ y.e = "in" => \A i \in DOMAIN y.list : SuitsColumn(y.arg, y.list[i], schema)
    /\ y.e = "between" => SuitsColumn(y.arg, y.low, schema) /\ SuitsColumn(y.arg, y.high, schema)
Fits(x, schema) == \A y \in Parts(x) : Fit(y, schema)

\* A comparison that some value of a segment satisfies keeps the segment.
LEMMA ComparisonKeeps ==
    ASSUME NEW s, NEW c \in DOMAIN s.stats, NEW t \in DataTypes,
           NEW v, Typed(v, t), Covers(s.stats[c], v, t), NEW w, Typed(w, t),
           NEW op \in pruning_ops, Compares(op, v, w)
    PROVE  ~atom_excludes_segment(s, Atom(c, op, <<w>>))
<1>1. PICK stats : stats = s.stats[c]
  OBVIOUS
<1>2. Typed(stats.min, t) /\ Typed(stats.max, t)
      /\ Magnitude(stats.min) <= Magnitude(v) /\ Magnitude(v) <= Magnitude(stats.max)
      /\ (stats.has_bloom => probes(v) \subseteq stats.bloom)
  BY <1>1 DEF Covers
<1>3. /\ Magnitude(v) \in Int /\ Magnitude(w) \in Int /\ Magnitude(stats.min) \in Int /\ Magnitude(stats.max) \in Int
      /\ Precedes(w, stats.min) <=> Magnitude(w) < Magnitude(stats.min)
      /\ Precedes(stats.max, w) <=> Magnitude(stats.max) < Magnitude(w)
      /\ Precedes(stats.min, w) <=> Magnitude(stats.min) < Magnitude(w)
      /\ Precedes(w, stats.max) <=> Magnitude(w) < Magnitude(stats.max)
      /\ Magnitude(v) = Magnitude(w) => v = w
      /\ stats.min # Null
  BY <1>2, TypedOrder
<1>4. PICK a : a = Atom(c, op, <<w>>)
  OBVIOUS
<1>5. a.column = c /\ a.op = op /\ a.values[1] = w
  BY <1>4 DEF Atom
<1>6. ~all_null(stats)
  BY <1>3 DEF all_null
<1>7. op \in {"eq", "lt", "lte", "gt", "gte"}
  BY DEF pruning_ops, comparison
<1> DEFINE outside(u) == Precedes(u, stats.min) \/ Precedes(stats.max, u) \/ ~bloom_allows(stats, u)
<1>8. atom_excludes_segment(s, a) <=>
        CASE a.op = "isnull" -> stats.null_count = 0
             [] a.op = "isnotnull" -> stats.null_count = Len(s.rows)
             [] OTHER -> all_null(stats) \/
           CASE a.op = "eq" -> outside(w)
             [] a.op = "lt" -> ~Precedes(stats.min, w)
             [] a.op = "lte" -> Precedes(w, stats.min)
             [] a.op = "gt" -> ~Precedes(w, stats.max)
             [] a.op = "gte" -> Precedes(stats.max, w)
             [] a.op = "in" -> \A i \in DOMAIN a.values : outside(a.values[i])
  BY <1>1, <1>5 DEF atom_excludes_segment
<1>9. CASE op = "eq"
  <2>1. atom_excludes_segment(s, a) <=> outside(w)
    <3> HIDE DEF outside
    <3> QED
      BY <1>5, <1>6, <1>8, <1>9
  <2>2. Magnitude(v) = Magnitude(w)
    BY <1>9 DEF Compares
  <2>3. v = w /\ bloom_allows(stats, w)
    BY <1>2, <1>3, <2>2 DEF bloom_allows
  <2>4. ~outside(w)
    BY <1>2, <1>3, <2>2, <2>3
  <2> QED
    BY <1>4, <2>1, <2>4
<1>10. CASE op = "lt"
  <2>1. atom_excludes_segment(s, a) <=> ~Precedes(stats.min, w)
    <3> HIDE DEF outside
    <3> QED
      BY <1>5, <1>6, <1>8, <1>10
  <2>2. Magnitude(v) < Magnitude(w)
    BY <1>10 DEF Compares
  <2> QED
    BY <1>2, <1>3, <1>4, <2>1, <2>2
<1>11. CASE op = "lte"
  <2>1. atom_excludes_segment(s, a) <=> Precedes(w, stats.min)
    <3> HIDE DEF outside
    <3> QED
      BY <1>5, <1>6, <1>8, <1>11
  <2>2. Magnitude(v) <= Magnitude(w)
    BY <1>11 DEF Compares
  <2> QED
    BY <1>2, <1>3, <1>4, <2>1, <2>2
<1>12. CASE op = "gt"
  <2>1. atom_excludes_segment(s, a) <=> ~Precedes(w, stats.max)
    <3> HIDE DEF outside
    <3> QED
      BY <1>5, <1>6, <1>8, <1>12
  <2>2. Magnitude(v) > Magnitude(w)
    BY <1>12 DEF Compares
  <2> QED
    BY <1>2, <1>3, <1>4, <2>1, <2>2
<1>13. CASE op = "gte"
  <2>1. atom_excludes_segment(s, a) <=> Precedes(stats.max, w)
    <3> HIDE DEF outside
    <3> QED
      BY <1>5, <1>6, <1>8, <1>13
  <2>2. Magnitude(v) >= Magnitude(w)
    BY <1>13 DEF Compares
  <2> QED
    BY <1>2, <1>3, <1>4, <2>1, <2>2
<1> QED
  BY <1>7, <1>9, <1>10, <1>11, <1>12, <1>13

\* A list with a value of the segment in it does not exclude the segment.
LEMMA ListKeeps ==
    ASSUME NEW s, NEW c \in DOMAIN s.stats, NEW t \in DataTypes,
           NEW v, Typed(v, t), Covers(s.stats[c], v, t),
           NEW list, NEW i \in DOMAIN list, list[i] = v
    PROVE  ~atom_excludes_segment(s, Atom(c, "in", list))
<1>1. PICK stats : stats = s.stats[c]
  OBVIOUS
<1>2. Typed(stats.min, t) /\ Typed(stats.max, t)
      /\ Magnitude(stats.min) <= Magnitude(v) /\ Magnitude(v) <= Magnitude(stats.max)
      /\ (stats.has_bloom => probes(v) \subseteq stats.bloom)
  BY <1>1 DEF Covers
<1>3. /\ Magnitude(v) \in Int /\ Magnitude(stats.min) \in Int /\ Magnitude(stats.max) \in Int
      /\ Precedes(v, stats.min) <=> Magnitude(v) < Magnitude(stats.min)
      /\ Precedes(stats.max, v) <=> Magnitude(stats.max) < Magnitude(v)
      /\ stats.min # Null
  BY <1>2, TypedOrder
<1>4. PICK a : a = Atom(c, "in", list)
  OBVIOUS
<1>5. a.column = c /\ a.op = "in" /\ a.values = list
  BY <1>4 DEF Atom
<1>6. ~all_null(stats)
  BY <1>3 DEF all_null
<1> DEFINE outside(u) == Precedes(u, stats.min) \/ Precedes(stats.max, u) \/ ~bloom_allows(stats, u)
<1>8. atom_excludes_segment(s, a) <=>
        CASE a.op = "isnull" -> stats.null_count = 0
             [] a.op = "isnotnull" -> stats.null_count = Len(s.rows)
             [] OTHER -> all_null(stats) \/
           CASE a.op = "eq" -> outside(a.values[1])
             [] a.op = "lt" -> ~Precedes(stats.min, a.values[1])
             [] a.op = "lte" -> Precedes(a.values[1], stats.min)
             [] a.op = "gt" -> ~Precedes(a.values[1], stats.max)
             [] a.op = "gte" -> Precedes(stats.max, a.values[1])
             [] a.op = "in" -> \A k \in DOMAIN a.values : outside(a.values[k])
  BY <1>1, <1>5 DEF atom_excludes_segment
<1>9. atom_excludes_segment(s, a) <=> \A k \in DOMAIN list : outside(list[k])
  <2> HIDE DEF outside
  <2> QED
    BY <1>5, <1>6, <1>8
<1>10. bloom_allows(stats, v)
  BY <1>2 DEF bloom_allows
<1>11. ~outside(list[i])
  BY <1>2, <1>3, <1>10
<1> HIDE DEF outside
<1> QED
  BY <1>4, <1>9, <1>11

\* A test for NULL excludes a segment only where none, or all, are NULL.
LEMMA NullTestKeeps ==
    ASSUME NEW s, NEW c \in DOMAIN s.stats
    PROVE  /\ s.stats[c].null_count # 0 => ~atom_excludes_segment(s, Atom(c, "isnull", <<>>))
           /\ s.stats[c].null_count # Len(s.rows) => ~atom_excludes_segment(s, Atom(c, "isnotnull", <<>>))
<1>1. Atom(c, "isnull", <<>>).op = "isnull" /\ Atom(c, "isnull", <<>>).column = c
      /\ Atom(c, "isnotnull", <<>>).op = "isnotnull" /\ Atom(c, "isnotnull", <<>>).column = c
  BY DEF Atom
<1>2. s.stats[c].null_count # 0 => ~atom_excludes_segment(s, Atom(c, "isnull", <<>>))
  BY <1>1 DEF atom_excludes_segment
<1>3. s.stats[c].null_count # Len(s.rows) => ~atom_excludes_segment(s, Atom(c, "isnotnull", <<>>))
  BY <1>1 DEF atom_excludes_segment
<1> QED
  BY <1>2, <1>3

\* Sequences of at most two elements.
LEMMA FewIn ==
    ASSUME NEW a, NEW b
    PROVE  /\ ToSet(<<a>>) = {a} /\ ToSet(<<a, b>>) = {a, b} /\ ToSet(<<>>) = {}
           /\ IsSequence(<<a>>) /\ IsSequence(<<a, b>>) /\ IsSequence(<<>>)
<1>1. <<a>> \in Seq({a}) /\ DOMAIN <<a>> = {1} /\ <<a>>[1] = a
  OBVIOUS
<1>2. <<a, b>> \in Seq({a, b}) /\ DOMAIN <<a, b>> = {1, 2} /\ <<a, b>>[1] = a /\ <<a, b>>[2] = b
  OBVIOUS
<1>3. <<>> \in Seq({}) /\ DOMAIN <<>> = {}
  OBVIOUS
<1>4. IsSequence(<<a>>) /\ IsSequence(<<a, b>>) /\ IsSequence(<<>>)
  BY <1>1, <1>2, <1>3, SequenceIs
<1>5. ToSet(<<a>>) = {a}
  BY <1>1 DEF ToSet
<1>6. ToSet(<<a, b>>) = {a, b}
  BY <1>2 DEF ToSet
<1>7. ToSet(<<>>) = {}
  BY <1>3 DEF ToSet
<1> QED
  BY <1>4, <1>5, <1>6, <1>7

\* The atoms of a part, by what it is.
AtomKinds(y, a) ==
    \/ /\ y.e = "binary" /\ y.op \in pruning_ops
       /\ \/ /\ y.left.e = "column" /\ y.right.e = "literal" /\ y.right.value /= Null
             /\ a = Atom(y.left.name, y.op, <<y.right.value>>)
          \/ /\ y.right.e = "column" /\ y.left.e = "literal" /\ y.left.value /= Null
             /\ a = Atom(y.right.name, flipped[y.op], <<y.left.value>>)
    \/ /\ y.e = "between" /\ ~y.negated /\ y.arg.e = "column"
       /\ \/ a = Atom(y.arg.name, "gte", <<y.low>>)
          \/ a = Atom(y.arg.name, "lte", <<y.high>>)
    \/ /\ y.e = "in" /\ ~y.negated /\ y.arg.e = "column" /\ Null \notin ToSet(y.list)
       /\ a = Atom(y.arg.name, "in", y.list)
    \/ /\ y.e \in {"isnull", "isnotnull"} /\ y.arg.e = "column"
       /\ a = Atom(y.arg.name, y.e, <<>>)

\* The atoms of a predicate, by the form of the predicate.
LEMMA AtomsAre ==
    ASSUME NEW y
    PROVE  /\ IsSequence(AtomsOf(y))
           /\ \A a \in ToSet(AtomsOf(y)) : AtomKinds(y, a)
<1> DEFINE on_column(a, b) == a.e = "column" /\ b.e = "literal" /\ b.value /= Null
<1>1. AtomsOf(y) =
        CASE y.e = "binary" /\ y.op \in pruning_ops ->
               IF on_column(y.left, y.right)
               THEN <<Atom(y.left.name, y.op, <<y.right.value>>)>>
               ELSE IF on_column(y.right, y.left)
                    THEN <<Atom(y.right.name, flipped[y.op], <<y.left.value>>)>>
                    ELSE <<>>
          [] y.e = "between" /\ ~y.negated /\ y.arg.e = "column" ->
               <<Atom(y.arg.name, "gte", <<y.low>>), Atom(y.arg.name, "lte", <<y.high>>)>>
          [] y.e = "in" /\ ~y.negated /\ y.arg.e = "column" /\ Null \notin ToSet(y.list) ->
               <<Atom(y.arg.name, "in", y.list)>>
          [] y.e \in {"isnull", "isnotnull"} /\ y.arg.e = "column" ->
               <<Atom(y.arg.name, y.e, <<>>)>>
          [] OTHER -> <<>>
  BY DEF AtomsOf
<1>a. ASSUME NEW A, NEW B, AtomKinds(y, A), AtomKinds(y, B), AtomsOf(y) = <<A>> \/ AtomsOf(y) = <<A, B>>
      PROVE  /\ IsSequence(AtomsOf(y))
             /\ \A a \in ToSet(AtomsOf(y)) : AtomKinds(y, a)
  <2>1. ToSet(AtomsOf(y)) \subseteq {A, B} /\ IsSequence(AtomsOf(y))
    <3>1. ToSet(<<A>>) = {A} /\ ToSet(<<A, B>>) = {A, B} /\ IsSequence(<<A>>) /\ IsSequence(<<A, B>>)
      BY FewIn
    <3>2. CASE AtomsOf(y) = <<A>>
      BY <3>1, <3>2
    <3>3. CASE AtomsOf(y) = <<A, B>>
      BY <3>1, <3>3
    <3> QED
      BY <1>a, <3>2, <3>3
  <2> QED
    BY <1>a, <2>1
<1>2. CASE y.e = "binary" /\ y.op \in pruning_ops
  <2>1. AtomsOf(y) = IF on_column(y.left, y.right)
               THEN <<Atom(y.left.name, y.op, <<y.right.value>>)>>
               ELSE IF on_column(y.right, y.left)
                    THEN <<Atom(y.right.name, flipped[y.op], <<y.left.value>>)>>
                    ELSE <<>>
    <3> HIDE DEF on_column
    <3> QED
      BY <1>1, <1>2
  <2>2. CASE on_column(y.left, y.right)
    <3>1. AtomsOf(y) = <<Atom(y.left.name, y.op, <<y.right.value>>)>>
      <4> HIDE DEF on_column
      <4> QED
        BY <2>1, <2>2
    <3>2. AtomKinds(y, Atom(y.left.name, y.op, <<y.right.value>>))
      BY <1>2, <2>2 DEF AtomKinds
    <3> HIDE DEF on_column
    <3> QED
      BY <1>a, <3>1, <3>2
  <2>3. CASE ~on_column(y.left, y.right) /\ on_column(y.right, y.left)
    <3>1. AtomsOf(y) = <<Atom(y.right.name, flipped[y.op], <<y.left.value>>)>>
      <4> HIDE DEF on_column
      <4> QED
        BY <2>1, <2>3
    <3>2. AtomKinds(y, Atom(y.right.name, flipped[y.op], <<y.left.value>>))
      BY <1>2, <2>3 DEF AtomKinds
    <3> HIDE DEF on_column
    <3> QED
      BY <1>a, <3>1, <3>2
  <2>4. CASE ~on_column(y.left, y.right) /\ ~on_column(y.right, y.left)
    <3>1. AtomsOf(y) = <<>>
      <4> HIDE DEF on_column
      <4> QED
        BY <2>1, <2>4
    <3> QED
      BY <3>1, FewIn
  <2> QED
    BY <2>2, <2>3, <2>4
<1>3. CASE y.e = "between" /\ ~y.negated /\ y.arg.e = "column"
  <2>1. AtomsOf(y) = <<Atom(y.arg.name, "gte", <<y.low>>), Atom(y.arg.name, "lte", <<y.high>>)>>
    BY <1>1, <1>3
  <2>2. AtomKinds(y, Atom(y.arg.name, "gte", <<y.low>>)) /\ AtomKinds(y, Atom(y.arg.name, "lte", <<y.high>>))
    BY <1>3 DEF AtomKinds
  <2> QED
    BY <1>a, <2>1, <2>2
<1>4. CASE y.e = "in" /\ ~y.negated /\ y.arg.e = "column" /\ Null \notin ToSet(y.list)
  <2>1. AtomsOf(y) = <<Atom(y.arg.name, "in", y.list)>>
    BY <1>1, <1>4
  <2>2. AtomKinds(y, Atom(y.arg.name, "in", y.list))
    BY <1>4 DEF AtomKinds
  <2> QED
    BY <1>a, <2>1, <2>2
<1>5. CASE y.e \in {"isnull", "isnotnull"} /\ y.arg.e = "column"
  <2>1. AtomsOf(y) = <<Atom(y.arg.name, y.e, <<>>)>>
    BY <1>1, <1>5
  <2>2. AtomKinds(y, Atom(y.arg.name, y.e, <<>>))
    BY <1>5 DEF AtomKinds
  <2> QED
    BY <1>a, <2>1, <2>2
<1>6. CASE /\ ~(y.e = "binary" /\ y.op \in pruning_ops)
           /\ ~(y.e = "between" /\ ~y.negated /\ y.arg.e = "column")
           /\ ~(y.e = "in" /\ ~y.negated /\ y.arg.e = "column" /\ Null \notin ToSet(y.list))
           /\ ~(y.e \in {"isnull", "isnotnull"} /\ y.arg.e = "column")
  <2>1. AtomsOf(y) = <<>>
    <3> HIDE DEF on_column
    <3> QED
      BY <1>1, <1>6
  <2> QED
    BY <2>1, FewIn
<1> QED
  BY <1>2, <1>3, <1>4, <1>5, <1>6

\* A row in which a part holds keeps the segment from being skipped on it.
LEMMA AtomsKeep ==
    ASSUME NEW y, Fit(y, Table), NEW row, Holds(y, row), NEW a, AtomKinds(y, a),
           NEW s, IsSegment(s), NEW r \in DOMAIN s.rows,
           a.column \in DOMAIN s.stats => row[a.column] = s.rows[r][a.column],
           a.op \notin {"isnull", "isnotnull"} => Column(Table, a.column).type # "json"
    PROVE  ~atom_excludes_segment(s, a)
<1>1. SUFFICES ASSUME a.column \in DOMAIN s.stats PROVE ~atom_excludes_segment(s, a)
  BY DEF atom_excludes_segment
<1>2. PICK c, v, t : c = a.column /\ v = row[c] /\ t = Column(Table, c).type
  OBVIOUS
<1>3. v = s.rows[r][c] /\ c \in DOMAIN s.stats
  BY <1>1, <1>2
<1>4. /\ t \in DataTypes
      /\ v = Null \/ Typed(v, t)
      /\ v # Null /\ t # "json" => Covers(s.stats[c], v, t)
      /\ s.stats[c].null_count = 0 => v # Null
      /\ s.stats[c].null_count = Len(s.rows) => v = Null
      /\ c \in Names(Table)
  BY <1>2, <1>3, StatisticsCover, TableTypes
<1>5. CASE /\ y.e = "binary" /\ y.op \in pruning_ops
           /\ y.left.e = "column" /\ y.right.e = "literal" /\ y.right.value /= Null
           /\ a = Atom(y.left.name, y.op, <<y.right.value>>)
  <2>1. a.column = y.left.name /\ a.op = y.op
    BY <1>5 DEF Atom
  <2>2. y.op \in comparison /\ y.op \notin {"isnull", "isnotnull"}
    BY <1>5 DEF pruning_ops, comparison
  <2>3. Typed(y.right.value, t)
    BY <1>2, <1>5, <2>1, <2>2 DEF Fit, SuitsColumn, Suits
  <2>4. Known(y, row) /\ Compares(y.op, ValueOf(y.left, row), ValueOf(y.right, row))
    BY <1>5 DEF Holds
  <2>5. ValueOf(y.left, row) = v /\ ValueOf(y.right, row) = y.right.value
    BY <1>2, <1>5, <2>1 DEF ValueOf
  <2>6. v # Null
    BY <2>4, <2>5 DEF Known
  <2>7. t # "json"
    BY <1>2, <2>1, <2>2
  <2> QED
    BY <1>2, <1>3, <1>4, <1>5, <2>1, <2>3, <2>4, <2>5, <2>6, <2>7, ComparisonKeeps, Zenon
<1>6. CASE /\ y.e = "binary" /\ y.op \in pruning_ops
           /\ y.right.e = "column" /\ y.left.e = "literal" /\ y.left.value /= Null
           /\ a = Atom(y.right.name, flipped[y.op], <<y.left.value>>)
  <2>1. a.column = y.right.name /\ a.op = flipped[y.op]
    BY <1>6 DEF Atom
  <2>2. y.op \in comparison /\ flipped[y.op] \in pruning_ops /\ flipped[y.op] \notin {"isnull", "isnotnull"}
    BY <1>6 DEF pruning_ops, comparison, flipped
  <2>3. Typed(y.left.value, t)
    BY <1>2, <1>6, <2>1, <2>2 DEF Fit, SuitsColumn, Suits
  <2>4. Known(y, row) /\ Compares(y.op, ValueOf(y.left, row), ValueOf(y.right, row))
    BY <1>6 DEF Holds
  <2>5. ValueOf(y.right, row) = v /\ ValueOf(y.left, row) = y.left.value
    BY <1>2, <1>6, <2>1 DEF ValueOf
  <2>6. v # Null
    BY <2>4, <2>5 DEF Known
  <2>7. t # "json"
    BY <1>2, <2>1, <2>2
  <2>8. Magnitude(v) \in Int /\ Magnitude(y.left.value) \in Int
    BY <1>4, <2>3, <2>6, TypedOrder
  <2>9. Compares(flipped[y.op], v, y.left.value)
    <3>1. PICK op : op = y.op
      OBVIOUS
    <3>2. op \in {"eq", "lt", "lte", "gt", "gte"} /\ Compares(op, y.left.value, v)
      BY <1>6, <2>4, <2>5, <3>1 DEF pruning_ops, comparison
    <3>3. Compares(flipped[op], v, y.left.value)
      <4>1. CASE op = "eq"
        BY <2>8, <3>2, <4>1 DEF Compares, flipped
      <4>2. CASE op = "lt"
        BY <2>8, <3>2, <4>2 DEF Compares, flipped
      <4>3. CASE op = "lte"
        BY <2>8, <3>2, <4>3 DEF Compares, flipped
      <4>4. CASE op = "gt"
        BY <2>8, <3>2, <4>4 DEF Compares, flipped
      <4>5. CASE op = "gte"
        BY <2>8, <3>2, <4>5 DEF Compares, flipped
      <4> QED
        BY <3>2, <4>1, <4>2, <4>3, <4>4, <4>5
    <3> QED
      BY <3>1, <3>3
  <2> QED
    BY <1>2, <1>3, <1>4, <1>6, <2>1, <2>2, <2>3, <2>6, <2>7, <2>9, ComparisonKeeps, Zenon
<1>7. CASE /\ y.e = "between" /\ ~y.negated /\ y.arg.e = "column"
           /\ \/ a = Atom(y.arg.name, "gte", <<y.low>>)
              \/ a = Atom(y.arg.name, "lte", <<y.high>>)
  <2>1. a.column = y.arg.name /\ a.op \in {"gte", "lte"}
    BY <1>7 DEF Atom
  <2>2. Inside(v, y.low, y.high)
    BY <1>2, <1>7, <2>1 DEF Holds, Lies, ValueOf
  <2>3. v # Null /\ y.low # Null /\ y.high # Null /\ t # "json"
    BY <1>2, <2>1, <2>2 DEF Inside
  <2>4. Typed(y.low, t) /\ Typed(y.high, t)
    BY <1>2, <1>7, <2>1, <2>3 DEF Fit, SuitsColumn, Suits
  <2>5. Magnitude(v) \in Int /\ Magnitude(y.low) \in Int /\ Magnitude(y.high) \in Int
    BY <1>4, <2>3, <2>4, TypedOrder
  <2>6. Compares("gte", v, y.low) /\ Compares("lte", v, y.high)
    BY <2>2, <2>5 DEF Inside, Compares
  <2>7. "gte" \in pruning_ops /\ "lte" \in pruning_ops
    BY DEF pruning_ops, comparison
  <2> QED
    BY <1>2, <1>3, <1>4, <1>7, <2>1, <2>3, <2>4, <2>6, <2>7, ComparisonKeeps
<1>8. CASE /\ y.e = "in" /\ ~y.negated /\ y.arg.e = "column"
           /\ a = Atom(y.arg.name, "in", y.list)
  <2>1. a.column = y.arg.name /\ a.op = "in"
    BY <1>8 DEF Atom
  <2>2. Member(v, y.list)
    BY <1>2, <1>8, <2>1 DEF Holds, Belongs, ValueOf
  <2>3. PICK i \in DOMAIN y.list : v = y.list[i]
    BY <2>2 DEF Member
  <2>4. v # Null /\ t # "json"
    BY <1>2, <2>1, <2>2 DEF Member
  <2> QED
    BY <1>2, <1>3, <1>4, <1>8, <2>1, <2>3, <2>4, ListKeeps
<1>9. CASE /\ y.e \in {"isnull", "isnotnull"} /\ y.arg.e = "column"
           /\ a = Atom(y.arg.name, y.e, <<>>)
  <2>1. a.column = y.arg.name
    BY <1>9 DEF Atom
  <2>2. ValueOf(y.arg, row) = v
    BY <1>2, <1>9, <2>1 DEF ValueOf
  <2>3. (y.e = "isnull" => v = Null) /\ (y.e = "isnotnull" => v # Null)
    BY <1>9, <2>2 DEF Holds
  <2> QED
    BY <1>2, <1>3, <1>4, <1>9, <2>1, <2>3, NullTestKeeps
<1> QED
  BY <1>5, <1>6, <1>7, <1>8, <1>9 DEF AtomKinds

-----------------------------------------------------------------------------
(* Flattening.                                                             *)

IsFlat(C, s, N) == C = [i \in 1..N |-> IF i = 1 THEN s[i] ELSE C[i - 1] \o s[i]]

\* A sequence of sequences can be flattened up to any length.
LEMMA FlatExists ==
    ASSUME NEW s, NEW N \in Nat
    PROVE  \E C : IsFlat(C, s, N)
<1> DEFINE S == { m \in 0..N : \E C : IsFlat(C, s, m) }
           At(C, n) == IF n = 1 THEN s[n] ELSE C[n - 1] \o s[n]
<1>1. 0 \in S
  <2>1. PICK C : C = [i \in 1..0 |-> <<>>]
    OBVIOUS
  <2>2. C = [i \in 1..0 |-> At(C, i)]
    <3> HIDE DEF At
    <3> QED
      BY <2>1
  <2>3. IsFlat(C, s, 0)
    BY <2>2 DEF IsFlat
  <2> QED
    BY <2>3
<1>2. ASSUME NEW m \in 0..(N - 1), m \in S
      PROVE  m + 1 \in S
  <2>1. PICK C : IsFlat(C, s, m)
    BY <1>2
  <2>a. C = [i \in 1..m |-> At(C, i)]
    BY <2>1 DEF IsFlat
  <2>2. PICK K : K = [i \in 1..(m + 1) |-> IF i = m + 1 THEN At(C, m + 1) ELSE C[i]]
    OBVIOUS
  <2>3. K = [i \in 1..(m + 1) |-> At(K, i)]
    <3>1. \A i \in 1..(m + 1) : i # 1 => K[i - 1] = C[i - 1]
      BY <2>2
    <3>2. \A i \in 1..(m + 1) : At(K, i) = At(C, i)
      BY <3>1
    <3> HIDE DEF At
    <3>3. \A i \in 1..(m + 1) : K[i] = At(C, i)
      BY <2>2, <2>a
    <3> QED
      BY <2>2, <3>2, <3>3
  <2>4. IsFlat(K, s, m + 1)
    BY <2>3 DEF IsFlat
  <2> QED
    BY <2>4
<1> HIDE DEF S
<1>3. 0..N \subseteq S
  BY <1>1, <1>2, UpTo
<1> QED
  BY <1>3 DEF S

\* A flattened sequence of sequences holds what they hold.
LEMMA FlattenHolds ==
    ASSUME NEW s, IsSequence(s), \A i \in DOMAIN s : IsSequence(s[i])
    PROVE  \A e \in ToSet(FlattenSeq(s)) : \E i \in DOMAIN s : e \in ToSet(s[i])
<1>1. Len(s) \in Nat /\ DOMAIN s = 1..Len(s)
  BY SequenceIs
<1>2. CASE Len(s) = 0
  <2>1. FlattenSeq(s) = s
    BY <1>2 DEF FlattenSeq
  <2>2. ToSet(s) = {}
    BY <1>1, <1>2 DEF ToSet
  <2> QED
    BY <2>1, <2>2
<1>3. CASE Len(s) # 0
  <2> DEFINE flatten[i \in 1..Len(s)] == IF i = 1 THEN s[i] ELSE flatten[i - 1] \o s[i]
  <2>1. FlattenSeq(s) = flatten[Len(s)]
    BY <1>3 DEF FlattenSeq
  <2>2. \E C : IsFlat(C, s, Len(s))
    BY <1>1, FlatExists
  <2>3. IsFlat(flatten, s, Len(s))
    BY <2>2, Zenon DEF IsFlat
  <2> HIDE DEF flatten
  <2>4. \A i \in 1..Len(s) : flatten[i] = IF i = 1 THEN s[i] ELSE flatten[i - 1] \o s[i]
    BY <2>3 DEF IsFlat
  <2> DEFINE Q == { n \in 0..Len(s) : n > 0 => /\ IsSequence(flatten[n])
                       /\ \A e \in ToSet(flatten[n]) : \E i \in 1..Len(s) : e \in ToSet(s[i]) }
  <2>5. 0 \in Q
    BY <1>1
  <2>6. ASSUME NEW n \in 0..(Len(s) - 1), n \in Q
        PROVE  n + 1 \in Q
    <3>1. n + 1 \in 1..Len(s) /\ n + 1 \in 0..Len(s) /\ (n + 1) - 1 = n
      BY <1>1
    <3>2. IsSequence(s[n + 1])
      BY <1>1, <3>1
    <3>3. CASE n = 0
      <4>1. flatten[n + 1] = s[n + 1]
        BY <2>4, <3>1, <3>3
      <4> QED
        BY <3>1, <3>2, <4>1
    <3>4. CASE n > 0
      <4>0. n + 1 # 1
        BY <3>4
      <4>1. flatten[n + 1] = flatten[n] \o s[n + 1]
        <5>1. flatten[n + 1] = IF n + 1 = 1 THEN s[n + 1] ELSE flatten[(n + 1) - 1] \o s[n + 1]
          BY <2>4, <3>1, Zenon
        <5> QED
          BY <3>1, <4>0, <5>1
      <4>2. IsSequence(flatten[n])
        BY <2>6, <3>4
      <4>3. IsSequence(flatten[n + 1]) /\ ToSet(flatten[n + 1]) = ToSet(flatten[n]) \cup ToSet(s[n + 1])
        BY <3>2, <4>1, <4>2, Concatenates
      <4>4. ASSUME NEW e \in ToSet(flatten[n + 1]) PROVE \E i \in 1..Len(s) : e \in ToSet(s[i])
        BY <2>6, <3>1, <3>4, <4>3
      <4> QED
        BY <3>1, <4>3, <4>4
    <3> QED
      BY <1>1, <3>3, <3>4
  <2>7. 0..Len(s) \subseteq Q
    <3> HIDE DEF Q
    <3> QED
      BY <1>1, <2>5, <2>6, UpTo
  <2>8. Len(s) \in Q
    <3> HIDE DEF Q
    <3> QED
      BY <1>1, <2>7
  <2> QED
    BY <1>1, <1>3, <2>1, <2>8
<1> QED
  BY <1>2, <1>3

\* A segment that is skipped on the atoms of a filter has no row of which
\* the filter is true.
LEMMA SkippedHasNone ==
    ASSUME NEW x, Fits(x, Table), NEW s, IsSegment(s), can_skip(s, extract_prune_atoms(x)),
           \A i \in DOMAIN extract_prune_atoms(x) :
              LET a == extract_prune_atoms(x)[i]
              IN  a.op \notin {"isnull", "isnotnull"} => Column(Table, a.column).type # "json",
           NEW r \in DOMAIN s.rows, NEW row, \A c \in DOMAIN s.stats : row[c] = s.rows[r][c]
    PROVE  ~IsTrue(x, row)
<1>1. SUFFICES ASSUME IsTrue(x, row) PROVE FALSE
  OBVIOUS
<1>2. PICK atoms : atoms = extract_prune_atoms(x)
  OBVIOUS
<1>3. s.rows # <<>>
  OBVIOUS
<1>4. PICK i \in DOMAIN atoms : atom_excludes_segment(s, atoms[i])
  BY <1>2, <1>3 DEF can_skip
<1>5. PICK a : a = atoms[i]
  OBVIOUS
<1>6. a \in ToSet(atoms) /\ (a.op \notin {"isnull", "isnotnull"} => Column(Table, a.column).type # "json")
  BY <1>2, <1>5 DEF ToSet
<1>7. PICK parts : parts = conjuncts(x)
  OBVIOUS
<1>8. PICK each : each = [k \in DOMAIN parts |-> AtomsOf(parts[k])]
  OBVIOUS
<1>9. atoms = FlattenSeq(each)
  BY <1>2, <1>7, <1>8 DEF extract_prune_atoms
<1>10. IsSequence(parts) /\ ToSet(parts) \subseteq Parts(x)
       /\ \A c \in ToSet(parts) : Connective(c) \/ Holds(c, row)
  BY <1>1, <1>7, ConjunctsHold
<1>11. IsSequence(each) /\ DOMAIN each = DOMAIN parts
  <2>1. Len(parts) \in Nat /\ DOMAIN parts = 1..Len(parts)
    BY <1>10, SequenceIs
  <2>2. each = [k \in 1..Len(parts) |-> each[k]]
    BY <1>8, <2>1
  <2> QED
    BY <1>8, <2>1, <2>2, MakesSequence
<1>12. \A k \in DOMAIN each : IsSequence(each[k])
  BY <1>8, <1>11, AtomsAre
<1>13. PICK k \in DOMAIN each : a \in ToSet(each[k])
  BY <1>6, <1>9, <1>11, <1>12, FlattenHolds
<1>14. PICK y : y = parts[k]
  OBVIOUS
<1>15. y \in ToSet(parts) /\ a \in ToSet(AtomsOf(y))
  BY <1>8, <1>11, <1>13, <1>14 DEF ToSet
<1>16. AtomKinds(y, a)
  BY <1>15, AtomsAre
<1>17. ~Connective(y)
  BY <1>16 DEF AtomKinds, Connective, pruning_ops, comparison
<1>18. Holds(y, row) /\ Fit(y, Table)
  BY <1>10, <1>15, <1>17 DEF Fits
<1> QED
  BY <1>4, <1>5, <1>6, <1>16, <1>18, AtomsKeep

-----------------------------------------------------------------------------
(* What the validator lets through.                                        *)

\* A coerced literal is of the type of the column, or there is none.
LEMMA CoercionSuits ==
    ASSUME NEW v \in Scalars, NEW t
    PROVE  /\ coerce_literal(v, t) \in Scalars \cup {Mismatch}
           /\ t \in DataTypes /\ coerce_literal(v, t) # Mismatch => Suits(coerce_literal(v, t), t)
<1>1. v = <<v[1], v[2]>> /\ v[2] \in Int /\ v[1] \in DOMAIN discriminant
  BY ScalarFacts
<1>2. PICK u : u = coerce_literal(v, t)
  OBVIOUS
<1>3. DOMAIN discriminant = {"null", "bool", "int64", "float64", "utf8", "timestamp", "date"}
  BY DEF discriminant
<1> DEFINE instant == parse_timestamp_micros(v)  epoch == normalize_epoch_to_micros(v[2])  days == parse_date_days(v)
           whole == v[2] \div One  scaled == v[2] * One
<1>4. instant \in Int /\ epoch \in Int /\ days \in Int /\ whole \in Int /\ scaled \in Int
  BY <1>1 DEF parse_timestamp_micros, normalize_epoch_to_micros, parse_date_days, Epoch, DayMicros, One, SEC_BOUND, MILLI_BOUND
<1> HIDE DEF instant, epoch, days, whole, scaled
<1>5. \/ u = v /\ (v = Null \/ v[1] = t \/ t = Untyped \/ (t \in {"uuid", "json"} /\ v[1] = "utf8"))
      \/ u = <<"int64", whole>> /\ t = "int64"
      \/ u = <<"float64", scaled>> /\ t = "float64"
      \/ u = <<"timestamp", instant>> /\ t = "timestamp"
      \/ u = <<"timestamp", epoch>> /\ t = "timestamp"
      \/ u = <<"date", days>> /\ t = "date"
      \/ u = <<"date", v[2]>> /\ t = "date"
      \/ u = Mismatch
  BY <1>2 DEF coerce_literal, Int64, Float64, Timestamp, Date, instant, epoch, days, whole, scaled
<1>6. CASE u = v /\ (v = Null \/ v[1] = t \/ t = Untyped \/ (t \in {"uuid", "json"} /\ v[1] = "utf8"))
  <2>1. u \in Scalars
    BY <1>6
  <2>2. t \in DataTypes => Suits(u, t)
    BY <1>1, <1>3, <1>6 DEF DataTypes, Untyped, Suits, Typed, Stored
  <2> QED
    BY <1>2, <2>1, <2>2
<1>7. ASSUME NEW k, NEW n \in Int, u = <<k, n>>, k = t, k \in {"int64", "float64", "timestamp", "date"}
      PROVE  u \in Scalars /\ Suits(u, t)
  <2>1. u \in Scalars
    BY <1>3, <1>7 DEF Scalars
  <2> QED
    BY <1>7, <2>1 DEF Suits, Typed, Stored
<1>8. CASE u = Mismatch
  BY <1>2, <1>8
<1>9. (u \in Scalars /\ Suits(u, t)) \/ u = Mismatch \/ (u = v /\ (v = Null \/ v[1] = t \/ t = Untyped \/ (t \in {"uuid", "json"} /\ v[1] = "utf8")))
  BY <1>1, <1>4, <1>5, <1>7
<1> QED
  BY <1>2, <1>6, <1>8, <1>9

\* An operator fits when it does and its operands do.
LEMMA OperatorFits ==
    ASSUME NEW z, NEW schema, Fit(z, schema), \A o \in Operands(z) : Fits(o, schema)
    PROVE  Fits(z, schema)
<1> SUFFICES ASSUME NEW y \in Parts(z) PROVE Fit(y, schema)
  BY DEF Fits
<1>1. CASE y = z
  BY <1>1
<1>2. CASE y # z
  BY <1>2, PartsBelow DEF Fits
<1> QED
  BY <1>1, <1>2

\* An expression that fits, fits at its root.
LEMMA FitsItself ==
    ASSUME NEW z, NEW schema, Fits(z, schema)
    PROVE  Fit(z, schema)
BY PartsOfItself DEF Fits

\* A literal fits every schema.
LEMMA LiteralFits ==
    ASSUME NEW v \in Scalars, NEW schema
    PROVE  Fits(Lit(v), schema)
<1>1. Lit(v).e = "literal" /\ Lit(v).value = v
  BY DEF Lit
<1>2. Fit(Lit(v), schema)
  BY <1>1 DEF Fit, IsPart
<1>3. Operands(Lit(v)) = {}
  BY <1>1 DEF Operands
<1> QED
  BY <1>2, <1>3, OperatorFits

\* A column of the schema fits it.
LEMMA ColumnFits ==
    ASSUME NEW schema, NEW c \in Names(schema)
    PROVE  Fits(Col(c), schema)
<1>1. Col(c).e = "column" /\ Col(c).name = c
  BY DEF Col
<1>2. Fit(Col(c), schema)
  BY <1>1 DEF Fit, IsPart
<1>3. Operands(Col(c)) = {}
  BY <1>1 DEF Operands
<1> QED
  BY <1>2, <1>3, OperatorFits

SchemaTyped(schema) == \A c \in Names(schema) : Column(schema, c).type \in DataTypes

\* A checked expression: when it is accepted it fits, and a column has its type.
Good(c, schema) ==
    c.ok => /\ Fits(c.expr, schema)
            /\ c.expr.e = "column" => /\ c.expr.name \in Names(schema)
                                      /\ c.type = Column(schema, c.expr.name).type

\* A binary operator over operands that fit, whose constants suit the columns.
LEMMA BinaryFits ==
    ASSUME NEW op, NEW l, NEW r, NEW schema, Fits(l, schema), Fits(r, schema),
           op \in comparison => /\ r.e = "literal" => SuitsColumn(l, r.value, schema)
                                /\ l.e = "literal" => SuitsColumn(r, l.value, schema)
    PROVE  Fits(Binary(op, l, r), schema)
<1>1. PICK z : z = Binary(op, l, r)
  OBVIOUS
<1>2. z.e = "binary" /\ z.op = op /\ z.left = l /\ z.right = r
  BY <1>1 DEF Binary
<1>3. Fit(z, schema)
  BY <1>1, <1>2 DEF Fit, IsPart
<1>4. Operands(z) = {l, r}
  BY <1>2 DEF Operands
<1> QED
  BY <1>1, <1>3, <1>4, OperatorFits

\* A literal coerced to the type of the other side suits it.
LEMMA CoercedIs ==
    ASSUME NEW schema, SchemaTyped(schema), NEW a, NEW b, Good(a, schema), Good(b, schema), a.ok, b.ok,
           coerces(a, b), coerced(a, b).ok
    PROVE  \E v \in Scalars : /\ coerced(a, b).expr = Lit(v)
                              /\ SuitsColumn(a.expr, v, schema)
<1>1. PICK v : v = coerce_literal(b.expr.value, a.type)
  OBVIOUS
<1>2. v # Mismatch /\ coerced(a, b).expr = Lit(v)
  BY <1>1 DEF coerced, Coercion, Checked
<1>3. b.expr.value \in Scalars
  <2>1. Fit(b.expr, schema) /\ b.expr.e = "literal"
    BY FitsItself DEF Good, coerces
  <2> QED
    BY <2>1 DEF Fit, IsPart
<1>4. v \in Scalars /\ (a.type \in DataTypes => Suits(v, a.type))
  BY <1>1, <1>2, <1>3, CoercionSuits
<1>5. SuitsColumn(a.expr, v, schema)
  BY <1>4 DEF SuitsColumn, Good, SchemaTyped
<1> QED
  BY <1>2, <1>4, <1>5

\* A comparison that is accepted has the operands that were accepted.
LEMMA ComparisonIs ==
    ASSUME NEW op, NEW l, NEW r, NEW schema
    PROVE  /\ check_comparison(op, l, r).ok => l.ok /\ r.ok
           /\ check_comparison(op, l, r).expr = Binary(op, l.expr, r.expr)
BY DEF check_comparison, Checked

\* An operator is no column.
LEMMA NotColumn ==
    ASSUME NEW op, NEW l, NEW r
    PROVE  Binary(op, l, r).e = "binary"
BY DEF Binary

\* An operator of accepted operands is accepted only when it fits.
LEMMA OperandsCheck ==
    ASSUME NEW schema, SchemaTyped(schema), NEW l, NEW r, Good(l, schema), Good(r, schema), l.ok, r.ok, NEW op
    PROVE  Good(check_binary(op, l, r), schema)
<1>1. Fits(l.expr, schema) /\ Fits(r.expr, schema)
  BY DEF Good
<1>2. CASE op \in logical \/ op = "like"
  <2>1. check_binary(op, l, r).expr = Binary(op, l.expr, r.expr)
    BY <1>2 DEF check_binary, Checked
  <2>2. op \notin comparison
    BY <1>2 DEF logical, comparison
  <2>3. Fits(Binary(op, l.expr, r.expr), schema)
    BY <1>1, <2>2, BinaryFits
  <2> QED
    BY <2>1, <2>3, NotColumn DEF Good
<1>3. CASE ~(op \in logical \/ op = "like")
  <2>1. check_binary(op, l, r) =
           IF coerces(l, r) THEN check_comparison(op, l, coerced(l, r))
           ELSE check_comparison(op, IF coerces(r, l) THEN coerced(r, l) ELSE l, r)
    BY <1>3 DEF check_binary
  <2>2. CASE coerces(l, r)
    <3>1. PICK c : c = coerced(l, r)
      OBVIOUS
    <3>2. check_binary(op, l, r) = check_comparison(op, l, c)
      BY <2>1, <2>2, <3>1
    <3>3. SUFFICES ASSUME c.ok PROVE Good(check_binary(op, l, r), schema)
      BY <3>2, ComparisonIs DEF Good
    <3>4. PICK v \in Scalars : c.expr = Lit(v) /\ SuitsColumn(l.expr, v, schema)
      BY <2>2, <3>1, <3>3, CoercedIs
    <3>5. Fits(Lit(v), schema)
      BY LiteralFits
    <3>6. Lit(v).e = "literal" /\ Lit(v).value = v
      BY DEF Lit
    <3>7. SuitsColumn(Lit(v), l.expr.value, schema)
      BY <3>6 DEF SuitsColumn
    <3>8. Fits(Binary(op, l.expr, Lit(v)), schema)
      BY <1>1, <3>4, <3>5, <3>6, <3>7, BinaryFits
    <3> QED
      BY <3>2, <3>4, <3>8, ComparisonIs, NotColumn DEF Good
  <2>3. CASE ~coerces(l, r) /\ coerces(r, l)
    <3>1. PICK c : c = coerced(r, l)
      OBVIOUS
    <3>2. check_binary(op, l, r) = check_comparison(op, c, r)
      BY <2>1, <2>3, <3>1
    <3>3. SUFFICES ASSUME c.ok PROVE Good(check_binary(op, l, r), schema)
      BY <3>2, ComparisonIs DEF Good
    <3>4. PICK v \in Scalars : c.expr = Lit(v) /\ SuitsColumn(r.expr, v, schema)
      BY <2>3, <3>1, <3>3, CoercedIs
    <3>5. Fits(Lit(v), schema)
      BY LiteralFits
    <3>6. Lit(v).e = "literal" /\ Lit(v).value = v
      BY DEF Lit
    <3>7. SuitsColumn(Lit(v), r.expr.value, schema)
      BY <3>6 DEF SuitsColumn
    <3>8. Fits(Binary(op, Lit(v), r.expr), schema)
      BY <1>1, <3>4, <3>5, <3>6, <3>7, BinaryFits
    <3> QED
      BY <3>2, <3>4, <3>8, ComparisonIs, NotColumn DEF Good
  <2>4. CASE ~coerces(l, r) /\ ~coerces(r, l)
    <3>1. check_binary(op, l, r) = check_comparison(op, l, r)
      BY <2>1, <2>4
    <3>2. Untyped \notin DataTypes
      BY DEF Untyped, DataTypes
    <3>3. r.expr.e = "literal" => SuitsColumn(l.expr, r.expr.value, schema)
      BY <2>4, <3>2 DEF SuitsColumn, Good, coerces, SchemaTyped
    <3>4. l.expr.e = "literal" => SuitsColumn(r.expr, l.expr.value, schema)
      BY <2>4, <3>2 DEF SuitsColumn, Good, coerces, SchemaTyped
    <3>5. Fits(Binary(op, l.expr, r.expr), schema)
      BY <1>1, <3>3, <3>4, BinaryFits
    <3> QED
      BY <3>1, <3>5, ComparisonIs, NotColumn DEF Good
  <2> QED
    BY <2>2, <2>3, <2>4
<1> QED
  BY <1>2, <1>3

\* The operators over one operand, and the operand put in its place.
LEMMA ArgumentPut ==
    ASSUME NEW x, IsPart(x), NEW a,
           x.e \in {"not", "isnull", "isnotnull", "in", "between"}
    PROVE  LET z == [x EXCEPT !.arg = a]
           IN  /\ IsPart(z) /\ z.e = x.e /\ Operands(z) = {a} /\ z.arg = a
               /\ x.e = "in" => z.list = x.list /\ z.negated = x.negated
               /\ x.e = "between" => z.low = x.low /\ z.high = x.high /\ z.negated = x.negated
<1>1. PICK z : z = [x EXCEPT !.arg = a]
  OBVIOUS
<1>2. CASE x.e = "not"
  <2>1. x = Not(x.arg)
    BY <1>2 DEF IsPart
  <2>2. z = Not(a) /\ z.e = "not" /\ z.arg = a
    BY <1>1, <2>1 DEF Not
  <2>3. IsPart(z)
    BY <2>2 DEF IsPart
  <2>4. Operands(z) = {a}
    BY <2>2 DEF Operands
  <2> QED
    BY <1>1, <1>2, <2>2, <2>3, <2>4
<1>3. CASE x.e = "isnull"
  <2>1. x = IsNull(x.arg)
    BY <1>3 DEF IsPart
  <2>2. z = IsNull(a) /\ z.e = "isnull" /\ z.arg = a
    BY <1>1, <2>1 DEF IsNull
  <2>3. IsPart(z)
    BY <2>2 DEF IsPart
  <2>4. Operands(z) = {a}
    BY <2>2 DEF Operands
  <2> QED
    BY <1>1, <1>3, <2>2, <2>3, <2>4
<1>4. CASE x.e = "isnotnull"
  <2>1. x = IsNotNull(x.arg)
    BY <1>4 DEF IsPart
  <2>2. z = IsNotNull(a) /\ z.e = "isnotnull" /\ z.arg = a
    BY <1>1, <2>1 DEF IsNotNull
  <2>3. IsPart(z)
    BY <2>2 DEF IsPart
  <2>4. Operands(z) = {a}
    BY <2>2 DEF Operands
  <2> QED
    BY <1>1, <1>4, <2>2, <2>3, <2>4
<1>5. CASE x.e = "in"
  <2>1. x = InList(x.arg, x.list, x.negated) /\ x.list \in Seq(Scalars)
    BY <1>5 DEF IsPart
  <2>2. z = InList(a, x.list, x.negated) /\ z.e = "in" /\ z.arg = a /\ z.list = x.list /\ z.negated = x.negated
    BY <1>1, <2>1 DEF InList
  <2>3. IsPart(z)
    BY <2>1, <2>2 DEF IsPart
  <2>4. Operands(z) = {a}
    BY <2>2 DEF Operands
  <2> QED
    BY <1>1, <1>5, <2>2, <2>3, <2>4
<1>6. CASE x.e = "between"
  <2>1. x = Between(x.arg, x.low, x.high, x.negated) /\ {x.low, x.high} \subseteq Scalars
    BY <1>6 DEF IsPart
  <2>2. z = Between(a, x.low, x.high, x.negated) /\ z.e = "between" /\ z.arg = a
        /\ z.low = x.low /\ z.high = x.high /\ z.negated = x.negated
    BY <1>1, <2>1 DEF Between
  <2>3. IsPart(z)
    BY <2>1, <2>2 DEF IsPart
  <2>4. Operands(z) = {a}
    BY <2>2 DEF Operands
  <2> QED
    BY <1>1, <1>6, <2>2, <2>3, <2>4
<1> QED
  BY <1>1, <1>2, <1>3, <1>4, <1>5, <1>6

\* An accepted negation or null test.
LEMMA UnaryCheck ==
    ASSUME NEW schema, NEW x, IsPart(x), x.e \in {"not", "isnull", "isnotnull"},
           NEW inner, Good(inner, schema)
    PROVE  Good(check_unary(x, inner), schema)
<1>1. SUFFICES ASSUME check_unary(x, inner).ok
               PROVE  Good(check_unary(x, inner), schema)
  BY DEF Good
<1>2. PICK z : z = [x EXCEPT !.arg = inner.expr]
  OBVIOUS
<1>3. check_unary(x, inner).expr = z /\ inner.ok
  BY <1>1, <1>2 DEF check_unary, Checked
<1>4. IsPart(z) /\ z.e = x.e /\ Operands(z) = {inner.expr}
  BY <1>2, ArgumentPut
<1>5. Fit(z, schema)
  BY <1>4 DEF Fit
<1>6. Fits(z, schema)
  BY <1>3, <1>4, <1>5, OperatorFits DEF Good
<1> QED
  BY <1>3, <1>4, <1>6 DEF Good

\* Each value of a list is coerced.
LEMMA ListCheck ==
    ASSUME NEW schema, SchemaTyped(schema), NEW x, IsPart(x), x.e = "in", NEW inner, Good(inner, schema),
           NEW list, list = [i \in DOMAIN x.list |-> coerce_literal(x.list[i], inner.type)]
    PROVE  Good(check_list(x, inner, list), schema)
<1>1. SUFFICES ASSUME check_list(x, inner, list).ok
               PROVE  Good(check_list(x, inner, list), schema)
  BY DEF Good
<1>2. PICK y : y = [x EXCEPT !.arg = inner.expr]
  OBVIOUS
<1>3. IsPart(y) /\ y.e = "in" /\ y.arg = inner.expr /\ y.list = x.list
  BY <1>2, ArgumentPut
<1>4. PICK z : z = [y EXCEPT !.list = list]
  OBVIOUS
<1>5. [x EXCEPT !.arg = inner.expr, !.list = list] = z
  BY <1>2, <1>4
<1>6. check_list(x, inner, list).expr = z /\ inner.ok /\ Mismatch \notin ToSet(list)
  BY <1>1, <1>5 DEF check_list, Checked
<1>7. y = InList(inner.expr, x.list, y.negated) /\ x.list \in Seq(Scalars)
  BY <1>3 DEF IsPart
<1>8. z = InList(inner.expr, list, y.negated) /\ z.e = "in" /\ z.arg = inner.expr /\ z.list = list
  BY <1>4, <1>7 DEF InList
<1>9. PICK n \in Nat : n = Len(x.list) /\ DOMAIN x.list = 1..n /\ \A i \in 1..n : x.list[i] \in Scalars
  BY <1>7
<1>10. DOMAIN list = 1..n
  BY <1>9
<1>11. ASSUME NEW i \in 1..n
       PROVE  list[i] \in Scalars /\ (inner.type \in DataTypes => Suits(list[i], inner.type))
  <2>1. list[i] = coerce_literal(x.list[i], inner.type) /\ x.list[i] \in Scalars
    BY <1>9
  <2>2. list[i] # Mismatch
    BY <1>6, <1>10 DEF ToSet
  <2> QED
    BY <2>1, <2>2, CoercionSuits
<1>12. list \in Seq(Scalars)
  <2>1. list = [i \in 1..n |-> list[i]]
    BY <1>9
  <2>2. list \in [1..n -> Scalars]
    <3> HIDE DEF Scalars
    <3> QED
      BY <1>11, <2>1
  <2> QED
    BY <2>2
<1>13. IsPart(z)
  <2>1. z = InList(z.arg, z.list, z.negated) /\ z.list \in Seq(Scalars)
    BY <1>8, <1>12 DEF InList
  <2> QED
    BY <1>8, <2>1 DEF IsPart
<1>14. \A i \in DOMAIN z.list : SuitsColumn(z.arg, z.list[i], schema)
  BY <1>6, <1>8, <1>10, <1>11 DEF SuitsColumn, Good, SchemaTyped
<1>15. Fit(z, schema)
  BY <1>8, <1>13, <1>14 DEF Fit
<1>16. Operands(z) = {inner.expr}
  BY <1>8 DEF Operands
<1>17. Fits(z, schema)
  BY <1>6, <1>15, <1>16, OperatorFits DEF Good
<1> QED
  BY <1>6, <1>8, <1>17 DEF Good

\* Both ends of a range are coerced.
LEMMA RangeCheck ==
    ASSUME NEW schema, SchemaTyped(schema), NEW x, IsPart(x), x.e = "between", NEW inner, Good(inner, schema),
           NEW low, NEW high, low = coerce_literal(x.low, inner.type), high = coerce_literal(x.high, inner.type)
    PROVE  Good(check_between(x, inner, low, high), schema)
<1>1. SUFFICES ASSUME check_between(x, inner, low, high).ok
               PROVE  Good(check_between(x, inner, low, high), schema)
  BY DEF Good
<1>2. PICK y : y = [x EXCEPT !.arg = inner.expr]
  OBVIOUS
<1>3. IsPart(y) /\ y.e = "between" /\ y.arg = inner.expr /\ y.low = x.low /\ y.high = x.high
  BY <1>2, ArgumentPut
<1>4. PICK w : w = [y EXCEPT !.low = low]
  OBVIOUS
<1>a. PICK z : z = [w EXCEPT !.high = high]
  OBVIOUS
<1>5. [x EXCEPT !.arg = inner.expr, !.low = low, !.high = high] = z
  BY <1>2, <1>4, <1>a
<1>6. check_between(x, inner, low, high).expr = z /\ inner.ok /\ Mismatch \notin {low, high}
  BY <1>1, <1>5 DEF check_between, Checked
<1>7. y = Between(inner.expr, x.low, x.high, y.negated) /\ x.low \in Scalars /\ x.high \in Scalars
  BY <1>3 DEF IsPart
<1>b. w = Between(inner.expr, low, x.high, y.negated)
  BY <1>4, <1>7 DEF Between
<1>8. z = Between(inner.expr, low, high, y.negated)
      /\ z.e = "between" /\ z.arg = inner.expr /\ z.low = low /\ z.high = high
  BY <1>a, <1>b DEF Between
<1>9. /\ low \in Scalars /\ (inner.type \in DataTypes => Suits(low, inner.type))
      /\ high \in Scalars /\ (inner.type \in DataTypes => Suits(high, inner.type))
  <2>1. low # Mismatch /\ high # Mismatch
    BY <1>6
  <2> QED
    BY <1>7, <2>1, CoercionSuits
<1>10. IsPart(z)
  <2>1. z = Between(z.arg, z.low, z.high, z.negated)
    BY <1>8 DEF Between
  <2> QED
    BY <1>8, <1>9, <2>1 DEF IsPart
<1>11. SuitsColumn(z.arg, z.low, schema) /\ SuitsColumn(z.arg, z.high, schema)
  BY <1>6, <1>8, <1>9 DEF SuitsColumn, Good, SchemaTyped
<1>12. Fit(z, schema)
  BY <1>8, <1>10, <1>11 DEF Fit
<1>13. Operands(z) = {inner.expr}
  BY <1>8 DEF Operands
<1>14. Fits(z, schema)
  BY <1>6, <1>12, <1>13, OperatorFits DEF Good
<1> QED
  BY <1>6, <1>8, <1>14 DEF Good

\* A checked operator is good when its operands are.
LEMMA OperatorCheck ==
    ASSUME NEW schema, SchemaTyped(schema), NEW x, IsPart(x), x.e \notin {"column", "literal"},
           NEW of, \A o \in Operands(x) : Good(of[o], schema)
    PROVE  Good(check_operator(x, of), schema)
<1>1. x.e \in {"binary", "not", "isnull", "isnotnull", "in", "between"}
  BY DEF IsPart
<1>2. CASE x.e = "binary"
  <2>1. check_operator(x, of) = check_operands(x, of[x.left], of[x.right])
    BY <1>2 DEF check_operator
  <2>2. PICK l : l = of[x.left]
    OBVIOUS
  <2>3. PICK r : r = of[x.right]
    OBVIOUS
  <2>4. Good(l, schema) /\ Good(r, schema)
    BY <1>2, <2>2, <2>3 DEF Operands
  <2>5. CASE l.ok /\ r.ok
    <3>1. check_operator(x, of) = check_binary(x.op, l, r)
      BY <2>1, <2>2, <2>3, <2>5 DEF check_operands
    <3> QED
      BY <2>4, <2>5, <3>1, OperandsCheck
  <2>6. CASE ~(l.ok /\ r.ok)
    <3>1. ~check_operator(x, of).ok
      BY <2>1, <2>2, <2>3, <2>6 DEF check_operands, Checked
    <3> QED
      BY <3>1 DEF Good
  <2> QED
    BY <2>5, <2>6
<1>3. CASE x.e # "binary"
  <2>1. PICK inner : inner = of[x.arg]
    OBVIOUS
  <2>2. Good(inner, schema)
    BY <1>1, <1>3, <2>1 DEF Operands
  <2>3. CASE x.e \in {"not", "isnull", "isnotnull"}
    <3>1. check_operator(x, of) = check_unary(x, inner)
      BY <2>1, <2>3 DEF check_operator
    <3> QED
      BY <2>2, <2>3, <3>1, UnaryCheck
  <2>4. CASE x.e = "in"
    <3>1. PICK list : list = [i \in DOMAIN x.list |-> coerce_literal(x.list[i], inner.type)]
      OBVIOUS
    <3>2. check_operator(x, of) = check_list(x, inner, list)
      BY <2>1, <2>4, <3>1 DEF check_operator
    <3> QED
      BY <2>2, <2>4, <3>1, <3>2, ListCheck
  <2>5. CASE x.e = "between"
    <3>1. check_operator(x, of) = check_between(x, inner, coerce_literal(x.low, inner.type), coerce_literal(x.high, inner.type))
      BY <2>1, <2>5 DEF check_operator
    <3> QED
      BY <2>2, <2>5, <3>1, RangeCheck
  <2> QED
    BY <1>1, <1>3, <2>3, <2>4, <2>5
<1> QED
  BY <1>2, <1>3

\* What check_expr makes of the parts of x, n levels below them looked at.
IsChecked(K, x, schema, N) ==
    K = [n \in 0..N |-> [y \in Parts(x) |->
            CASE y.e = "column" -> check_column(y, schema)
              [] y.e = "literal" -> check_literal(y)
              [] OTHER -> IF n = 0 THEN Checked(FALSE, y, "bool") ELSE check_operator(y, K[n - 1])]]

\* The recursion of check_expr has a solution at every depth.
LEMMA CheckedExists ==
    ASSUME NEW x, NEW schema, NEW N \in Nat
    PROVE  \E K : IsChecked(K, x, schema, N)
<1> DEFINE S == { m \in 0..N : \E K : IsChecked(K, x, schema, m) }
           Body(D, n, y) ==
            CASE y.e = "column" -> check_column(y, schema)
              [] y.e = "literal" -> check_literal(y)
              [] OTHER -> IF n = 0 THEN Checked(FALSE, y, "bool") ELSE check_operator(y, D[n - 1])
           At(D, n) == [y \in Parts(x) |-> Body(D, n, y)]
<1>0. \A D, M : IsChecked(D, x, schema, M) <=> D = [n \in 0..M |-> At(D, n)]
  BY DEF IsChecked
<1>1. 0 \in S
  <2>1. PICK C : C = [n \in 0..0 |-> At(<<>>, 0)]
    OBVIOUS
  <2>2. \A y : Body(C, 0, y) = Body(<<>>, 0, y)
    OBVIOUS
  <2>3. At(C, 0) = At(<<>>, 0)
    <3> HIDE DEF Body
    <3> QED
      BY <2>2
  <2>4. C = [n \in 0..0 |-> At(C, n)]
    <3>1. \A n \in 0..0 : At(C, n) = At(<<>>, 0)
      <4> HIDE DEF At
      <4> QED
        BY <2>3
    <3> HIDE DEF At
    <3> QED
      BY <2>1, <3>1
  <2>5. IsChecked(C, x, schema, 0)
    <3> HIDE DEF At
    <3> QED
      BY <1>0, <2>4
  <2> QED
    BY <2>5
<1>2. ASSUME NEW m \in 0..(N - 1), m \in S
      PROVE  m + 1 \in S
  <2>1. PICK C : IsChecked(C, x, schema, m)
    BY <1>2
  <2>z. PICK last : last = At(C, m + 1)
    OBVIOUS
  <2>2. PICK K : K = [n \in 0..(m + 1) |-> IF n = m + 1 THEN last ELSE C[n]]
    OBVIOUS
  <2>a. \A n \in 0..m : C[n] = At(C, n)
    <3>1. C = [n \in 0..m |-> At(C, n)]
      <4> HIDE DEF At
      <4> QED
        BY <1>0, <2>1
    <3> HIDE DEF At
    <3> QED
      BY <3>1
  <2>b. \A n \in 0..(m + 1) : n # 0 => n - 1 \in 0..m /\ K[n - 1] = C[n - 1]
    BY <2>2
  <2>c. ASSUME NEW n \in 0..(m + 1) PROVE At(K, n) = At(C, n)
    <3>1. ASSUME NEW y PROVE Body(K, n, y) = Body(C, n, y)
      <4>1. CASE n = 0
        BY <4>1
      <4>2. CASE n # 0
        <5>1. K[n - 1] = C[n - 1]
          BY <2>b, <4>2
        <5> QED
          BY <4>2, <5>1
      <4> QED
        BY <4>1, <4>2
    <3> HIDE DEF Body
    <3> QED
      BY <3>1
  <2>3. ASSUME NEW n \in 0..(m + 1) PROVE K[n] = At(K, n)
    <3>1. CASE n = m + 1
      <4>1. K[n] = At(C, n)
        <5> HIDE DEF At
        <5> QED
          BY <2>z, <2>2, <3>1
      <4> HIDE DEF At
      <4> QED
        BY <2>c, <4>1
    <3>2. CASE n # m + 1
      <4>1. n \in 0..m
        BY <3>2
      <4> HIDE DEF At
      <4>2. K[n] = C[n]
        BY <2>2, <3>2, <4>1
      <4> QED
        BY <2>a, <2>c, <4>1, <4>2
    <3> QED
      BY <3>1, <3>2
  <2>4. K = [n \in 0..(m + 1) |-> K[n]]
    BY <2>2
  <2>5. K = [n \in 0..(m + 1) |-> At(K, n)]
    <3> HIDE DEF At
    <3> QED
      BY <2>3, <2>4
  <2>6. IsChecked(K, x, schema, m + 1)
    <3> HIDE DEF At
    <3> QED
      BY <1>0, <2>5
  <2> QED
    BY <2>6
<1> HIDE DEF S
<1>3. 0..N \subseteq S
  BY <1>1, <1>2, UpTo
<1> QED
  BY <1>3 DEF S

\* check_expr is that solution at the expression itself.
LEMMA CheckedAre ==
    ASSUME NEW x, NEW schema
    PROVE  \E K : IsChecked(K, x, schema, MaxDepth) /\ check_expr(x, schema) = K[MaxDepth][x]
<1> DEFINE checked[n \in 0..MaxDepth] == [y \in Parts(x) |->
            CASE y.e = "column" -> check_column(y, schema)
              [] y.e = "literal" -> check_literal(y)
              [] OTHER -> IF n = 0 THEN Checked(FALSE, y, "bool") ELSE check_operator(y, checked[n - 1])]
<1>1. check_expr(x, schema) = checked[MaxDepth][x]
  BY DEF check_expr
<1>2. \E K : IsChecked(K, x, schema, MaxDepth)
  <2>1. MaxDepth \in Nat
    BY DepthIsBound
  <2> QED
    BY <2>1, CheckedExists
<1>3. IsChecked(checked, x, schema, MaxDepth)
  BY <1>2 DEF IsChecked
<1> HIDE DEF checked
<1> QED
  BY <1>1, <1>3

\* A predicate the validator accepts fits the schema it was checked against.
LEMMA CheckFits ==
    ASSUME NEW x, IsPredicate(x), NEW schema, SchemaTyped(schema)
    PROVE  Good(check_expr(x, schema), schema)
<1>1. PICK K : IsChecked(K, x, schema, MaxDepth) /\ check_expr(x, schema) = K[MaxDepth][x]
  BY CheckedAre
<1>2. PICK L : IsLayers(L, x, MaxDepth) /\ Parts(x) = UNION {L[n] : n \in 0..MaxDepth}
  BY PartsAre
<1>3. /\ L[0] = {x} /\ x \in Parts(x) /\ MaxDepth \in Nat
      /\ \A n \in 0..MaxDepth : L[n] \subseteq Parts(x)
      /\ \A n \in 0..(MaxDepth - 1) : \A y : y \in L[n] => Operands(y) \subseteq L[n + 1]
  BY <1>2, LayerFacts
<1> DEFINE S == { n \in 0..MaxDepth : \A y \in L[MaxDepth - n] : Good(K[n][y], schema) }
<1>4. ASSUME NEW n \in 0..MaxDepth, NEW y \in Parts(x)
      PROVE  /\ y.e = "column" => K[n][y] = check_column(y, schema)
             /\ y.e = "literal" => K[n][y] = check_literal(y)
             /\ y.e \notin {"column", "literal"} =>
                   K[n][y] = IF n = 0 THEN Checked(FALSE, y, "bool") ELSE check_operator(y, K[n - 1])
  <2>1. K[n] = [z \in Parts(x) |->
            CASE z.e = "column" -> check_column(z, schema)
              [] z.e = "literal" -> check_literal(z)
              [] OTHER -> IF n = 0 THEN Checked(FALSE, z, "bool") ELSE check_operator(z, K[n - 1])]
    BY <1>1 DEF IsChecked
  <2>2. K[n][y] =
            CASE y.e = "column" -> check_column(y, schema)
              [] y.e = "literal" -> check_literal(y)
              [] OTHER -> IF n = 0 THEN Checked(FALSE, y, "bool") ELSE check_operator(y, K[n - 1])
    BY <2>1
  <2>3. CASE y.e = "column"
    BY <2>2, <2>3
  <2>4. CASE y.e = "literal"
    BY <2>2, <2>4
  <2>5. CASE y.e \notin {"column", "literal"} /\ n = 0
    BY <2>2, <2>5
  <2>6. CASE y.e \notin {"column", "literal"} /\ n # 0
    BY <2>2, <2>6
  <2> QED
    BY <2>3, <2>4, <2>5, <2>6
<1>5. ASSUME NEW y \in Parts(x)
      PROVE  /\ y.e = "column" => Good(check_column(y, schema), schema)
             /\ y.e = "literal" => Good(check_literal(y), schema)
  <2>1. IsPart(y)
    BY DEF IsPredicate
  <2>2. CASE y.e = "column"
    <3>1. y = Col(y.name)
      BY <2>1, <2>2 DEF IsPart
    <3>2. CASE y.name \in Names(schema)
      <4>1. Fits(y, schema)
        BY <3>1, <3>2, ColumnFits
      <4>2. check_column(y, schema).expr = y /\ check_column(y, schema).type = Column(schema, y.name).type
        BY <3>2 DEF check_column, Checked
      <4> QED
        BY <2>2, <3>2, <4>1, <4>2 DEF Good
    <3>3. CASE y.name \notin Names(schema)
      <4>1. ~check_column(y, schema).ok
        BY <3>3 DEF check_column, Checked
      <4> QED
        BY <2>2, <4>1 DEF Good
    <3> QED
      BY <3>2, <3>3
  <2>3. CASE y.e = "literal"
    <3>1. y = Lit(y.value) /\ y.value \in Scalars
      BY <2>1, <2>3 DEF IsPart
    <3>2. Fits(y, schema)
      BY <3>1, LiteralFits
    <3>3. check_literal(y).expr = y
      BY DEF check_literal, Checked
    <3> QED
      BY <2>3, <3>2, <3>3 DEF Good
  <2> QED
    BY <2>2, <2>3
<1>6. 0 \in S
  <2>1. ASSUME NEW y \in L[MaxDepth - 0] PROVE Good(K[0][y], schema)
    <3>1. MaxDepth - 0 = MaxDepth /\ MaxDepth \in 0..MaxDepth /\ 0 \in 0..MaxDepth
      BY <1>3
    <3>2. y \in Parts(x)
      BY <1>3, <3>1
    <3>3. CASE y.e \in {"column", "literal"}
      <4>1. K[0][y] = IF y.e = "column" THEN check_column(y, schema) ELSE check_literal(y)
        BY <1>4, <3>1, <3>2, <3>3
      <4> QED
        BY <1>5, <3>2, <3>3, <4>1
    <3>4. CASE y.e \notin {"column", "literal"}
      <4>1. K[0][y] = Checked(FALSE, y, "bool")
        BY <1>4, <3>1, <3>2, <3>4
      <4> QED
        BY <4>1 DEF Checked, Good
    <3> QED
      BY <3>3, <3>4
  <2> QED
    BY <1>3, <2>1
<1>7. ASSUME NEW n \in 0..(MaxDepth - 1), n \in S
      PROVE  n + 1 \in S
  <2>1. PICK k \in 0..(MaxDepth - 1) : k = MaxDepth - (n + 1)
    BY <1>3
  <2>2. k + 1 = MaxDepth - n /\ n + 1 \in 0..MaxDepth /\ n + 1 # 0 /\ (n + 1) - 1 = n /\ k \in 0..MaxDepth
    BY <1>3, <2>1
  <2>3. ASSUME NEW y \in L[k] PROVE Good(K[n + 1][y], schema)
    <3>1. y \in Parts(x)
      BY <1>3, <2>2
    <3>2. CASE y.e \in {"column", "literal"}
      <4>1. K[n + 1][y] = IF y.e = "column" THEN check_column(y, schema) ELSE check_literal(y)
        BY <1>4, <2>2, <3>1, <3>2
      <4> QED
        BY <1>5, <3>1, <3>2, <4>1
    <3>3. CASE y.e \notin {"column", "literal"}
      <4>1. K[n + 1][y] = check_operator(y, K[n])
        BY <1>4, <2>2, <3>1, <3>3
      <4>2. IsPart(y)
        BY <3>1 DEF IsPredicate
      <4>3. \A o \in Operands(y) : Good(K[n][o], schema)
        BY <1>3, <1>7, <2>2
      <4> QED
        BY <3>3, <4>1, <4>2, <4>3, OperatorCheck
    <3> QED
      BY <3>2, <3>3
  <2> QED
    BY <2>1, <2>2, <2>3
<1>8. 0..MaxDepth \subseteq S
  <2> HIDE DEF S
  <2> QED
    BY <1>3, <1>6, <1>7, UpTo
<1>9. \A y \in L[MaxDepth - MaxDepth] : Good(K[MaxDepth][y], schema)
  <2>1. MaxDepth \in 0..MaxDepth
    BY <1>3
  <2> QED
    BY <1>8, <2>1
<1>10. MaxDepth - MaxDepth = 0
  BY <1>3
<1> QED
  BY <1>1, <1>3, <1>9, <1>10

\* What rewrite_columns makes of the parts of x.
IsRewritten(K, x, source, N) ==
    K = [n \in 0..N |-> [y \in Parts(x) |->
            CASE y.e = "column" -> Col(source[y.name])
              [] y.e = "literal" -> y
              [] OTHER -> IF n = 0 THEN Lit(Null) ELSE rewrite_operands(y, K[n - 1])]]

\* The recursion of rewrite_columns has a solution at every depth.
LEMMA RewrittenExists ==
    ASSUME NEW x, NEW source, NEW N \in Nat
    PROVE  \E K : IsRewritten(K, x, source, N)
<1> DEFINE S == { m \in 0..N : \E K : IsRewritten(K, x, source, m) }
           Body(D, n, y) ==
            CASE y.e = "column" -> Col(source[y.name])
              [] y.e = "literal" -> y
              [] OTHER -> IF n = 0 THEN Lit(Null) ELSE rewrite_operands(y, D[n - 1])
           At(D, n) == [y \in Parts(x) |-> Body(D, n, y)]
<1>0. \A D, M : IsRewritten(D, x, source, M) <=> D = [n \in 0..M |-> At(D, n)]
  BY DEF IsRewritten
<1>1. 0 \in S
  <2>1. PICK C : C = [n \in 0..0 |-> At(<<>>, 0)]
    OBVIOUS
  <2>2. \A y : Body(C, 0, y) = Body(<<>>, 0, y)
    OBVIOUS
  <2>3. At(C, 0) = At(<<>>, 0)
    <3> HIDE DEF Body
    <3> QED
      BY <2>2
  <2>4. C = [n \in 0..0 |-> At(C, n)]
    <3>1. \A n \in 0..0 : At(C, n) = At(<<>>, 0)
      <4> HIDE DEF At
      <4> QED
        BY <2>3
    <3> HIDE DEF At
    <3> QED
      BY <2>1, <3>1
  <2>5. IsRewritten(C, x, source, 0)
    <3> HIDE DEF At
    <3> QED
      BY <1>0, <2>4
  <2> QED
    BY <2>5
<1>2. ASSUME NEW m \in 0..(N - 1), m \in S
      PROVE  m + 1 \in S
  <2>1. PICK C : IsRewritten(C, x, source, m)
    BY <1>2
  <2>z. PICK last : last = At(C, m + 1)
    OBVIOUS
  <2>2. PICK K : K = [n \in 0..(m + 1) |-> IF n = m + 1 THEN last ELSE C[n]]
    OBVIOUS
  <2>a. \A n \in 0..m : C[n] = At(C, n)
    <3>1. C = [n \in 0..m |-> At(C, n)]
      <4> HIDE DEF At
      <4> QED
        BY <1>0, <2>1
    <3> HIDE DEF At
    <3> QED
      BY <3>1
  <2>b. \A n \in 0..(m + 1) : n # 0 => n - 1 \in 0..m /\ K[n - 1] = C[n - 1]
    BY <2>2
  <2>c. ASSUME NEW n \in 0..(m + 1) PROVE At(K, n) = At(C, n)
    <3>1. ASSUME NEW y PROVE Body(K, n, y) = Body(C, n, y)
      <4>1. CASE n = 0
        BY <4>1
      <4>2. CASE n # 0
        <5>1. K[n - 1] = C[n - 1]
          BY <2>b, <4>2
        <5> QED
          BY <4>2, <5>1
      <4> QED
        BY <4>1, <4>2
    <3> HIDE DEF Body
    <3> QED
      BY <3>1
  <2>3. ASSUME NEW n \in 0..(m + 1) PROVE K[n] = At(K, n)
    <3>1. CASE n = m + 1
      <4>1. K[n] = At(C, n)
        <5> HIDE DEF At
        <5> QED
          BY <2>z, <2>2, <3>1
      <4> HIDE DEF At
      <4> QED
        BY <2>c, <4>1
    <3>2. CASE n # m + 1
      <4>1. n \in 0..m
        BY <3>2
      <4> HIDE DEF At
      <4>2. K[n] = C[n]
        BY <2>2, <3>2, <4>1
      <4> QED
        BY <2>a, <2>c, <4>1, <4>2
    <3> QED
      BY <3>1, <3>2
  <2>4. K = [n \in 0..(m + 1) |-> K[n]]
    BY <2>2
  <2>5. K = [n \in 0..(m + 1) |-> At(K, n)]
    <3> HIDE DEF At
    <3> QED
      BY <2>3, <2>4
  <2>6. IsRewritten(K, x, source, m + 1)
    <3> HIDE DEF At
    <3> QED
      BY <1>0, <2>5
  <2> QED
    BY <2>6
<1> HIDE DEF S
<1>3. 0..N \subseteq S
  BY <1>1, <1>2, UpTo
<1> QED
  BY <1>3 DEF S

\* rewrite_columns is that solution at the expression itself.
LEMMA RewrittenAre ==
    ASSUME NEW x, NEW source
    PROVE  \E K : IsRewritten(K, x, source, MaxDepth) /\ rewrite_columns(x, source) = K[MaxDepth][x]
<1> DEFINE rewritten[n \in 0..MaxDepth] == [y \in Parts(x) |->
            CASE y.e = "column" -> Col(source[y.name])
              [] y.e = "literal" -> y
              [] OTHER -> IF n = 0 THEN Lit(Null) ELSE rewrite_operands(y, rewritten[n - 1])]
<1>1. rewrite_columns(x, source) = rewritten[MaxDepth][x]
  BY DEF rewrite_columns
<1>2. \E K : IsRewritten(K, x, source, MaxDepth)
  <2>1. MaxDepth \in Nat
    BY DepthIsBound
  <2> QED
    BY <2>1, RewrittenExists
<1>3. IsRewritten(rewritten, x, source, MaxDepth)
  BY <1>2 DEF IsRewritten
<1> HIDE DEF rewritten
<1> QED
  BY <1>1, <1>3

\* Every alias stands for a column of the table, of the type the alias has.
Translates(source, schema) ==
    \A c \in Names(schema) : /\ source[c] \in Names(Table)
                             /\ Column(Table, source[c]).type = Column(schema, c).type

\* What a part of an expression that fits its schema is rewritten to.
Renders(r, y, source) ==
    /\ Fits(r, Table)
    /\ r.e = "column" => y.e = "column" /\ r = Col(source[y.name])
    /\ r.e = "literal" => r.value = Null \/ (y.e = "literal" /\ r.value = y.value)

\* A constant of the type of a column is one of its renaming's type.
LEMMA SuitsRendered ==
    ASSUME NEW schema, NEW source, Translates(source, schema), NEW y, NEW r, Renders(r, y, source),
           NEW v, SuitsColumn(y, v, schema)
    PROVE  SuitsColumn(r, v, Table)
<1> SUFFICES ASSUME r.e = "column" PROVE r.name \in Names(Table) /\ Suits(v, Column(Table, r.name).type)
  BY DEF SuitsColumn
<1>1. y.e = "column" /\ r = Col(source[y.name])
  BY DEF Renders
<1>2. r.name = source[y.name]
  BY <1>1 DEF Col
<1>3. y.name \in Names(schema) /\ Suits(v, Column(schema, y.name).type)
  BY <1>1 DEF SuitsColumn
<1> QED
  BY <1>2, <1>3 DEF Translates

\* One operator rewritten over rewritten operands.
LEMMA BinaryRendered ==
    ASSUME NEW schema, NEW source, Translates(source, schema), NEW y, Fit(y, schema), y.e = "binary",
           NEW l, NEW r, Renders(l, y.left, source), Renders(r, y.right, source)
    PROVE  Renders([y EXCEPT !.left = l, !.right = r], y, source)
<1>1. y = Binary(y.op, y.left, y.right)
  BY DEF Fit, IsPart
<1>2. PICK w : w = [y EXCEPT !.left = l]
  OBVIOUS
<1>3. w = Binary(y.op, l, y.right)
  BY <1>1, <1>2 DEF Binary
<1>4. PICK z : z = [w EXCEPT !.right = r]
  OBVIOUS
<1>5. z = Binary(y.op, l, r)
  BY <1>3, <1>4 DEF Binary
<1>6. [y EXCEPT !.left = l, !.right = r] = z
  BY <1>2, <1>4
<1>7. ASSUME y.op \in comparison, r.e = "literal"
      PROVE  SuitsColumn(l, r.value, Table)
  <2>1. CASE r.value = Null
    <3>1. ASSUME l.e = "column" PROVE l.name \in Names(Table)
      <4>1. Fit(l, Table)
        BY FitsItself DEF Renders
      <4> QED
        BY <3>1, <4>1 DEF Fit
    <3> QED
      BY <2>1, <3>1 DEF SuitsColumn, Suits
  <2>2. CASE y.right.e = "literal" /\ r.value = y.right.value
    <3>1. SuitsColumn(y.left, y.right.value, schema)
      BY <1>7, <2>2 DEF Fit
    <3> QED
      BY <2>2, <3>1, SuitsRendered
  <2> QED
    BY <1>7, <2>1, <2>2 DEF Renders
<1>8. ASSUME y.op \in comparison, l.e = "literal"
      PROVE  SuitsColumn(r, l.value, Table)
  <2>1. CASE l.value = Null
    <3>1. ASSUME r.e = "column" PROVE r.name \in Names(Table)
      <4>1. Fit(r, Table)
        BY FitsItself DEF Renders
      <4> QED
        BY <3>1, <4>1 DEF Fit
    <3> QED
      BY <2>1, <3>1 DEF SuitsColumn, Suits
  <2>2. CASE y.left.e = "literal" /\ l.value = y.left.value
    <3>1. SuitsColumn(y.right, y.left.value, schema)
      BY <1>8, <2>2 DEF Fit
    <3> QED
      BY <2>2, <3>1, SuitsRendered
  <2> QED
    BY <1>8, <2>1, <2>2 DEF Renders
<1>9. Fits(z, Table)
  BY <1>5, <1>7, <1>8, BinaryFits DEF Renders
<1> QED
  BY <1>5, <1>6, <1>9, NotColumn DEF Renders

\* An operator with one operand is rendered by rendering the operand.
LEMMA ArgumentRendered ==
    ASSUME NEW schema, NEW source, Translates(source, schema), NEW y, Fit(y, schema),
           y.e \notin {"column", "literal", "binary"}, NEW a, Renders(a, y.arg, source)
    PROVE  Renders([y EXCEPT !.arg = a], y, source)
<1>1. PICK z : z = [y EXCEPT !.arg = a]
  OBVIOUS
<1>2. IsPart(y) /\ y.e \in {"not", "isnull", "isnotnull", "in", "between"}
  BY DEF Fit, IsPart
<1>3. /\ IsPart(z) /\ z.e = y.e /\ Operands(z) = {a} /\ z.arg = a
      /\ y.e = "in" => z.list = y.list /\ z.negated = y.negated
      /\ y.e = "between" => z.low = y.low /\ z.high = y.high /\ z.negated = y.negated
  BY <1>1, <1>2, ArgumentPut
<1>4. y.e = "in" => \A i \in DOMAIN z.list : SuitsColumn(z.arg, z.list[i], Table)
  <2>1. y.e = "in" => \A i \in DOMAIN y.list : SuitsColumn(y.arg, y.list[i], schema)
    BY DEF Fit
  <2> QED
    BY <1>3, <2>1, SuitsRendered
<1>5. y.e = "between" => SuitsColumn(z.arg, z.low, Table) /\ SuitsColumn(z.arg, z.high, Table)
  <2>1. y.e = "between" => SuitsColumn(y.arg, y.low, schema) /\ SuitsColumn(y.arg, y.high, schema)
    BY DEF Fit
  <2> QED
    BY <1>3, <2>1, SuitsRendered
<1>6. Fit(z, Table)
  BY <1>2, <1>3, <1>4, <1>5 DEF Fit
<1>7. Fits(z, Table)
  BY <1>3, <1>6, OperatorFits DEF Renders
<1> QED
  BY <1>1, <1>2, <1>3, <1>7 DEF Renders

\* A predicate over aliases, rewritten to the columns of the table, fits it.
LEMMA RewriteFits ==
    ASSUME NEW x, NEW schema, Fits(x, schema), NEW source, Translates(source, schema)
    PROVE  Fits(rewrite_columns(x, source), Table)
<1>1. PICK K : IsRewritten(K, x, source, MaxDepth) /\ rewrite_columns(x, source) = K[MaxDepth][x]
  BY RewrittenAre
<1>2. PICK L : IsLayers(L, x, MaxDepth) /\ Parts(x) = UNION {L[n] : n \in 0..MaxDepth}
  BY PartsAre
<1>3. /\ L[0] = {x} /\ x \in Parts(x) /\ MaxDepth \in Nat
      /\ \A n \in 0..MaxDepth : L[n] \subseteq Parts(x)
      /\ \A n \in 0..(MaxDepth - 1) : \A y : y \in L[n] => Operands(y) \subseteq L[n + 1]
  BY <1>2, LayerFacts
<1> DEFINE S == { n \in 0..MaxDepth : \A y \in L[MaxDepth - n] : Renders(K[n][y], y, source) }
<1>4. ASSUME NEW n \in 0..MaxDepth, NEW y \in Parts(x)
      PROVE  /\ y.e = "column" => K[n][y] = Col(source[y.name])
             /\ y.e = "literal" => K[n][y] = y
             /\ y.e \notin {"column", "literal"} /\ n = 0 => K[n][y] = Lit(Null)
             /\ y.e \notin {"column", "literal"} /\ n # 0 => K[n][y] = rewrite_operands(y, K[n - 1])
  <2>1. K[n] = [z \in Parts(x) |->
            CASE z.e = "column" -> Col(source[z.name])
              [] z.e = "literal" -> z
              [] OTHER -> IF n = 0 THEN Lit(Null) ELSE rewrite_operands(z, K[n - 1])]
    BY <1>1 DEF IsRewritten
  <2>2. K[n][y] =
            CASE y.e = "column" -> Col(source[y.name])
              [] y.e = "literal" -> y
              [] OTHER -> IF n = 0 THEN Lit(Null) ELSE rewrite_operands(y, K[n - 1])
    BY <2>1
  <2>3. CASE y.e = "column"
    BY <2>2, <2>3
  <2>4. CASE y.e = "literal"
    BY <2>2, <2>4
  <2>5. CASE y.e \notin {"column", "literal"} /\ n = 0
    BY <2>2, <2>5
  <2>6. CASE y.e \notin {"column", "literal"} /\ n # 0
    BY <2>2, <2>6
  <2> QED
    BY <2>3, <2>4, <2>5, <2>6
<1>5. ASSUME NEW y \in Parts(x)
      PROVE  /\ y.e = "column" => Renders(Col(source[y.name]), y, source)
             /\ y.e = "literal" => Renders(y, y, source)
  <2>1. Fit(y, schema)
    BY DEF Fits
  <2>2. CASE y.e = "column"
    <3>1. source[y.name] \in Names(Table)
      BY <2>1, <2>2 DEF Fit, Translates
    <3>2. Fits(Col(source[y.name]), Table) /\ Col(source[y.name]).e = "column"
      BY <3>1, ColumnFits DEF Col
    <3> QED
      BY <2>2, <3>2 DEF Renders
  <2>3. CASE y.e = "literal"
    <3>1. y = Lit(y.value) /\ y.value \in Scalars
      BY <2>1, <2>3 DEF Fit, IsPart
    <3>2. Fits(y, Table)
      BY <3>1, LiteralFits
    <3> QED
      BY <2>3, <3>2 DEF Renders
  <2> QED
    BY <2>2, <2>3
<1>6. 0 \in S
  <2>1. ASSUME NEW y \in L[MaxDepth - 0] PROVE Renders(K[0][y], y, source)
    <3>1. MaxDepth - 0 = MaxDepth /\ MaxDepth \in 0..MaxDepth /\ 0 \in 0..MaxDepth
      BY <1>3
    <3>2. y \in Parts(x)
      BY <1>3, <3>1
    <3>3. CASE y.e = "column"
      <4>1. K[0][y] = Col(source[y.name])
        BY <1>4, <3>1, <3>2, <3>3
      <4> QED
        BY <1>5, <3>2, <3>3, <4>1
    <3>5. CASE y.e = "literal"
      <4>1. K[0][y] = y
        BY <1>4, <3>1, <3>2, <3>5
      <4> QED
        BY <1>5, <3>2, <3>5, <4>1
    <3>4. CASE y.e \notin {"column", "literal"}
      <4>1. K[0][y] = Lit(Null)
        BY <1>4, <3>1, <3>2, <3>4
      <4>2. Null \in Scalars
        BY DEF Null, Scalars, discriminant
      <4>3. Fits(Lit(Null), Table)
        BY <4>2, LiteralFits
      <4>4. Lit(Null).e = "literal" /\ Lit(Null).value = Null
        BY DEF Lit
      <4> QED
        BY <4>1, <4>3, <4>4 DEF Renders
    <3> QED
      BY <3>3, <3>4, <3>5
  <2> QED
    BY <1>3, <2>1
<1>7. ASSUME NEW n \in 0..(MaxDepth - 1), n \in S
      PROVE  n + 1 \in S
  <2>1. PICK k \in 0..(MaxDepth - 1) : k = MaxDepth - (n + 1)
    BY <1>3
  <2>2. k + 1 = MaxDepth - n /\ n + 1 \in 0..MaxDepth /\ n + 1 # 0 /\ (n + 1) - 1 = n /\ k \in 0..MaxDepth
    BY <1>3, <2>1
  <2>3. ASSUME NEW y \in L[k] PROVE Renders(K[n + 1][y], y, source)
    <3>1. y \in Parts(x)
      BY <1>3, <2>2
    <3>2. Fit(y, schema)
      BY <3>1 DEF Fits
    <3>3. CASE y.e = "column"
      <4>1. K[n + 1][y] = Col(source[y.name])
        BY <1>4, <2>2, <3>1, <3>3
      <4> QED
        BY <1>5, <3>1, <3>3, <4>1
    <3>4. CASE y.e = "literal"
      <4>1. K[n + 1][y] = y
        BY <1>4, <2>2, <3>1, <3>4
      <4> QED
        BY <1>5, <3>1, <3>4, <4>1
    <3>5. \A o \in Operands(y) : Renders(K[n][o], o, source)
      BY <1>3, <1>7, <2>2
    <3>6. CASE y.e = "binary"
      <4>2. Renders(K[n][y.left], y.left, source) /\ Renders(K[n][y.right], y.right, source)
        BY <3>5, <3>6 DEF Operands
      <4>3. K[n + 1][y] = [y EXCEPT !.left = K[n][y.left], !.right = K[n][y.right]]
        <5>1. PICK of : of = K[n]
          OBVIOUS
        <5>2. K[n + 1][y] = rewrite_operands(y, of)
          BY <1>4, <2>2, <3>1, <3>6, <5>1
        <5> QED
          BY <3>6, <5>1, <5>2 DEF rewrite_operands
      <4> QED
        <5>1. PICK z : z = [y EXCEPT !.left = K[n][y.left], !.right = K[n][y.right]]
          OBVIOUS
        <5>2. K[n + 1][y] = z
          BY <4>3, <5>1
        <5>3. Renders(z, y, source)
          BY <3>2, <3>6, <4>2, <5>1, BinaryRendered, Zenon
        <5> QED
          BY <5>2, <5>3
    <3>7. CASE y.e \notin {"column", "literal", "binary"}
      <4>2. Renders(K[n][y.arg], y.arg, source)
        <5>1. y.e # "none"
          BY <3>2 DEF Fit, IsPart
        <5> QED
          BY <3>5, <3>7, <5>1 DEF Operands
      <4>3. K[n + 1][y] = [y EXCEPT !.arg = K[n][y.arg]]
        <5>1. PICK of : of = K[n]
          OBVIOUS
        <5>2. K[n + 1][y] = rewrite_operands(y, of)
          BY <1>4, <2>2, <3>1, <3>7, <5>1
        <5> QED
          BY <3>7, <5>1, <5>2 DEF rewrite_operands
      <4> QED
        BY <3>2, <3>7, <4>2, <4>3, ArgumentRendered
    <3> QED
      BY <3>3, <3>4, <3>6, <3>7
  <2> QED
    BY <2>1, <2>2, <2>3
<1>8. 0..MaxDepth \subseteq S
  <2> HIDE DEF S
  <2> QED
    BY <1>3, <1>6, <1>7, UpTo
<1>9. \A y \in L[MaxDepth - MaxDepth] : Renders(K[MaxDepth][y], y, source)
  <2>1. MaxDepth \in 0..MaxDepth
    BY <1>3
  <2> QED
    BY <1>8, <2>1
<1>10. MaxDepth - MaxDepth = 0
  BY <1>3
<1> QED
  BY <1>1, <1>3, <1>9, <1>10 DEF Renders

-----------------------------------------------------------------------------
(* A plan request is lowered to a query.                                   *)

\* An operator over predicates is a predicate.
LEMMA OperatorIsPredicate ==
    ASSUME NEW z, IsPart(z), \A o \in Operands(z) : IsPredicate(o)
    PROVE  IsPredicate(z)
<1> SUFFICES ASSUME NEW y \in Parts(z) PROVE IsPart(y)
  BY DEF IsPredicate
<1>1. CASE y = z
  BY <1>1
<1>2. CASE y # z
  BY <1>2, PartsBelow DEF IsPredicate
<1> QED
  BY <1>1, <1>2

\* Columns and literals are predicates.
LEMMA LeavesArePredicates ==
    /\ \A c : IsPredicate(Col(c))
    /\ \A v \in Scalars : IsPredicate(Lit(v))
<1>1. ASSUME NEW c PROVE IsPredicate(Col(c))
  <2>1. Col(c).e = "column" /\ Col(c) = Col(Col(c).name)
    BY DEF Col
  <2>2. IsPart(Col(c)) /\ Operands(Col(c)) = {}
    BY <2>1 DEF IsPart, Operands
  <2> QED
    BY <2>2, OperatorIsPredicate
<1>2. ASSUME NEW v \in Scalars PROVE IsPredicate(Lit(v))
  <2>1. Lit(v).e = "literal" /\ Lit(v).value = v
    BY DEF Lit
  <2>2. IsPart(Lit(v)) /\ Operands(Lit(v)) = {}
    BY <2>1 DEF IsPart, Operands
  <2> QED
    BY <2>2, OperatorIsPredicate
<1> QED
  BY <1>1, <1>2

\* The values of a JSON request are scalars.
LEMMA JsonIsScalar ==
    JsonScalars \subseteq Scalars
BY DEF JsonScalars, Scalars, discriminant

\* Each filter of a request is lowered to a predicate.
LEMMA FilterIsPredicate ==
    ASSUME NEW f, IsSequence(f.values), FilterLowers(f)
    PROVE  IsPredicate(filter_to_expr(f))
<1>1. PICK c : c = Col(f.column)
  OBVIOUS
<1>2. IsPredicate(c)
  BY <1>1, LeavesArePredicates
<1>3. CASE f.op = "is_null"
  <2>1. PICK z : z = IsNull(c)
    OBVIOUS
  <2>2. filter_to_expr(f) = z
    BY <1>1, <1>3, <2>1 DEF filter_to_expr
  <2>3. z.e = "isnull" /\ z.arg = c
    BY <2>1 DEF IsNull
  <2>4. IsPart(z) /\ Operands(z) = {c}
    BY <2>1, <2>3 DEF IsPart, Operands
  <2> QED
    BY <1>2, <2>2, <2>4, OperatorIsPredicate
<1>4. CASE f.op = "is_not_null"
  <2>1. PICK z : z = IsNotNull(c)
    OBVIOUS
  <2>2. filter_to_expr(f) = z
    BY <1>1, <1>4, <2>1 DEF filter_to_expr
  <2>3. z.e = "isnotnull" /\ z.arg = c
    BY <2>1 DEF IsNotNull
  <2>4. IsPart(z) /\ Operands(z) = {c}
    BY <2>1, <2>3 DEF IsPart, Operands
  <2> QED
    BY <1>2, <2>2, <2>4, OperatorIsPredicate
<1>5. CASE f.op \in {"in", "not_in"}
  <2>1. PICK z : z = InList(c, f.values, f.op = "not_in")
    OBVIOUS
  <2>2. filter_to_expr(f) = z
    BY <1>1, <1>5, <2>1 DEF filter_to_expr
  <2>3. \A i \in DOMAIN f.values : f.values[i] \in JsonScalars
    BY <1>5 DEF FilterLowers
  <2>4. f.values \in Seq(Scalars)
    <3>1. Len(f.values) \in Nat /\ DOMAIN f.values = 1..Len(f.values) /\ f.values \in [1..Len(f.values) -> ToSet(f.values)]
      BY SequenceIs
    <3>2. f.values \in [1..Len(f.values) -> Scalars]
      <4> HIDE DEF Scalars
      <4> QED
        BY <2>3, <3>1, JsonIsScalar
    <3> QED
      BY <3>1, <3>2
  <2>5. z.e = "in" /\ z.arg = c /\ z.list = f.values /\ z = InList(z.arg, z.list, z.negated)
    BY <2>1 DEF InList
  <2>6. IsPart(z) /\ Operands(z) = {c}
    BY <2>4, <2>5 DEF IsPart, Operands
  <2> QED
    BY <1>2, <2>2, <2>6, OperatorIsPredicate
<1>6. CASE f.op = "between"
  <2>1. PICK z : z = Between(c, f.values[1], f.values[2], FALSE)
    OBVIOUS
  <2>2. filter_to_expr(f) = z
    BY <1>1, <1>6, <2>1 DEF filter_to_expr
  <2>3. f.values[1] \in Scalars /\ f.values[2] \in Scalars
    <3>1. \A i \in 1..2 : f.values[i] \in JsonScalars
      BY <1>6 DEF FilterLowers
    <3>2. 1 \in 1..2 /\ 2 \in 1..2
      OBVIOUS
    <3> QED
      BY <3>1, <3>2, JsonIsScalar
  <2>4. z.e = "between" /\ z.arg = c /\ z.low = f.values[1] /\ z.high = f.values[2]
        /\ z = Between(z.arg, z.low, z.high, z.negated)
    BY <2>1 DEF Between
  <2>5. IsPart(z) /\ Operands(z) = {c}
    BY <2>3, <2>4 DEF IsPart, Operands
  <2> QED
    BY <1>2, <2>2, <2>5, OperatorIsPredicate
<1>7. CASE f.op \notin {"is_null", "is_not_null", "in", "not_in", "between"}
  <2>1. PICK v : v = f.value[1]
    OBVIOUS
  <2>2. v \in Scalars
    <3>1. v \in JsonScalars
      BY <1>7, <2>1 DEF FilterLowers
    <3> QED
      BY <3>1, JsonIsScalar
  <2>3. PICK z : z = Binary(f.op, c, Lit(v))
    OBVIOUS
  <2>4. filter_to_expr(f) = z
    BY <1>1, <1>7, <2>1, <2>3 DEF filter_to_expr
  <2>5. z.e = "binary" /\ z.left = c /\ z.right = Lit(v) /\ z = Binary(z.op, z.left, z.right)
    BY <2>3 DEF Binary
  <2>6. IsPart(z) /\ Operands(z) = {c, Lit(v)}
    BY <2>5 DEF IsPart, Operands
  <2> QED
    BY <1>2, <2>2, <2>4, <2>6, OperatorIsPredicate, LeavesArePredicates
<1> QED
  BY <1>3, <1>4, <1>5, <1>6, <1>7

\* The filters up to each, joined by AND.
IsJoined(A, filters, N) ==
    A = [i \in 1..N |-> IF i = 1 THEN filter_to_expr(filters[1])
                        ELSE Binary("and", A[i - 1], filter_to_expr(filters[i]))]

\* A list of filters can be joined up to any length.
LEMMA JoinedExists ==
    ASSUME NEW filters, NEW N \in Nat
    PROVE  \E A : IsJoined(A, filters, N)
<1> DEFINE S == { m \in 0..N : \E A : IsJoined(A, filters, m) }
           At(A, i) == IF i = 1 THEN filter_to_expr(filters[1])
                       ELSE Binary("and", A[i - 1], filter_to_expr(filters[i]))
<1>0. \A A, M : IsJoined(A, filters, M) <=> A = [i \in 1..M |-> At(A, i)]
  BY DEF IsJoined
<1>1. 0 \in S
  <2>1. PICK A : A = [i \in 1..0 |-> 0]
    OBVIOUS
  <2>2. A = [i \in 1..0 |-> At(A, i)]
    <3> HIDE DEF At
    <3> QED
      BY <2>1
  <2>3. IsJoined(A, filters, 0)
    <3> HIDE DEF At
    <3> QED
      BY <1>0, <2>2
  <2> QED
    BY <2>3
<1>2. ASSUME NEW m \in 0..(N - 1), m \in S
      PROVE  m + 1 \in S
  <2>1. PICK C : IsJoined(C, filters, m)
    BY <1>2
  <2>2. PICK last : last = At(C, m + 1)
    OBVIOUS
  <2>3. PICK K : K = [i \in 1..(m + 1) |-> IF i = m + 1 THEN last ELSE C[i]]
    OBVIOUS
  <2>4. C = [i \in 1..m |-> At(C, i)]
    <3> HIDE DEF At
    <3> QED
      BY <1>0, <2>1
  <2>5. ASSUME NEW i \in 1..(m + 1) PROVE At(K, i) = At(C, i)
    <3>1. CASE i = 1
      BY <3>1
    <3>2. CASE i # 1
      <4>1. K[i - 1] = C[i - 1]
        BY <2>3, <3>2
      <4> QED
        BY <3>2, <4>1
    <3> QED
      BY <3>1, <3>2
  <2>6. ASSUME NEW i \in 1..(m + 1) PROVE K[i] = At(K, i)
    <3>1. CASE i = m + 1
      <4>1. K[i] = At(C, i)
        <5> HIDE DEF At
        <5> QED
          BY <2>2, <2>3, <3>1
      <4> HIDE DEF At
      <4> QED
        BY <2>5, <4>1
    <3>2. CASE i # m + 1
      <4>1. i \in 1..m
        BY <3>2
      <4> HIDE DEF At
      <4>2. K[i] = C[i]
        BY <2>3, <3>2, <4>1
      <4>3. C[i] = At(C, i)
        BY <2>4, <4>1
      <4> QED
        BY <2>5, <4>2, <4>3
    <3> QED
      BY <3>1, <3>2
  <2>7. K = [i \in 1..(m + 1) |-> K[i]]
    BY <2>3
  <2>8. K = [i \in 1..(m + 1) |-> At(K, i)]
    <3> HIDE DEF At
    <3> QED
      BY <2>6, <2>7
  <2>9. IsJoined(K, filters, m + 1)
    <3> HIDE DEF At
    <3> QED
      BY <1>0, <2>8
  <2> QED
    BY <2>9
<1> HIDE DEF S
<1>3. 0..N \subseteq S
  BY <1>1, <1>2, UpTo
<1> QED
  BY <1>3 DEF S

\* The conjunction of the filters of a request is a predicate.
LEMMA PredicateIs ==
    ASSUME NEW filters, IsSequence(filters), filters # <<>>,
           \A i \in DOMAIN filters : IsSequence(filters[i].values) /\ FilterLowers(filters[i])
    PROVE  IsPredicate(predicate(filters))
<1> DEFINE all[i \in 1..Len(filters)] ==
            IF i = 1 THEN filter_to_expr(filters[1])
            ELSE Binary("and", all[i - 1], filter_to_expr(filters[i]))
<1>1. predicate(filters) = all[Len(filters)]
  BY DEF predicate
<1>2. Len(filters) \in Nat /\ DOMAIN filters = 1..Len(filters) /\ Len(filters) # 0
  <2>1. Len(filters) \in Nat /\ DOMAIN filters = 1..Len(filters)
    BY SequenceIs
  <2>2. filters \in Seq(ToSet(filters))
    BY DEF IsSequence
  <2> QED
    BY <2>1, <2>2
<1>3. \E A : IsJoined(A, filters, Len(filters))
  BY <1>2, JoinedExists
<1>4. IsJoined(all, filters, Len(filters))
  BY <1>3 DEF IsJoined
<1>5. PICK A : A = all
  OBVIOUS
<1> HIDE DEF all
<1> DEFINE S == { m \in 0..Len(filters) : m # 0 => IsPredicate(A[m]) }
<1>6. ASSUME NEW i \in 1..Len(filters)
      PROVE  A[i] = IF i = 1 THEN filter_to_expr(filters[1])
                    ELSE Binary("and", A[i - 1], filter_to_expr(filters[i]))
  BY <1>4, <1>5 DEF IsJoined
<1>7. 0 \in S
  BY <1>2
<1>8. ASSUME NEW m \in 0..(Len(filters) - 1), m \in S
      PROVE  m + 1 \in S
  <2>1. m + 1 \in 1..Len(filters) /\ (m + 1) - 1 = m
    BY <1>2
  <2>2. IsPredicate(filter_to_expr(filters[m + 1]))
    BY <1>2, <2>1, FilterIsPredicate
  <2>3. CASE m = 0
    <3>1. A[m + 1] = filter_to_expr(filters[m + 1])
      BY <1>6, <2>1, <2>3
    <3> QED
      BY <2>1, <2>2, <3>1
  <2>4. CASE m # 0
    <3>1. PICK f : f = filter_to_expr(filters[m + 1])
      OBVIOUS
    <3>2. PICK z : z = Binary("and", A[m], f)
      OBVIOUS
    <3>3. A[m + 1] = z
      BY <1>6, <2>1, <2>4, <3>1, <3>2
    <3>4. z.e = "binary" /\ z.left = A[m] /\ z.right = f /\ z = Binary(z.op, z.left, z.right)
      BY <3>2 DEF Binary
    <3>5. IsPart(z) /\ Operands(z) = {A[m], f}
      BY <3>4 DEF IsPart, Operands
    <3>6. IsPredicate(A[m])
      BY <1>8, <2>4
    <3>7. IsPredicate(z)
      BY <2>2, <3>1, <3>5, <3>6, OperatorIsPredicate
    <3> QED
      BY <2>1, <3>3, <3>7
  <2> QED
    BY <2>3, <2>4
<1>9. 0..Len(filters) \subseteq S
  <2> HIDE DEF S
  <2> QED
    BY <1>2, <1>7, <1>8, UpTo
<1>10. Len(filters) \in 0..Len(filters)
  BY <1>2
<1> QED
  BY <1>1, <1>2, <1>5, <1>9, <1>10

\* Each node that can be made is a node.
LEMMA NodesAre ==
    /\ \A columns : IsSequence(columns) => IsNode(Scan(columns))
    /\ \A x : IsPredicate(x) => IsNode(Filter(x))
    /\ \A keys, aggs : IsSequence(keys) /\ IsSequence(aggs) => IsNode(Aggregate(keys, aggs))
    /\ \A keys : IsSequence(keys) => IsNode(Sort(keys))
    /\ \A limit, offset : IsNode(Limit(limit, offset))
<1>1. ASSUME NEW columns, IsSequence(columns) PROVE IsNode(Scan(columns))
  <2>1. Scan(columns).n = "scan" /\ Scan(columns).columns = columns
    BY DEF Scan
  <2> QED
    BY <1>1, <2>1 DEF IsNode
<1>2. ASSUME NEW x, IsPredicate(x) PROVE IsNode(Filter(x))
  <2>1. Filter(x).n = "filter" /\ Filter(x).predicate = x
    BY DEF Filter
  <2> QED
    BY <1>2, <2>1 DEF IsNode
<1>3. ASSUME NEW keys, NEW aggs, IsSequence(keys), IsSequence(aggs) PROVE IsNode(Aggregate(keys, aggs))
  <2>1. Aggregate(keys, aggs).n = "aggregate" /\ Aggregate(keys, aggs).group_by = keys /\ Aggregate(keys, aggs).aggregates = aggs
    BY DEF Aggregate
  <2> QED
    BY <1>3, <2>1 DEF IsNode
<1>4. ASSUME NEW keys, IsSequence(keys) PROVE IsNode(Sort(keys))
  <2>1. Sort(keys).n = "sort" /\ Sort(keys).keys = keys
    BY DEF Sort
  <2> QED
    BY <1>4, <2>1 DEF IsNode
<1>5. ASSUME NEW limit, NEW offset PROVE IsNode(Limit(limit, offset))
  <2>1. Limit(limit, offset).n = "limit" /\ Limit(limit, offset).limit = limit /\ Limit(limit, offset).offset = offset
    BY DEF Limit
  <2> QED
    BY <2>1 DEF IsNode
<1> QED
  BY <1>1, <1>2, <1>3, <1>4, <1>5

\* A query of one node, of none, and of two parts.
LEMMA QueriesJoin ==
    /\ IsQuery(<<>>)
    /\ \A node : IsNode(node) => IsQuery(<<node>>)
    /\ \A a, b : IsQuery(a) /\ IsQuery(b) => IsQuery(a \o b)
<1>1. IsQuery(<<>>)
  <2>1. <<>> \in Seq({}) /\ ToSet(<<>>) = {}
    BY DEF ToSet
  <2> QED
    BY <2>1 DEF IsQuery, IsSequence
<1>2. ASSUME NEW node, IsNode(node) PROVE IsQuery(<<node>>)
  <2>1. <<node>> \in Seq({node})
    OBVIOUS
  <2>2. IsSequence(<<node>>) /\ ToSet(<<node>>) \subseteq {node}
    BY <2>1, SequenceIs
  <2> QED
    BY <1>2, <2>2 DEF IsQuery
<1>3. ASSUME NEW a, NEW b, IsQuery(a), IsQuery(b) PROVE IsQuery(a \o b)
  <2>1. IsSequence(a) /\ IsSequence(b)
    BY <1>3 DEF IsQuery
  <2>2. IsSequence(a \o b) /\ ToSet(a \o b) = ToSet(a) \cup ToSet(b)
    BY <2>1, Concatenates
  <2> QED
    BY <1>3, <2>2 DEF IsQuery
<1> QED
  BY <1>1, <1>2, <1>3

\* What to_ir makes of a plan request is a query.
LEMMA RequestsLower ==
    ASSUME NEW r, IsRequest(r), to_ir(r).ok
    PROVE  IsQuery(to_ir(r).query)
<1>1. PICK aggregates \in BOOLEAN : aggregates = (r.operation = "aggregate")
  OBVIOUS
<1>2. PICK scan_node : scan_node = <<Scan(IF aggregates THEN All ELSE r.columns)>>
  OBVIOUS
<1>3. PICK filter : filter = IF r.filters = <<>> THEN <<>> ELSE <<Filter(predicate(r.filters))>>
  OBVIOUS
<1>4. PICK aggs : aggs = [i \in DOMAIN r.metrics |->
          AggregateExpr(r.metrics[i].function, r.metrics[i].column,
             IF r.metrics[i].alias = "" THEN default_alias(r.metrics[i].function, r.metrics[i].column)
             ELSE r.metrics[i].alias)]
  BY Zenon
<1>5. PICK aggregate : aggregate = IF aggregates THEN <<Aggregate(r.group_by, aggs)>> ELSE <<>>
  OBVIOUS
<1>6. PICK keys : keys = [i \in DOMAIN r.order_by |-> SortExpr(r.order_by[i].column, r.order_by[i].direction = "asc")]
  OBVIOUS
<1>7. PICK sort : sort = IF r.order_by = <<>> THEN <<>> ELSE <<Sort(keys)>>
  OBVIOUS
<1>8. PICK limit : limit = IF r.limit = None THEN <<>> ELSE <<Limit(r.limit, IF r.offset = None THEN 0 ELSE r.offset)>>
  OBVIOUS
<1>9. PICK accepted \in BOOLEAN : accepted =
          (/\ \A i \in DOMAIN r.filters : FilterLowers(r.filters[i])
           /\ IF aggregates THEN r.metrics /= <<>> ELSE r.metrics = <<>> /\ r.group_by = <<>>
           /\ r.limit /= None \/ r.offset <= 0)
  OBVIOUS
<1>10. to_ir(r) = IF accepted THEN [ok |-> TRUE, query |-> scan_node \o filter \o aggregate \o sort \o limit] ELSE Refused
  BY <1>1, <1>2, <1>3, <1>4, <1>5, <1>6, <1>7, <1>8, <1>9, Zenon DEF to_ir
<1>11. accepted
  BY <1>10 DEF Refused
<1>12. /\ IsSequence(r.filters) /\ \A f \in ToSet(r.filters) : IsSequence(f.values)
       /\ IsSequence(r.columns) /\ IsSequence(r.group_by)
       /\ IsSequence(r.metrics) /\ IsSequence(r.order_by)
  BY DEF IsRequest
<1>13. IsQuery(scan_node)
  <2>1. IsSequence(All)
    BY QueriesJoin DEF All, IsQuery
  <2>2. IsSequence(IF aggregates THEN All ELSE r.columns)
    BY <1>12, <2>1
  <2> QED
    BY <1>2, <2>2, NodesAre, QueriesJoin
<1>14. IsQuery(filter)
  <2>1. CASE r.filters = <<>>
    BY <1>3, <2>1, QueriesJoin
  <2>2. CASE r.filters # <<>>
    <3>1. \A i \in DOMAIN r.filters : IsSequence(r.filters[i].values) /\ FilterLowers(r.filters[i])
      BY <1>9, <1>11, <1>12 DEF ToSet
    <3>2. IsPredicate(predicate(r.filters))
      BY <1>12, <2>2, <3>1, PredicateIs
    <3> QED
      BY <1>3, <2>2, <3>2, NodesAre, QueriesJoin
  <2> QED
    BY <2>1, <2>2
<1>15. IsQuery(aggregate)
  <2>1. Len(r.metrics) \in Nat /\ DOMAIN r.metrics = 1..Len(r.metrics)
    BY <1>12, SequenceIs
  <2>2. aggs = [i \in 1..Len(r.metrics) |-> aggs[i]]
    BY <1>4, <2>1, Zenon
  <2>3. IsSequence(aggs)
    BY <2>1, <2>2, MakesSequence
  <2> QED
    BY <1>5, <1>12, <2>3, NodesAre, QueriesJoin
<1>16. IsQuery(sort)
  <2>1. Len(r.order_by) \in Nat /\ DOMAIN r.order_by = 1..Len(r.order_by)
    BY <1>12, SequenceIs
  <2>2. keys = [i \in 1..Len(r.order_by) |-> keys[i]]
    BY <1>6, <2>1
  <2>3. IsSequence(keys)
    BY <2>1, <2>2, MakesSequence
  <2> QED
    BY <1>7, <2>3, NodesAre, QueriesJoin
<1>17. IsQuery(limit)
  BY <1>8, NodesAre, QueriesJoin
<1>18. IsQuery(scan_node \o filter \o aggregate \o sort \o limit)
  BY <1>13, <1>14, <1>15, <1>16, <1>17, QueriesJoin
<1> QED
  BY <1>10, <1>11, <1>18

-----------------------------------------------------------------------------
(* A validated query is built into a pipeline.                             *)

IsPipeline(p) ==
    /\ p = [ok |-> p.ok, stage |-> p.stage, scan_columns |-> p.scan_columns, filter |-> p.filter,
            aggregate |-> p.aggregate, renamed |-> p.renamed, rename |-> p.rename,
            sort |-> p.sort, limit |-> p.limit, offset |-> p.offset]
    /\ p.ok /\ p.stage \in 0..5 /\ p.renamed \in BOOLEAN

\* The pipeline that differs from p in its stage.
LEMMA StageSet ==
    ASSUME NEW p, IsPipeline(p), NEW s \in 0..5, NEW q, q = [p EXCEPT !.stage = s]
    PROVE  /\ IsPipeline(q) /\ q.stage = s /\ q.scan_columns = p.scan_columns /\ q.filter = p.filter
           /\ q.aggregate = p.aggregate /\ q.renamed = p.renamed /\ q.rename = p.rename
           /\ q.sort = p.sort /\ q.limit = p.limit /\ q.offset = p.offset
<1>1. q = [ok |-> p.ok, stage |-> s, scan_columns |-> p.scan_columns, filter |-> p.filter,
            aggregate |-> p.aggregate, renamed |-> p.renamed, rename |-> p.rename,
            sort |-> p.sort, limit |-> p.limit, offset |-> p.offset]
  BY DEF IsPipeline
<1> QED
  BY <1>1 DEF IsPipeline

\* The stage a placed node leads to, and the pipeline it is put into.
StageAfter(p, node) == IF Stage[node.n] > p.stage THEN Stage[node.n] ELSE p.stage
Base(p) == [a \in Aliases(p.rename) |-> SourceOf(p.rename, a)]
NodeKinds == {"scan", "filter", "aggregate", "project", "sort", "limit"}

\* The stages of a pipeline.
LEMMA StagesAre ==
    /\ Stage["scan"] = 0 /\ Stage["filter"] = 1 /\ Stage["aggregate"] = 2
    /\ Stage["project"] = 3 /\ Stage["sort"] = 4 /\ Stage["limit"] = 5 /\ Stage.project = 3
BY DEF Stage

\* A node is placed at a stage that is not before the pipeline's.
LEMMA PlacedStage ==
    ASSUME NEW p, IsPipeline(p), NEW node, node.n \in NodeKinds, place(p, node).ok
    PROVE  /\ Stage[node.n] >= p.stage \/ equivalent(p, node)
           /\ \E q : /\ q = [p EXCEPT !.stage = StageAfter(p, node)]
                     /\ IsPipeline(q) /\ q.stage = StageAfter(p, node) /\ q.scan_columns = p.scan_columns
                     /\ q.filter = p.filter /\ q.aggregate = p.aggregate /\ q.renamed = p.renamed
                     /\ q.rename = p.rename /\ q.sort = p.sort
                     /\ q.limit = p.limit /\ q.offset = p.offset
<1>1. PICK in_order \in BOOLEAN : in_order = (Stage[node.n] >= p.stage \/ equivalent(p, node))
  OBVIOUS
<1>2. ~in_order => place(p, node) = Refused
  BY <1>1 DEF place
<1>3. in_order
  BY <1>2 DEF Refused
<1>4. StageAfter(p, node) \in 0..5
  BY StagesAre DEF StageAfter, NodeKinds, IsPipeline
<1>5. PICK q : q = [p EXCEPT !.stage = StageAfter(p, node)]
  OBVIOUS
<1>6. /\ IsPipeline(q) /\ q.stage = StageAfter(p, node) /\ q.scan_columns = p.scan_columns /\ q.filter = p.filter
      /\ q.aggregate = p.aggregate /\ q.renamed = p.renamed /\ q.rename = p.rename
      /\ q.sort = p.sort /\ q.limit = p.limit /\ q.offset = p.offset
  BY <1>4, <1>5, StageSet
<1>7. Stage[node.n] >= p.stage \/ equivalent(p, node)
  BY <1>1, <1>3
<1> QED
  BY <1>5, <1>6, <1>7

\* A scan starts the pipeline and leaves the rest alone.
LEMMA ScanPlaced ==
    ASSUME NEW p, IsPipeline(p), NEW node, node.n = "scan", place(p, node).ok
    PROVE  LET r == place(p, node)
           IN  /\ IsPipeline(r) /\ p.stage = 0 /\ r.stage = 0 /\ r.filter = p.filter
               /\ r.aggregate = p.aggregate /\ r.renamed = p.renamed /\ r.rename = p.rename
<1>1. node.n \in NodeKinds
  BY DEF NodeKinds
<1>2. PICK q : /\ q = [p EXCEPT !.stage = StageAfter(p, node)]
                     /\ IsPipeline(q) /\ q.stage = StageAfter(p, node) /\ q.scan_columns = p.scan_columns
                     /\ q.filter = p.filter /\ q.aggregate = p.aggregate /\ q.renamed = p.renamed
                     /\ q.rename = p.rename /\ q.sort = p.sort
                     /\ q.limit = p.limit /\ q.offset = p.offset
  BY <1>1, PlacedStage
<1>3. Stage[node.n] >= p.stage \/ equivalent(p, node)
  BY <1>1, PlacedStage
<1>a. p.stage \in 0..5 /\ p.ok
  BY DEF IsPipeline
<1>b. ~equivalent(p, node)
  BY DEF equivalent
<1>c. Stage[node.n] = 0
  BY StagesAre
<1>d. p.stage = 0
  BY <1>3, <1>a, <1>b, <1>c
<1>e. StageAfter(p, node) = 0
  BY <1>c, <1>d DEF StageAfter
<1>5. p.stage = 0 /\ q.stage = 0
  BY <1>2, <1>d, <1>e
<1>6. [p EXCEPT !.stage = IF Stage[node.n] > @ THEN Stage[node.n] ELSE @] = q
  BY <1>2 DEF StageAfter
<1>7. place(p, node) = [q EXCEPT !.scan_columns = node.columns]
  BY <1>3, <1>6, <1>a DEF place
<1>8. place(p, node) = [ok |-> q.ok, stage |-> q.stage, scan_columns |-> node.columns, filter |-> q.filter,
            aggregate |-> q.aggregate, renamed |-> q.renamed, rename |-> q.rename,
            sort |-> q.sort, limit |-> q.limit, offset |-> q.offset]
  BY <1>2, <1>7, Zenon DEF IsPipeline
<1>9. q.ok /\ q.renamed \in BOOLEAN
  BY <1>2 DEF IsPipeline
<1>10. IsPipeline(place(p, node))
  BY <1>5, <1>8, <1>9 DEF IsPipeline
<1> QED
  BY <1>2, <1>5, <1>8, <1>10

\* A record with the fields of a pipeline is one.
LEMMA PipelineOf ==
    ASSUME NEW z, z = [ok |-> z.ok, stage |-> z.stage, scan_columns |-> z.scan_columns, filter |-> z.filter,
            aggregate |-> z.aggregate, renamed |-> z.renamed, rename |-> z.rename,
            sort |-> z.sort, limit |-> z.limit, offset |-> z.offset],
            z.ok, z.stage \in 0..5, z.renamed \in BOOLEAN
    PROVE  IsPipeline(z)
BY DEF IsPipeline

\* A pipeline is the record of its fields.
LEMMA PipelineIs ==
    ASSUME NEW q, IsPipeline(q)
    PROVE  /\ q = [ok |-> q.ok, stage |-> q.stage, scan_columns |-> q.scan_columns, filter |-> q.filter,
                   aggregate |-> q.aggregate, renamed |-> q.renamed, rename |-> q.rename,
                   sort |-> q.sort, limit |-> q.limit, offset |-> q.offset]
           /\ q.ok /\ q.stage \in 0..5 /\ q.renamed \in BOOLEAN
BY DEF IsPipeline

\* A pipeline with one field changed, written out.
LEMMA PipelineWith ==
    ASSUME NEW q, IsPipeline(q), NEW v
    PROVE  /\ [q EXCEPT !.filter = v] = [ok |-> q.ok, stage |-> q.stage, scan_columns |-> q.scan_columns, filter |-> v,
                  aggregate |-> q.aggregate, renamed |-> q.renamed, rename |-> q.rename,
                  sort |-> q.sort, limit |-> q.limit, offset |-> q.offset]
           /\ [q EXCEPT !.aggregate = v] = [ok |-> q.ok, stage |-> q.stage, scan_columns |-> q.scan_columns, filter |-> q.filter,
                  aggregate |-> v, renamed |-> q.renamed, rename |-> q.rename,
                  sort |-> q.sort, limit |-> q.limit, offset |-> q.offset]
           /\ [q EXCEPT !.renamed = v] = [ok |-> q.ok, stage |-> q.stage, scan_columns |-> q.scan_columns, filter |-> q.filter,
                  aggregate |-> q.aggregate, renamed |-> v, rename |-> q.rename,
                  sort |-> q.sort, limit |-> q.limit, offset |-> q.offset]
           /\ [q EXCEPT !.rename = v] = [ok |-> q.ok, stage |-> q.stage, scan_columns |-> q.scan_columns, filter |-> q.filter,
                  aggregate |-> q.aggregate, renamed |-> q.renamed, rename |-> v,
                  sort |-> q.sort, limit |-> q.limit, offset |-> q.offset]
           /\ [q EXCEPT !.sort = v] = [ok |-> q.ok, stage |-> q.stage, scan_columns |-> q.scan_columns, filter |-> q.filter,
                  aggregate |-> q.aggregate, renamed |-> q.renamed, rename |-> q.rename,
                  sort |-> v, limit |-> q.limit, offset |-> q.offset]
           /\ [q EXCEPT !.limit = v] = [ok |-> q.ok, stage |-> q.stage, scan_columns |-> q.scan_columns, filter |-> q.filter,
                  aggregate |-> q.aggregate, renamed |-> q.renamed, rename |-> q.rename,
                  sort |-> q.sort, limit |-> v, offset |-> q.offset]
           /\ [q EXCEPT !.offset = v] = [ok |-> q.ok, stage |-> q.stage, scan_columns |-> q.scan_columns, filter |-> q.filter,
                  aggregate |-> q.aggregate, renamed |-> q.renamed, rename |-> q.rename,
                  sort |-> q.sort, limit |-> q.limit, offset |-> v]
<1>0. q = [ok |-> q.ok, stage |-> q.stage, scan_columns |-> q.scan_columns, filter |-> q.filter,
            aggregate |-> q.aggregate, renamed |-> q.renamed, rename |-> q.rename,
            sort |-> q.sort, limit |-> q.limit, offset |-> q.offset]
  BY PipelineIs
<1>1. [q EXCEPT !.filter = v] = [ok |-> q.ok, stage |-> q.stage, scan_columns |-> q.scan_columns, filter |-> v,
         aggregate |-> q.aggregate, renamed |-> q.renamed, rename |-> q.rename,
         sort |-> q.sort, limit |-> q.limit, offset |-> q.offset]
  BY <1>0
<1>2. [q EXCEPT !.aggregate = v] = [ok |-> q.ok, stage |-> q.stage, scan_columns |-> q.scan_columns, filter |-> q.filter,
         aggregate |-> v, renamed |-> q.renamed, rename |-> q.rename,
         sort |-> q.sort, limit |-> q.limit, offset |-> q.offset]
  BY <1>0
<1>3. [q EXCEPT !.renamed = v] = [ok |-> q.ok, stage |-> q.stage, scan_columns |-> q.scan_columns, filter |-> q.filter,
         aggregate |-> q.aggregate, renamed |-> v, rename |-> q.rename,
         sort |-> q.sort, limit |-> q.limit, offset |-> q.offset]
  BY <1>0
<1>4. [q EXCEPT !.rename = v] = [ok |-> q.ok, stage |-> q.stage, scan_columns |-> q.scan_columns, filter |-> q.filter,
         aggregate |-> q.aggregate, renamed |-> q.renamed, rename |-> v,
         sort |-> q.sort, limit |-> q.limit, offset |-> q.offset]
  BY <1>0
<1>5. [q EXCEPT !.sort = v] = [ok |-> q.ok, stage |-> q.stage, scan_columns |-> q.scan_columns, filter |-> q.filter,
         aggregate |-> q.aggregate, renamed |-> q.renamed, rename |-> q.rename,
         sort |-> v, limit |-> q.limit, offset |-> q.offset]
  BY <1>0
<1>6. [q EXCEPT !.limit = v] = [ok |-> q.ok, stage |-> q.stage, scan_columns |-> q.scan_columns, filter |-> q.filter,
         aggregate |-> q.aggregate, renamed |-> q.renamed, rename |-> q.rename,
         sort |-> q.sort, limit |-> v, offset |-> q.offset]
  BY <1>0
<1>7. [q EXCEPT !.offset = v] = [ok |-> q.ok, stage |-> q.stage, scan_columns |-> q.scan_columns, filter |-> q.filter,
         aggregate |-> q.aggregate, renamed |-> q.renamed, rename |-> q.rename,
         sort |-> q.sort, limit |-> q.limit, offset |-> v]
  BY <1>0
<1> QED
  BY <1>1, <1>2, <1>3, <1>4, <1>5, <1>6, <1>7

\* A node that is placed, by its kind: from which stage, to which, and what
\* of the filter, the aggregation and the renaming it changes.
LEMMA FilterPlaced ==
    ASSUME NEW p, IsPipeline(p), NEW node, node.n = "filter", place(p, node).ok
    PROVE  LET r == place(p, node)
               x == IF p.renamed THEN rewrite_columns(node.predicate, Base(p)) ELSE node.predicate
           IN  /\ IsPipeline(r)
               /\ \/ p.stage \in 0..1 /\ r.stage = 1
                  \/ p.stage = 3 /\ p.aggregate = NoAggregate /\ r.stage = 3
               /\ r.filter = IF p.filter = NoFilter THEN x ELSE Binary("and", p.filter, x)
               /\ r.aggregate = p.aggregate /\ r.renamed = p.renamed /\ r.rename = p.rename
<1>1. node.n \in NodeKinds
  BY DEF NodeKinds
<1>2. PICK q : /\ q = [p EXCEPT !.stage = StageAfter(p, node)]
                     /\ IsPipeline(q) /\ q.stage = StageAfter(p, node) /\ q.scan_columns = p.scan_columns
                     /\ q.filter = p.filter /\ q.aggregate = p.aggregate /\ q.renamed = p.renamed
                     /\ q.rename = p.rename /\ q.sort = p.sort
                     /\ q.limit = p.limit /\ q.offset = p.offset
  BY <1>1, PlacedStage
<1>q. IsPipeline(q)
  BY <1>2
<1>3. Stage[node.n] >= p.stage \/ equivalent(p, node)
  BY <1>1, PlacedStage
<1>4. p.stage \in 0..5 /\ p.ok
  BY DEF IsPipeline
<1>5. Stage[node.n] = 1
  BY StagesAre
<1>6. equivalent(p, node) => p.stage = 3 /\ p.aggregate = NoAggregate
  BY StagesAre DEF equivalent
<1>7. \/ p.stage \in 0..1 /\ StageAfter(p, node) = 1
      \/ p.stage = 3 /\ p.aggregate = NoAggregate /\ StageAfter(p, node) = 3
  BY <1>3, <1>4, <1>5, <1>6 DEF StageAfter
<1>8. [p EXCEPT !.stage = IF Stage[node.n] > @ THEN Stage[node.n] ELSE @] = q
  BY <1>2 DEF StageAfter
<1>9. PICK x : x = IF p.renamed THEN rewrite_columns(node.predicate, Base(p)) ELSE node.predicate
  OBVIOUS
<1>10. PICK f : f = IF p.filter = NoFilter THEN x ELSE Binary("and", p.filter, x)
  OBVIOUS
<1>11. place(p, node) = [q EXCEPT !.filter = IF @ = NoFilter THEN x ELSE Binary("and", @, x)]
  BY <1>3, <1>4, <1>8, <1>9 DEF place, Base
<1>12. place(p, node) = [q EXCEPT !.filter = f]
  BY <1>2, <1>10, <1>11
<1>13. place(p, node) = [ok |-> q.ok, stage |-> q.stage, scan_columns |-> q.scan_columns, filter |-> f,
            aggregate |-> q.aggregate, renamed |-> q.renamed, rename |-> q.rename,
            sort |-> q.sort, limit |-> q.limit, offset |-> q.offset]
  BY <1>q, <1>12, PipelineWith, ZenonT(60)
<1>14. q.renamed \in BOOLEAN
  BY <1>2 DEF IsPipeline
<1>15. /\ IsPipeline(place(p, node)) /\ place(p, node).stage = q.stage /\ place(p, node).filter = f
       /\ place(p, node).aggregate = q.aggregate /\ place(p, node).renamed = q.renamed /\ place(p, node).rename = q.rename
  <2>1. PICK z : z = place(p, node)
    OBVIOUS
  <2>2. z = [ok |-> z.ok, stage |-> z.stage, scan_columns |-> z.scan_columns, filter |-> z.filter,
              aggregate |-> z.aggregate, renamed |-> z.renamed, rename |-> z.rename,
              sort |-> z.sort, limit |-> z.limit, offset |-> z.offset]
          /\ z.ok = q.ok /\ z.stage = q.stage
    BY <1>13, <2>1
  <2>3. z.renamed \in BOOLEAN
    BY <1>13, <1>2, <2>1, PipelineIs
  <2>4. IsPipeline(z)
    BY <1>2, <2>2, <2>3, PipelineIs, PipelineOf
  <2> QED
    BY <1>13, <2>1, <2>4
<1> QED
  BY <1>2, <1>7, <1>9, <1>10, <1>15

\* An aggregate is placed, and what was filtered stays filtered.
LEMMA AggregatePlaced ==
    ASSUME NEW p, IsPipeline(p), NEW node, node.n = "aggregate", place(p, node).ok
    PROVE  LET r == place(p, node)
           IN  /\ IsPipeline(r) /\ r.stage \in 2..5
               /\ r.filter = p.filter /\ r.aggregate = node /\ ~r.renamed /\ r.rename = <<>>
<1>1. node.n \in NodeKinds
  BY DEF NodeKinds
<1>2. PICK q : /\ q = [p EXCEPT !.stage = StageAfter(p, node)]
                     /\ IsPipeline(q) /\ q.stage = StageAfter(p, node) /\ q.scan_columns = p.scan_columns
                     /\ q.filter = p.filter /\ q.aggregate = p.aggregate /\ q.renamed = p.renamed
                     /\ q.rename = p.rename /\ q.sort = p.sort
                     /\ q.limit = p.limit /\ q.offset = p.offset
  BY <1>1, PlacedStage
<1>q. IsPipeline(q)
  BY <1>2
<1>3. Stage[node.n] >= p.stage \/ equivalent(p, node)
  BY <1>1, PlacedStage
<1>4. p.stage \in 0..5 /\ p.ok
  BY DEF IsPipeline
<1>5. Stage[node.n] = 2
  BY StagesAre
<1>6. StageAfter(p, node) \in 2..5
  BY <1>4, <1>5 DEF StageAfter
<1>8. [p EXCEPT !.stage = IF Stage[node.n] > @ THEN Stage[node.n] ELSE @] = q
  BY <1>2 DEF StageAfter
<1>10. place(p, node) = IF \/ p.aggregate /= NoAggregate
                           \/ p.renamed /\ \E i \in DOMAIN p.rename : p.rename[i][1] /= p.rename[i][2]
                        THEN Refused
                        ELSE [q EXCEPT !.aggregate = node, !.renamed = FALSE, !.rename = <<>>]
  BY <1>3, <1>4, <1>8 DEF place
<1>11. place(p, node) = [q EXCEPT !.aggregate = node, !.renamed = FALSE, !.rename = <<>>]
  BY <1>10 DEF Refused
<1>12. PICK u : u = [q EXCEPT !.aggregate = node]
  OBVIOUS
<1>13. u = [ok |-> q.ok, stage |-> q.stage, scan_columns |-> q.scan_columns, filter |-> q.filter,
            aggregate |-> node, renamed |-> q.renamed, rename |-> q.rename,
            sort |-> q.sort, limit |-> q.limit, offset |-> q.offset]
  BY <1>q, <1>12, PipelineWith, ZenonT(60)
<1>14. PICK v : v = [u EXCEPT !.renamed = FALSE]
  OBVIOUS
<1>15. v = [ok |-> q.ok, stage |-> q.stage, scan_columns |-> q.scan_columns, filter |-> q.filter,
            aggregate |-> node, renamed |-> FALSE, rename |-> q.rename,
            sort |-> q.sort, limit |-> q.limit, offset |-> q.offset]
  BY <1>13, <1>14
<1>a. PICK none : none = <<>>
  OBVIOUS
<1>16. place(p, node) = [v EXCEPT !.rename = none]
  BY <1>11, <1>12, <1>14, <1>a
<1>b. place(p, node) = [ok |-> q.ok, stage |-> q.stage, scan_columns |-> q.scan_columns, filter |-> q.filter,
            aggregate |-> node, renamed |-> FALSE, rename |-> none,
            sort |-> q.sort, limit |-> q.limit, offset |-> q.offset]
  <2>1. /\ v.ok = q.ok /\ v.stage = q.stage /\ v.scan_columns = q.scan_columns /\ v.filter = q.filter
        /\ v.aggregate = node /\ v.renamed = FALSE /\ v.sort = q.sort /\ v.limit = q.limit /\ v.offset = q.offset
    BY <1>15
  <2>2. v = [ok |-> v.ok, stage |-> v.stage, scan_columns |-> v.scan_columns, filter |-> v.filter,
            aggregate |-> v.aggregate, renamed |-> v.renamed, rename |-> v.rename,
            sort |-> v.sort, limit |-> v.limit, offset |-> v.offset]
    BY <1>15
  <2>3. v.ok /\ v.stage \in 0..5 /\ v.renamed \in BOOLEAN
    BY <1>q, <2>1, PipelineIs
  <2>4. IsPipeline(v)
    BY <2>2, <2>3, PipelineOf
  <2>5. ASSUME NEW e
        PROVE  [v EXCEPT !.rename = e] =
           [ok |-> v.ok, stage |-> v.stage, scan_columns |-> v.scan_columns, filter |-> v.filter,
            aggregate |-> v.aggregate, renamed |-> v.renamed, rename |-> e,
            sort |-> v.sort, limit |-> v.limit, offset |-> v.offset]
    BY <2>2
  <2>6. place(p, node) =
           [ok |-> v.ok, stage |-> v.stage, scan_columns |-> v.scan_columns, filter |-> v.filter,
            aggregate |-> v.aggregate, renamed |-> v.renamed, rename |-> none,
            sort |-> v.sort, limit |-> v.limit, offset |-> v.offset]
    BY <1>16, <2>5
  <2> QED
    BY <2>1, <2>6
<1>17. place(p, node) = [ok |-> q.ok, stage |-> q.stage, scan_columns |-> q.scan_columns, filter |-> q.filter,
            aggregate |-> node, renamed |-> FALSE, rename |-> <<>>,
            sort |-> q.sort, limit |-> q.limit, offset |-> q.offset]
  BY <1>a, <1>b
<1>18. /\ IsPipeline(place(p, node)) /\ place(p, node).stage = q.stage /\ place(p, node).filter = q.filter
       /\ place(p, node).aggregate = node /\ ~place(p, node).renamed /\ place(p, node).rename = <<>>
  <2>1. PICK z : z = place(p, node)
    OBVIOUS
  <2>2. z = [ok |-> z.ok, stage |-> z.stage, scan_columns |-> z.scan_columns, filter |-> z.filter,
              aggregate |-> z.aggregate, renamed |-> z.renamed, rename |-> z.rename,
              sort |-> z.sort, limit |-> z.limit, offset |-> z.offset]
          /\ z.ok = q.ok /\ z.stage = q.stage
    BY <1>17, <2>1
  <2>3. z.renamed \in BOOLEAN
    BY <1>17, <1>2, <2>1, PipelineIs
  <2>4. IsPipeline(z)
    BY <1>2, <2>2, <2>3, PipelineIs, PipelineOf
  <2> QED
    BY <1>17, <2>1, <2>4
<1> QED
  BY <1>2, <1>6, <1>18

\* What a projection is renamed to.
Renaming(p, node) ==
    [i \in DOMAIN node.exprs |->
        LET source == node.exprs[i][1].name
        IN  <<IF source \in DOMAIN Base(p) THEN Base(p)[source] ELSE source, node.exprs[i][2]>>]

\* A projection is placed as a renaming, after the filter and the aggregate.
LEMMA ProjectPlaced ==
    ASSUME NEW p, IsPipeline(p), NEW node, node.n = "project", place(p, node).ok
    PROVE  LET r == place(p, node)
           IN  /\ IsPipeline(r) /\ r.stage = 3
               /\ r.filter = p.filter /\ r.aggregate = p.aggregate
               /\ r.renamed = TRUE /\ r.rename = Renaming(p, node)
<1>1. node.n \in NodeKinds
  BY DEF NodeKinds
<1>2. PICK q : /\ q = [p EXCEPT !.stage = StageAfter(p, node)]
                     /\ IsPipeline(q) /\ q.stage = StageAfter(p, node) /\ q.scan_columns = p.scan_columns
                     /\ q.filter = p.filter /\ q.aggregate = p.aggregate /\ q.renamed = p.renamed
                     /\ q.rename = p.rename /\ q.sort = p.sort
                     /\ q.limit = p.limit /\ q.offset = p.offset
  BY <1>1, PlacedStage
<1>q. IsPipeline(q)
  BY <1>2
<1>3. Stage[node.n] >= p.stage \/ equivalent(p, node)
  BY <1>1, PlacedStage
<1>4. p.stage \in 0..5 /\ p.ok
  BY DEF IsPipeline
<1>5. Stage[node.n] = 3
  BY StagesAre
<1>b. ~equivalent(p, node)
  BY DEF equivalent
<1>6. StageAfter(p, node) = 3
  BY <1>3, <1>4, <1>5, <1>b DEF StageAfter
<1>8. [p EXCEPT !.stage = IF Stage[node.n] > @ THEN Stage[node.n] ELSE @] = q
  BY <1>2 DEF StageAfter
<1>9. PICK names : names = Renaming(p, node)
  OBVIOUS
<1>11. place(p, node) = [q EXCEPT !.renamed = TRUE, !.rename = names]
  BY <1>3, <1>4, <1>8, <1>9 DEF place, Base, Renaming
<1>14. PICK v : v = [q EXCEPT !.renamed = TRUE]
  OBVIOUS
<1>15. v = [ok |-> q.ok, stage |-> q.stage, scan_columns |-> q.scan_columns, filter |-> q.filter,
            aggregate |-> q.aggregate, renamed |-> TRUE, rename |-> q.rename,
            sort |-> q.sort, limit |-> q.limit, offset |-> q.offset]
  BY <1>q, <1>14, PipelineWith
<1>16. place(p, node) = [v EXCEPT !.rename = names]
  BY <1>11, <1>14
<1>17. place(p, node) = [ok |-> q.ok, stage |-> q.stage, scan_columns |-> q.scan_columns, filter |-> q.filter,
            aggregate |-> q.aggregate, renamed |-> TRUE, rename |-> names,
            sort |-> q.sort, limit |-> q.limit, offset |-> q.offset]
  BY <1>15, <1>16
<1>18. /\ IsPipeline(place(p, node)) /\ place(p, node).stage = q.stage /\ place(p, node).filter = q.filter
       /\ place(p, node).aggregate = q.aggregate /\ place(p, node).renamed = TRUE /\ place(p, node).rename = names
  <2>1. PICK z : z = place(p, node)
    OBVIOUS
  <2>2. z = [ok |-> z.ok, stage |-> z.stage, scan_columns |-> z.scan_columns, filter |-> z.filter,
              aggregate |-> z.aggregate, renamed |-> z.renamed, rename |-> z.rename,
              sort |-> z.sort, limit |-> z.limit, offset |-> z.offset]
          /\ z.ok = q.ok /\ z.stage = q.stage
    BY <1>17, <2>1
  <2>3. z.renamed \in BOOLEAN
    BY <1>17, <1>2, <2>1, PipelineIs
  <2>4. IsPipeline(z)
    BY <1>2, <2>2, <2>3, PipelineIs, PipelineOf
  <2> QED
    BY <1>17, <2>1, <2>4
<1> QED
  BY <1>2, <1>6, <1>9, <1>18

\* A sort or a limit leaves the filter and the renaming alone.
LEMMA OrderPlaced ==
    ASSUME NEW p, IsPipeline(p), NEW node, node.n \in {"sort", "limit"}, place(p, node).ok
    PROVE  LET r == place(p, node)
           IN  /\ IsPipeline(r) /\ r.stage \in 4..5
               /\ r.filter = p.filter /\ r.aggregate = p.aggregate
               /\ r.renamed = p.renamed /\ r.rename = p.rename
<1>1. node.n \in NodeKinds
  BY DEF NodeKinds
<1>2. PICK q : /\ q = [p EXCEPT !.stage = StageAfter(p, node)]
                     /\ IsPipeline(q) /\ q.stage = StageAfter(p, node) /\ q.scan_columns = p.scan_columns
                     /\ q.filter = p.filter /\ q.aggregate = p.aggregate /\ q.renamed = p.renamed
                     /\ q.rename = p.rename /\ q.sort = p.sort
                     /\ q.limit = p.limit /\ q.offset = p.offset
  BY <1>1, PlacedStage
<1>q. IsPipeline(q)
  BY <1>2
<1>3. Stage[node.n] >= p.stage \/ equivalent(p, node)
  BY <1>1, PlacedStage
<1>4. p.stage \in 0..5 /\ p.ok
  BY DEF IsPipeline
<1>5. Stage[node.n] \in 4..5
  BY StagesAre
<1>6. StageAfter(p, node) \in 4..5
  BY <1>4, <1>5 DEF StageAfter
<1>8. [p EXCEPT !.stage = IF Stage[node.n] > @ THEN Stage[node.n] ELSE @] = q
  BY <1>2 DEF StageAfter
<1>9. q.renamed \in BOOLEAN
  BY <1>2 DEF IsPipeline
<1>10. CASE node.n = "sort"
  <2>1. place(p, node) = IF p.sort /= <<>> THEN Refused ELSE [q EXCEPT !.sort = node.keys]
    BY <1>3, <1>4, <1>8, <1>10 DEF place
  <2>2. place(p, node) = [q EXCEPT !.sort = node.keys]
    BY <2>1 DEF Refused
  <2>3. place(p, node) = [ok |-> q.ok, stage |-> q.stage, scan_columns |-> q.scan_columns, filter |-> q.filter,
            aggregate |-> q.aggregate, renamed |-> q.renamed, rename |-> q.rename,
            sort |-> node.keys, limit |-> q.limit, offset |-> q.offset]
    BY <1>q, <2>2, PipelineWith, ZenonT(60)
  <2>4. /\ IsPipeline(place(p, node)) /\ place(p, node).stage = q.stage /\ place(p, node).filter = q.filter
        /\ place(p, node).aggregate = q.aggregate /\ place(p, node).renamed = q.renamed /\ place(p, node).rename = q.rename
    <3>1. PICK z : z = place(p, node)
      OBVIOUS
    <3>2. z = [ok |-> z.ok, stage |-> z.stage, scan_columns |-> z.scan_columns, filter |-> z.filter,
                aggregate |-> z.aggregate, renamed |-> z.renamed, rename |-> z.rename,
                sort |-> z.sort, limit |-> z.limit, offset |-> z.offset]
            /\ z.ok = q.ok /\ z.stage = q.stage
      BY <2>3, <3>1
    <3>3. z.renamed \in BOOLEAN
      BY <2>3, <1>2, <3>1, PipelineIs
    <3>4. IsPipeline(z)
      BY <1>2, <3>2, <3>3, PipelineIs, PipelineOf
    <3> QED
      BY <2>3, <3>1, <3>4
  <2> QED
    BY <1>2, <1>6, <2>4
<1>11. CASE node.n = "limit"
  <2>1. place(p, node) = [q EXCEPT !.limit = IF @ = None THEN node.limit ELSE min(@, node.limit),
                                   !.offset = @ + node.offset]
    BY <1>3, <1>4, <1>8, <1>11 DEF place
  <2>2. PICK l : l = IF q.limit = None THEN node.limit ELSE min(q.limit, node.limit)
    OBVIOUS
  <2>3. PICK o : o = q.offset + node.offset
    OBVIOUS
  <2>4. PICK v : v = [q EXCEPT !.limit = l]
    OBVIOUS
  <2>5. v = [ok |-> q.ok, stage |-> q.stage, scan_columns |-> q.scan_columns, filter |-> q.filter,
            aggregate |-> q.aggregate, renamed |-> q.renamed, rename |-> q.rename,
            sort |-> q.sort, limit |-> l, offset |-> q.offset]
    BY <1>q, <2>4, PipelineWith, ZenonT(60)
  <2>6. place(p, node) = [v EXCEPT !.offset = o]
    BY <2>1, <2>2, <2>3, <2>4, <2>5
  <2>7. place(p, node) = [ok |-> q.ok, stage |-> q.stage, scan_columns |-> q.scan_columns, filter |-> q.filter,
            aggregate |-> q.aggregate, renamed |-> q.renamed, rename |-> q.rename,
            sort |-> q.sort, limit |-> l, offset |-> o]
    BY <2>5, <2>6
  <2>8. /\ IsPipeline(place(p, node)) /\ place(p, node).stage = q.stage /\ place(p, node).filter = q.filter
        /\ place(p, node).aggregate = q.aggregate /\ place(p, node).renamed = q.renamed /\ place(p, node).rename = q.rename
    <3>1. PICK z : z = place(p, node)
      OBVIOUS
    <3>2. z = [ok |-> z.ok, stage |-> z.stage, scan_columns |-> z.scan_columns, filter |-> z.filter,
                aggregate |-> z.aggregate, renamed |-> z.renamed, rename |-> z.rename,
                sort |-> z.sort, limit |-> z.limit, offset |-> z.offset]
            /\ z.ok = q.ok /\ z.stage = q.stage
      BY <2>7, <3>1
    <3>3. z.renamed \in BOOLEAN
      BY <2>7, <1>2, <3>1, PipelineIs
    <3>4. IsPipeline(z)
      BY <1>2, <3>2, <3>3, PipelineIs, PipelineOf
    <3> QED
      BY <2>7, <3>1, <3>4
  <2> QED
    BY <1>2, <1>6, <2>8
<1> QED
  BY <1>10, <1>11

-----------------------------------------------------------------------------
(* What the validator says of a node over the schema of those below it.    *)

\* A sequence with as many members as places has no member twice.
LEMMA DistinctIsInjective ==
    ASSUME NEW s, IsSequence(s), Distinct(s)
    PROVE  \A i, j \in DOMAIN s : s[i] = s[j] => i = j
<1>1. Len(s) \in Nat /\ DOMAIN s = 1..Len(s) /\ s \in [1..Len(s) -> ToSet(s)]
  BY SequenceIs
<1>2. \A e \in ToSet(s) : \E i \in 1..Len(s) : s[i] = e
  BY <1>1 DEF ToSet
<1>3. s \in Surjection(1..Len(s), ToSet(s))
  BY <1>1, <1>2 DEF Surjection
<1>4. IsFiniteSet(1..Len(s)) /\ Cardinality(1..Len(s)) = Len(s)
  <2>1. 1 \in Int /\ Len(s) \in Int
    BY <1>1
  <2>2. IsFiniteSet(1..Len(s)) /\ Cardinality(1..Len(s)) = IF 1 > Len(s) THEN 0 ELSE Len(s) - 1 + 1
    BY <2>1, FS_Interval, Zenon
  <2> QED
    BY <1>1, <2>2
<1>5. Cardinality(ToSet(s)) = Cardinality(1..Len(s))
  BY <1>4 DEF Distinct
<1>6. s \in Injection(1..Len(s), ToSet(s))
  BY <1>3, <1>4, <1>5, FS_SurjSameCardinalityImpliesInj
<1>7. IsInjective(s)
  BY <1>6 DEF Injection
<1> QED
  BY <1>7 DEF IsInjective

\* Every column of the schema is the column of the table of that name.
Inherits(schema) ==
    \A c \in Names(schema) : c \in Names(Table) /\ Column(Table, c).type = Column(schema, c).type

\* Such a schema is typed, and what fits it fits the table.
LEMMA InheritedTypes ==
    ASSUME NEW schema, Inherits(schema)
    PROVE  SchemaTyped(schema) /\ \A x : Fits(x, schema) => Fits(x, Table)
<1>1. SchemaTyped(schema)
  BY TableTypes DEF SchemaTyped, Inherits
<1>2. ASSUME NEW x, NEW v, SuitsColumn(x, v, schema) PROVE SuitsColumn(x, v, Table)
  BY <1>2 DEF SuitsColumn, Inherits
<1>3. ASSUME NEW y, Fit(y, schema) PROVE Fit(y, Table)
  BY <1>2, <1>3 DEF Fit, Inherits
<1> QED
  BY <1>1, <1>3 DEF Fits

\* The validator's scan has columns of the table.
LEMMA ScanWalked ==
    ASSUME NEW node, node.n = "scan", NEW schema, NEW m, walk(node, schema, Table, m).ok
    PROVE  LET w == walk(node, schema, Table, m) IN w.node.n = "scan" /\ Inherits(w.schema)
<1>1. PICK names : names = IF node.columns = All THEN default_projection(Table) ELSE node.columns
  OBVIOUS
<1>2. walk(node, schema, Table, m) = IF ToSet(names) \subseteq Names(Table) /\ Distinct(names)
                                     THEN Accepted(Scan(names), Shape(Table, names)) ELSE Refused
  BY <1>1 DEF walk, WalkScan
<1>3. /\ ToSet(names) \subseteq Names(Table)
      /\ walk(node, schema, Table, m) = Accepted(Scan(names), Shape(Table, names))
  BY <1>2 DEF Refused
<1>4. PICK shape : shape = Shape(Table, names)
  OBVIOUS
<1>5. DOMAIN shape = DOMAIN names
      /\ \A i \in DOMAIN names : shape[i].name = names[i] /\ shape[i].type = Column(Table, names[i]).type
  BY <1>4 DEF Shape
<1>6. Inherits(shape)
  <2> SUFFICES ASSUME NEW c \in Names(shape)
               PROVE  c \in Names(Table) /\ Column(Table, c).type = Column(shape, c).type
    BY DEF Inherits
  <2>1. Column(shape, c) \in ToSet(shape) /\ Column(shape, c).name = c
    BY ColumnIs
  <2>2. PICK i \in DOMAIN shape : Column(shape, c) = shape[i]
    BY <2>1 DEF ToSet
  <2>3. names[i] = c /\ names[i] \in ToSet(names)
    BY <1>5, <2>1, <2>2 DEF ToSet
  <2> QED
    BY <1>3, <1>5, <2>2, <2>3
<1> QED
  BY <1>3, <1>4, <1>6 DEF Accepted, Scan

\* The filter it lets through fits the schema.
LEMMA FilterWalked ==
    ASSUME NEW node, node.n = "filter", IsNode(node), NEW schema, SchemaTyped(schema),
           NEW m, walk(node, schema, Table, m).ok
    PROVE  LET w == walk(node, schema, Table, m)
           IN  w.node.n = "filter" /\ w.schema = schema /\ Fits(w.node.predicate, schema)
<1>1. IsPredicate(node.predicate)
  BY DEF IsNode
<1>2. PICK c : c = check_expr(node.predicate, schema)
  OBVIOUS
<1>3. Good(c, schema)
  BY <1>1, <1>2, CheckFits
<1>4. walk(node, schema, Table, m) = IF c.ok /\ c.type \in BoolLike THEN Accepted(Filter(c.expr), schema) ELSE Refused
  BY <1>2 DEF walk, WalkFilter, Filtering
<1>5. c.ok /\ walk(node, schema, Table, m) = Accepted(Filter(c.expr), schema)
  BY <1>4 DEF Refused
<1>6. Fits(c.expr, schema)
  BY <1>3, <1>5 DEF Good
<1> QED
  BY <1>5, <1>6 DEF Accepted, Filter

\* Whatever the filter is over, it stays a filter.
LEMMA FilterStays ==
    ASSUME NEW node, node.n = "filter", NEW schema, NEW m, walk(node, schema, Table, m).ok
    PROVE  LET w == walk(node, schema, Table, m) IN w.node.n = "filter" /\ w.schema = schema
<1>2. PICK c : c = check_expr(node.predicate, schema)
  OBVIOUS
<1>4. walk(node, schema, Table, m) = IF c.ok /\ c.type \in BoolLike THEN Accepted(Filter(c.expr), schema) ELSE Refused
  BY <1>2 DEF walk, WalkFilter, Filtering
<1>5. walk(node, schema, Table, m) = Accepted(Filter(c.expr), schema)
  BY <1>4 DEF Refused
<1> QED
  BY <1>5 DEF Accepted, Filter

\* A projection names columns of the schema, under aliases of their own.
IsProjection(exprs, schema, out) ==
    /\ IsSequence(exprs) /\ DOMAIN out = DOMAIN exprs
    /\ \A i \in DOMAIN exprs : /\ exprs[i][1].name \in Names(schema)
                               /\ out[i].name = exprs[i][2]
                               /\ out[i].type = Column(schema, exprs[i][1].name).type
    /\ \A i, j \in DOMAIN exprs : exprs[i][2] = exprs[j][2] => i = j

\* A projection that is accepted is one of columns of its schema.
LEMMA ProjectWalked ==
    ASSUME NEW node, node.n = "project", IsNode(node), NEW schema, NEW m, walk(node, schema, Table, m).ok
    PROVE  LET w == walk(node, schema, Table, m) IN w.node = node /\ IsProjection(node.exprs, schema, w.schema)
<1>1. IsSequence(node.exprs)
  BY DEF IsNode
<1>2. PICK exprs : exprs = node.exprs
  OBVIOUS
<1>3. PICK sources : sources = [i \in DOMAIN exprs |-> exprs[i][1]]
  OBVIOUS
<1>4. PICK aliases : aliases = [i \in DOMAIN exprs |-> exprs[i][2]]
  OBVIOUS
<1>5. PICK out : out = [i \in DOMAIN aliases |-> [name |-> aliases[i], type |-> Column(schema, sources[i].name).type]]
  OBVIOUS
<1>6. walk(node, schema, Table, m) =
        IF /\ exprs /= <<>> /\ Distinct(aliases)
           /\ \A i \in DOMAIN sources : sources[i].e = "column" /\ sources[i].name \in Names(schema)
        THEN Accepted(node, out) ELSE Refused
  BY <1>2, <1>3, <1>4, <1>5 DEF walk, WalkProject
<1>7. /\ Distinct(aliases) /\ \A i \in DOMAIN sources : sources[i].name \in Names(schema)
      /\ walk(node, schema, Table, m) = Accepted(node, out)
  BY <1>6 DEF Refused
<1>8. Len(exprs) \in Nat /\ DOMAIN exprs = 1..Len(exprs)
  BY <1>1, <1>2, SequenceIs
<1>9. IsSequence(aliases) /\ DOMAIN aliases = DOMAIN exprs
  <2>1. aliases = [i \in 1..Len(exprs) |-> aliases[i]]
    BY <1>4, <1>8
  <2> QED
    BY <1>8, <2>1, MakesSequence
<1>10. \A i, j \in DOMAIN aliases : aliases[i] = aliases[j] => i = j
  BY <1>7, <1>9, DistinctIsInjective
<1>11. IsProjection(exprs, schema, out)
  <2>1. DOMAIN out = DOMAIN exprs
    BY <1>5, <1>9
  <2>2. ASSUME NEW i \in DOMAIN exprs
        PROVE  /\ exprs[i][1].name \in Names(schema)
               /\ out[i].name = exprs[i][2]
               /\ out[i].type = Column(schema, exprs[i][1].name).type
    BY <1>3, <1>4, <1>5, <1>7, <1>9, <2>2
  <2>3. \A i, j \in DOMAIN exprs : exprs[i][2] = exprs[j][2] => i = j
    BY <1>4, <1>9, <1>10
  <2> QED
    BY <1>1, <1>2, <2>1, <2>2, <2>3 DEF IsProjection
<1> QED
  BY <1>2, <1>7, <1>11 DEF Accepted

\* An aggregation stays one, a sort and a limit keep the schema.
LEMMA OthersWalked ==
    ASSUME NEW node, IsNode(node), NEW schema, NEW m, walk(node, schema, Table, m).ok
    PROVE  LET w == walk(node, schema, Table, m)
           IN  /\ node.n \in NodeKinds
               /\ node.n = "aggregate" => w.node.n = "aggregate"
               /\ node.n \in {"sort", "limit"} => w.node.n = node.n /\ w.schema = schema
<1>1. node.n \in NodeKinds
  BY DEF walk, Refused, NodeKinds
<1>2. ASSUME node.n = "aggregate" PROVE walk(node, schema, Table, m).node.n = "aggregate"
  <2>1. PICK aggs : aggs = [i \in DOMAIN node.aggregates |->
            LET a == node.aggregates[i]
            IN  IF a.alias = "" THEN [a EXCEPT !.alias = default_alias(a.func, a.column)] ELSE a]
    BY Zenon
  <2>2. PICK node2 : node2 = [node EXCEPT !.aggregates = aggs]
    OBVIOUS
  <2>3. node = Aggregate(node.group_by, node.aggregates)
    BY <1>2 DEF IsNode
  <2>4. node2.n = "aggregate"
    BY <2>2, <2>3 DEF Aggregate
  <2>5. \E ok \in BOOLEAN : \E out : walk(node, schema, Table, m) = IF ok THEN Accepted(node2, out) ELSE Refused
    BY <1>2, <2>1, <2>2, Zenon DEF walk, WalkAggregate
  <2>6. \E out : walk(node, schema, Table, m) = Accepted(node2, out)
    BY <2>5 DEF Refused
  <2> QED
    BY <2>4, <2>6 DEF Accepted
<1>3. ASSUME node.n = "sort" PROVE walk(node, schema, Table, m).node.n = "sort" /\ walk(node, schema, Table, m).schema = schema
  <2>1. walk(node, schema, Table, m) \in {Accepted(node, schema), Refused}
    BY <1>3 DEF walk, WalkSort
  <2> QED
    BY <1>3, <2>1 DEF Accepted, Refused
<1>4. ASSUME node.n = "limit" PROVE walk(node, schema, Table, m).node.n = "limit" /\ walk(node, schema, Table, m).schema = schema
  <2>0. PICK l : l = IF node.limit > m THEN m ELSE node.limit
    OBVIOUS
  <2>1. walk(node, schema, Table, m) = Accepted([node EXCEPT !.limit = l], schema)
    BY <1>4, <2>0 DEF walk
  <2>2. node = Limit(node.limit, node.offset)
    BY <1>4 DEF IsNode
  <2>3. [node EXCEPT !.limit = l].n = "limit"
    BY <2>2 DEF Limit
  <2>4. PICK node2 : node2 = [node EXCEPT !.limit = l]
    OBVIOUS
  <2>5. walk(node, schema, Table, m) = Accepted(node2, schema) /\ node2.n = "limit"
    BY <2>1, <2>3, <2>4
  <2> QED
    BY <2>5 DEF Accepted
<1> QED
  BY <1>1, <1>2, <1>3, <1>4

-----------------------------------------------------------------------------
(* The pipeline of the nodes placed so far agrees with the schema of them. *)

\* The source of an alias is the one it was given, when no alias is given twice.
LEMMA SourceIs ==
    ASSUME NEW rename, NEW n \in Nat, DOMAIN rename = 1..n,
           \A i, j \in 1..n : rename[i][2] = rename[j][2] => i = j,
           NEW i \in 1..n
    PROVE  SourceOf(rename, rename[i][2]) = rename[i][1]
<1> DEFINE Leads(k) == rename[k][2] = rename[i][2] /\ \A j \in 1..(k - 1) : rename[j][2] /= rename[i][2]
<1>1. Leads(i)
  <2> SUFFICES ASSUME NEW j \in 1..(i - 1) PROVE rename[j][2] # rename[i][2]
    OBVIOUS
  <2>1. j \in 1..n /\ j # i
    OBVIOUS
  <2> QED
    BY <2>1
<1>2. \A k \in 1..n : Leads(k) => k = i
  OBVIOUS
<1>3. (CHOOSE k \in DOMAIN rename : Leads(k)) = i
  <2> HIDE DEF Leads
  <2> QED
    BY <1>1, <1>2
<1>4. SourceOf(rename, rename[i][2]) = rename[CHOOSE k \in DOMAIN rename : Leads(k)][1]
  BY DEF SourceOf
<1> QED
  BY <1>3, <1>4

\* The filter is over columns of the table; as long as nothing was
\* aggregated, a column of the schema is of the table, itself or by its alias.
Agrees(p, schema) ==
    /\ IsPipeline(p)
    /\ p.aggregate # NoAggregate => p.stage >= 2
    /\ p.renamed => p.stage >= 3
    /\ ~p.renamed => p.rename = <<>>
    /\ p.filter # NoFilter => Fits(p.filter, Table)
    /\ p.aggregate = NoAggregate /\ ~p.renamed => Inherits(schema)
    /\ p.aggregate = NoAggregate /\ p.renamed =>
          Names(schema) \subseteq Aliases(p.rename) /\ Translates(Base(p), schema)

\* What the schema of a projection is renamed from.
LEMMA RenamingTranslates ==
    ASSUME NEW p, NEW schema, Agrees(p, schema), p.aggregate = NoAggregate,
           NEW node, NEW out, IsProjection(node.exprs, schema, out),
           NEW r, r.rename = Renaming(p, node)
    PROVE  Names(out) \subseteq Aliases(r.rename) /\ Translates(Base(r), out)
<1>1. PICK exprs : exprs = node.exprs
  OBVIOUS
<1>2. Len(exprs) \in Nat /\ DOMAIN exprs = 1..Len(exprs)
  BY <1>1, SequenceIs DEF IsProjection
<1>3. PICK n \in Nat : n = Len(exprs)
  BY <1>2, Zenon
<1>4. PICK names : names = r.rename
  OBVIOUS
<1>5. ASSUME NEW i \in 1..n
      PROVE  /\ names[i][2] = exprs[i][2] /\ names[i][1] \in Names(Table)
             /\ Column(Table, names[i][1]).type = out[i].type
             /\ out[i].name = exprs[i][2]
  <2>1. PICK source : source = exprs[i][1].name
    OBVIOUS
  <2>2. source \in Names(schema) /\ out[i].name = exprs[i][2] /\ out[i].type = Column(schema, source).type
    BY <1>1, <1>2, <1>3, <2>1 DEF IsProjection
  <2>3. PICK old : old = IF source \in DOMAIN Base(p) THEN Base(p)[source] ELSE source
    OBVIOUS
  <2>4. names[i] = <<old, exprs[i][2]>>
    BY <1>1, <1>2, <1>3, <1>4, <2>1, <2>3 DEF Renaming
  <2>5. DOMAIN Base(p) = Aliases(p.rename)
    BY DEF Base
  <2>6. old \in Names(Table) /\ Column(Table, old).type = Column(schema, source).type
    <3>1. CASE p.renamed
      <4>1. source \in Aliases(p.rename) /\ Translates(Base(p), schema)
        BY <2>2, <3>1 DEF Agrees
      <4> QED
        BY <2>2, <2>3, <2>5, <4>1 DEF Translates
    <3>2. CASE ~p.renamed
      <4>1. p.rename = <<>> /\ Inherits(schema)
        BY <3>2 DEF Agrees
      <4>2. Aliases(p.rename) = {}
        BY <4>1 DEF Aliases
      <4> QED
        BY <2>2, <2>3, <2>5, <4>1, <4>2 DEF Inherits
    <3> QED
      BY <3>1, <3>2
  <2> QED
    BY <2>2, <2>4, <2>6
<1>6. DOMAIN names = 1..n
  BY <1>1, <1>2, <1>3, <1>4 DEF Renaming
<1>7. \A i, j \in 1..n : names[i][2] = names[j][2] => i = j
  BY <1>1, <1>2, <1>3, <1>5, SMTT(30) DEF IsProjection
<1>8. DOMAIN out = 1..n
  BY <1>1, <1>2, <1>3 DEF IsProjection
<1>9. ASSUME NEW c \in Names(out)
      PROVE  /\ c \in Aliases(names) /\ SourceOf(names, c) \in Names(Table)
             /\ Column(Table, SourceOf(names, c)).type = Column(out, c).type
  <2>1. Column(out, c) \in ToSet(out) /\ Column(out, c).name = c
    BY ColumnIs
  <2>2. PICK i \in 1..n : Column(out, c) = out[i]
    BY <1>8, <2>1 DEF ToSet
  <2>3. names[i][2] = c
    BY <1>5, <2>1, <2>2
  <2>4. SourceOf(names, c) = names[i][1]
    BY <1>6, <1>7, <2>3, SourceIs
  <2> QED
    BY <1>5, <1>6, <2>2, <2>3, <2>4 DEF Aliases
<1>10. Base(r) = [a \in Aliases(names) |-> SourceOf(names, a)]
  BY <1>4 DEF Base
<1> QED
  BY <1>4, <1>9, <1>10 DEF Translates

\* The next node that is walked and placed.
LEMMA PlacedAgrees ==
    ASSUME NEW p, NEW schema, Agrees(p, schema), NEW node, IsNode(node),
           NEW m, NEW w, w = walk(node, schema, Table, m), w.ok,
           NEW r, r = place(p, w.node), r.ok
    PROVE  Agrees(r, w.schema)
<1>0. node.n \in NodeKinds /\ IsPipeline(p)
  BY OthersWalked DEF Agrees
<1>s. p.stage \in 0..5
  BY <1>0, PipelineIs
<1>1. CASE node.n = "scan"
  <2>1. w.node.n = "scan" /\ Inherits(w.schema)
    BY <1>1, ScanWalked
  <2>2. /\ IsPipeline(r) /\ p.stage = 0 /\ r.stage = 0 /\ r.filter = p.filter
        /\ r.aggregate = p.aggregate /\ r.renamed = p.renamed /\ r.rename = p.rename
    BY <1>0, <2>1, ScanPlaced
  <2> QED
    BY <2>1, <2>2 DEF Agrees
<1>2. CASE node.n = "filter"
  <2>1. w.node.n = "filter" /\ w.schema = schema
    BY <1>2, FilterStays
  <2>2. PICK x : x = IF p.renamed THEN rewrite_columns(w.node.predicate, Base(p)) ELSE w.node.predicate
    OBVIOUS
  <2>3. /\ IsPipeline(r)
        /\ \/ p.stage \in 0..1 /\ r.stage = 1
           \/ p.stage = 3 /\ p.aggregate = NoAggregate /\ r.stage = 3
        /\ r.filter = IF p.filter = NoFilter THEN x ELSE Binary("and", p.filter, x)
        /\ r.aggregate = p.aggregate /\ r.renamed = p.renamed /\ r.rename = p.rename
    BY <1>0, <2>1, <2>2, FilterPlaced
  <2>4. p.aggregate = NoAggregate /\ (p.renamed => r.stage = 3)
    BY <1>s, <2>3 DEF Agrees
  <2>5. Fits(x, Table)
    <3>1. CASE p.renamed
      <4>1. Translates(Base(p), schema)
        BY <2>4, <3>1 DEF Agrees
      <4>2. SchemaTyped(schema)
        BY <4>1, TableTypes DEF SchemaTyped, Translates
      <4>3. Fits(w.node.predicate, schema)
        BY <1>2, <4>2, FilterWalked
      <4>4. x = rewrite_columns(w.node.predicate, Base(p))
        BY <2>2, <3>1
      <4> QED
        BY <4>1, <4>3, <4>4, RewriteFits
    <3>2. CASE ~p.renamed
      <4>1. Inherits(schema)
        BY <2>4, <3>2 DEF Agrees
      <4>2. Fits(w.node.predicate, schema)
        BY <1>2, <4>1, FilterWalked, InheritedTypes
      <4> QED
        BY <2>2, <3>2, <4>1, <4>2, InheritedTypes
    <3> QED
      BY <3>1, <3>2
  <2>6. Fits(r.filter, Table)
    <3>1. CASE p.filter = NoFilter
      BY <2>3, <2>5, <3>1
    <3>2. CASE p.filter # NoFilter
      <4>1. Fits(p.filter, Table)
        BY <3>2 DEF Agrees
      <4>2. "and" \notin comparison
        BY DEF comparison
      <4>3. Fits(Binary("and", p.filter, x), Table)
        BY <2>5, <4>1, <4>2, BinaryFits
      <4> QED
        BY <2>3, <3>2, <4>3
    <3> QED
      BY <3>1, <3>2
  <2>7. Base(r) = Base(p)
    BY <2>3 DEF Base
  <2> QED
    BY <2>1, <2>3, <2>4, <2>6, <2>7 DEF Agrees
<1>3. CASE node.n = "project"
  <2>1. w.node = node /\ IsProjection(node.exprs, schema, w.schema)
    BY <1>3, ProjectWalked
  <2>a. place(p, node) = r
    BY <2>1
  <2>2. /\ IsPipeline(r) /\ r.stage = 3
        /\ r.filter = p.filter /\ r.aggregate = p.aggregate
        /\ r.renamed = TRUE /\ r.rename = Renaming(p, node)
    <3>1. place(p, node).ok
      BY <2>a
    <3>2. /\ IsPipeline(place(p, node)) /\ place(p, node).stage = 3
          /\ place(p, node).filter = p.filter /\ place(p, node).aggregate = p.aggregate
          /\ place(p, node).renamed = TRUE /\ place(p, node).rename = Renaming(p, node)
      BY <1>0, <1>3, <3>1, ProjectPlaced, Zenon
    <3> QED
      BY <2>a, <3>2, Zenon
  <2>3. r.aggregate = NoAggregate => Names(w.schema) \subseteq Aliases(r.rename) /\ Translates(Base(r), w.schema)
    <3> SUFFICES ASSUME r.aggregate = NoAggregate
                 PROVE  Names(w.schema) \subseteq Aliases(r.rename) /\ Translates(Base(r), w.schema)
      OBVIOUS
    <3>1. PICK out : out = w.schema
      OBVIOUS
    <3>2. p.aggregate = NoAggregate /\ r.rename = Renaming(p, node) /\ IsProjection(node.exprs, schema, out)
      BY <2>1, <2>2, <3>1
    <3>3. Names(out) \subseteq Aliases(r.rename) /\ Translates(Base(r), out)
      BY <3>2, RenamingTranslates
    <3> QED
      BY <3>1, <3>3
  <2> QED
    BY <2>2, <2>3 DEF Agrees
<1>4. CASE node.n = "aggregate"
  <2>1. w.node.n = "aggregate"
    BY <1>4, OthersWalked
  <2>a. PICK x : x = w.node
    OBVIOUS
  <2>b. place(p, x) = r /\ x.n = "aggregate"
    BY <2>1, <2>a
  <2>c. place(p, x).ok
    BY <2>b
  <2>2. /\ IsPipeline(r) /\ r.stage \in 2..5
        /\ r.filter = p.filter /\ r.aggregate = w.node /\ ~r.renamed /\ r.rename = <<>>
    <3>1. /\ IsPipeline(place(p, x)) /\ place(p, x).stage \in 2..5
          /\ place(p, x).filter = p.filter /\ place(p, x).aggregate = x
          /\ ~place(p, x).renamed /\ place(p, x).rename = <<>>
      <4>1. x.n = "aggregate"
        BY <2>b
      <4>2. IsPipeline(p)
        BY <1>0
      <4> QED
        BY <2>c, <4>1, <4>2, AggregatePlaced
    <3> QED
      BY <2>a, <2>b, <3>1, Zenon
  <2>3. r.aggregate # NoAggregate
    BY <2>1, <2>2 DEF NoAggregate
  <2> QED
    BY <2>2, <2>3 DEF Agrees
<1>5. CASE node.n \in {"sort", "limit"}
  <2>1. w.node.n = node.n /\ w.schema = schema
    BY <1>5, OthersWalked
  <2>2. /\ IsPipeline(r) /\ r.stage \in 4..5
        /\ r.filter = p.filter /\ r.aggregate = p.aggregate
        /\ r.renamed = p.renamed /\ r.rename = p.rename
    BY <1>0, <1>5, <2>1, OrderPlaced
  <2>3. Base(r) = Base(p)
    BY <2>2 DEF Base
  <2> QED
    BY <2>1, <2>2, <2>3 DEF Agrees
<1> QED
  BY <1>0, <1>1, <1>2, <1>3, <1>4, <1>5 DEF NodeKinds

\* What validate has found after each node of a query.
Begun == [ok |-> TRUE, query |-> <<>>, schema |-> <<>>]
IsWalk(U, query, m, N) ==
    /\ U = [k \in 0..N |-> U[k]]
    /\ U[0] = Begun
    /\ \A k \in 1..N : U[k] = Walked(U[k - 1], query[k], Table, m)

\* The recursion of validate has a solution at every length.
LEMMA WalkExists ==
    ASSUME NEW query, NEW m, NEW N \in Nat
    PROVE  \E U : IsWalk(U, query, m, N)
<1> DEFINE S == { n \in 0..N : \E U : IsWalk(U, query, m, n) }
<1>1. 0 \in S
  <2>1. PICK U : U = [k \in 0..0 |-> Begun]
    OBVIOUS
  <2>2. IsWalk(U, query, m, 0)
    BY <2>1 DEF IsWalk
  <2> QED
    BY <2>2
<1>2. ASSUME NEW n \in 0..(N - 1), n \in S PROVE n + 1 \in S
  <2>1. PICK U : IsWalk(U, query, m, n)
    BY <1>2
  <2>2. PICK last : last = Walked(U[n], query[n + 1], Table, m)
    OBVIOUS
  <2>3. PICK V : V = [k \in 0..(n + 1) |-> IF k = n + 1 THEN last ELSE U[k]]
    OBVIOUS
  <2>4. V = [k \in 0..(n + 1) |-> V[k]]
    BY <2>3
  <2>5. V[0] = Begun
    BY <2>1, <2>3 DEF IsWalk
  <2>6. ASSUME NEW k \in 1..(n + 1) PROVE V[k] = Walked(V[k - 1], query[k], Table, m)
    <3>1. k - 1 \in 0..n /\ V[k - 1] = U[k - 1]
      BY <2>3
    <3>2. CASE k = n + 1
      <4>1. V[k] = last /\ k - 1 = n
        BY <2>3, <3>2
      <4> QED
        BY <2>2, <3>1, <3>2, <4>1
    <3>3. CASE k # n + 1
      <4>1. k \in 1..n /\ V[k] = U[k]
        BY <2>3, <3>3
      <4>2. U[k] = Walked(U[k - 1], query[k], Table, m)
        BY <2>1, <4>1 DEF IsWalk
      <4> QED
        BY <3>1, <4>1, <4>2
    <3> QED
      BY <3>2, <3>3
  <2>7. IsWalk(V, query, m, n + 1)
    BY <2>4, <2>5, <2>6 DEF IsWalk
  <2> QED
    BY <2>7
<1>3. 0..N \subseteq S
  <2> HIDE DEF S
  <2> QED
    BY <1>1, <1>2, UpTo
<1> QED
  BY <1>3

\* validate is that solution at the last node.
LEMMA WalksAre ==
    ASSUME NEW query, IsSequence(query), NEW m
    PROVE  \E U : IsWalk(U, query, m, Len(query)) /\ validate(query, Table, m) = NotEmpty(U[Len(query)])
<1> DEFINE upto[k \in 0..Len(query)] ==
            IF k = 0 THEN [ok |-> TRUE, query |-> <<>>, schema |-> <<>>]
            ELSE Walked(upto[k - 1], query[k], Table, m)
<1>1. validate(query, Table, m) = NotEmpty(upto[Len(query)])
  BY DEF validate
<1>2. PICK U : IsWalk(U, query, m, Len(query))
  <2>1. Len(query) \in Nat
    BY SequenceIs
  <2> QED
    BY <2>1, WalkExists
<1>3. U = [k \in 0..Len(query) |-> IF k = 0 THEN [ok |-> TRUE, query |-> <<>>, schema |-> <<>>]
                                   ELSE Walked(U[k - 1], query[k], Table, m)]
  <2>1. Len(query) \in Nat
    BY SequenceIs
  <2> QED
    BY <1>2, <2>1 DEF IsWalk, Begun
<1>4. upto = [k \in 0..Len(query) |-> IF k = 0 THEN [ok |-> TRUE, query |-> <<>>, schema |-> <<>>]
                                   ELSE Walked(upto[k - 1], query[k], Table, m)]
  BY <1>3
<1>5. IsWalk(upto, query, m, Len(query))
  <2>1. Len(query) \in Nat
    BY SequenceIs
  <2> HIDE DEF upto
  <2> QED
    BY <1>4, <2>1 DEF IsWalk, Begun
<1> HIDE DEF upto
<1> QED
  BY <1>1, <1>5

\* The pipeline after each node of a validated query.
IsPlacing(P, nodes, N) ==
    /\ P = [k \in 0..N |-> P[k]]
    /\ P[0] = Empty
    /\ \A k \in 1..N : P[k] = place(P[k - 1], nodes[k])

\* The recursion of build has a solution at every length.
LEMMA PlacingExists ==
    ASSUME NEW nodes, NEW N \in Nat
    PROVE  \E P : IsPlacing(P, nodes, N)
<1> DEFINE S == { n \in 0..N : \E P : IsPlacing(P, nodes, n) }
<1>1. 0 \in S
  <2>1. PICK P : P = [k \in 0..0 |-> Empty]
    OBVIOUS
  <2>2. IsPlacing(P, nodes, 0)
    BY <2>1 DEF IsPlacing
  <2> QED
    BY <2>2
<1>2. ASSUME NEW n \in 0..(N - 1), n \in S PROVE n + 1 \in S
  <2>1. PICK U : IsPlacing(U, nodes, n)
    BY <1>2
  <2>2. PICK last : last = place(U[n], nodes[n + 1])
    OBVIOUS
  <2>3. PICK V : V = [k \in 0..(n + 1) |-> IF k = n + 1 THEN last ELSE U[k]]
    OBVIOUS
  <2>4. V = [k \in 0..(n + 1) |-> V[k]]
    BY <2>3
  <2>5. V[0] = Empty
    BY <2>1, <2>3 DEF IsPlacing
  <2>6. ASSUME NEW k \in 1..(n + 1) PROVE V[k] = place(V[k - 1], nodes[k])
    <3>1. k - 1 \in 0..n /\ V[k - 1] = U[k - 1]
      BY <2>3
    <3>2. CASE k = n + 1
      <4>1. V[k] = last /\ k - 1 = n
        BY <2>3, <3>2
      <4> QED
        BY <2>2, <3>1, <3>2, <4>1
    <3>3. CASE k # n + 1
      <4>1. k \in 1..n /\ V[k] = U[k]
        BY <2>3, <3>3
      <4>2. U[k] = place(U[k - 1], nodes[k])
        BY <2>1, <4>1 DEF IsPlacing
      <4> QED
        BY <3>1, <4>1, <4>2
    <3> QED
      BY <3>2, <3>3
  <2>7. IsPlacing(V, nodes, n + 1)
    BY <2>4, <2>5, <2>6 DEF IsPlacing
  <2> QED
    BY <2>7
<1>3. 0..N \subseteq S
  <2> HIDE DEF S
  <2> QED
    BY <1>1, <1>2, UpTo
<1> QED
  BY <1>3

\* What build makes of the pipeline of all nodes.
Built(p, schema) ==
    IF ~p.ok THEN Refused
    ELSE IF \/ p.aggregate = NoAggregate /\ p.renamed /\ ~SortColumns(p) \subseteq Aliases(p.rename)
            \/ projection_of(p) = <<>> THEN Refused
    ELSE [ok |-> TRUE, projection |-> projection_of(p),
          pruning |-> IF p.filter = NoFilter THEN <<>> ELSE extract_prune_atoms(p.filter),
          filter |-> p.filter, aggregate |-> p.aggregate,
          renamed |-> p.renamed, rename |-> p.rename,
          sort |-> p.sort, limit |-> p.limit, offset |-> p.offset,
          output |-> schema]

\* The plan that is built keeps the filter and takes the atoms of it.
LEMMA BuiltIs ==
    ASSUME NEW p, NEW schema, Built(p, schema).ok
    PROVE  /\ p.ok /\ Built(p, schema).filter = p.filter
           /\ Built(p, schema).pruning = IF p.filter = NoFilter THEN <<>> ELSE extract_prune_atoms(p.filter)
<1>1. ~Refused.ok
  BY DEF Refused
<1>2. p.ok
  BY <1>1 DEF Built
<1>3. ~(\/ p.aggregate = NoAggregate /\ p.renamed /\ ~SortColumns(p) \subseteq Aliases(p.rename)
        \/ projection_of(p) = <<>>)
  BY <1>1, <1>2 DEF Built
<1>4. Built(p, schema) =
         [ok |-> TRUE, projection |-> projection_of(p),
          pruning |-> IF p.filter = NoFilter THEN <<>> ELSE extract_prune_atoms(p.filter),
          filter |-> p.filter, aggregate |-> p.aggregate,
          renamed |-> p.renamed, rename |-> p.rename,
          sort |-> p.sort, limit |-> p.limit, offset |-> p.offset,
          output |-> schema]
  BY <1>2, <1>3 DEF Built
<1> QED
  BY <1>2, <1>4

\* What build takes from that solution at the last node.
LEMMA PlacingsAre ==
    ASSUME NEW v, Len(v.query) \in Nat, build(v).ok
    PROVE  \E P : /\ IsPlacing(P, v.query, Len(v.query))
                  /\ P[Len(v.query)].ok
                  /\ build(v).filter = P[Len(v.query)].filter
                  /\ build(v).pruning = IF P[Len(v.query)].filter = NoFilter THEN <<>>
                                        ELSE extract_prune_atoms(P[Len(v.query)].filter)
<1> DEFINE placed[k \in 0..Len(v.query)] == IF k = 0 THEN Empty ELSE place(placed[k - 1], v.query[k])
<1>1. PICK U : IsPlacing(U, v.query, Len(v.query))
  BY PlacingExists
<1>2. U = [k \in 0..Len(v.query) |-> IF k = 0 THEN Empty ELSE place(U[k - 1], v.query[k])]
  BY <1>1, SMTT(30) DEF IsPlacing
<1>3. placed = [k \in 0..Len(v.query) |-> IF k = 0 THEN Empty ELSE place(placed[k - 1], v.query[k])]
  BY <1>2
<1>4. IsPlacing(placed, v.query, Len(v.query))
  <2> HIDE DEF placed
  <2> QED
    BY <1>3 DEF IsPlacing
<1>5. PICK p : p = placed[Len(v.query)]
  OBVIOUS
<1>6. build(v) = Built(p, v.schema)
  <2>1. build(v) = Built(placed[Len(v.query)], v.schema)
    BY DEF build, Built
  <2> QED
    BY <1>5, <2>1
<1>7. /\ p.ok /\ build(v).filter = p.filter
      /\ build(v).pruning = IF p.filter = NoFilter THEN <<>> ELSE extract_prune_atoms(p.filter)
  BY <1>6, BuiltIs
<1> HIDE DEF placed
<1> QED
  BY <1>4, <1>5, <1>7

\* The k-th node is accepted as w, and is in the query of the end.
Joins(U, end, k, w) == w.ok /\ U[k].schema = w.schema /\ end.query[k] = w.node

\* A walk that ends well went well at each node, and collected its nodes.
LEMMA WalkGoes ==
    ASSUME NEW query, NEW m, NEW N \in Nat, NEW U, IsWalk(U, query, m, N), U[N].ok
    PROVE  /\ \A k \in 0..N : U[k].ok
           /\ \A k \in 1..N : Joins(U, U[N], k, walk(query[k], U[k - 1].schema, Table, m))
           /\ Len(U[N].query) = N
<1> DEFINE Back == { n \in 0..N : U[N - n].ok }
<1>1. ASSUME NEW k \in 1..N, U[k].ok
      PROVE  /\ U[k - 1].ok
             /\ walk(query[k], U[k - 1].schema, Table, m).ok
             /\ U[k].schema = walk(query[k], U[k - 1].schema, Table, m).schema
             /\ U[k].query = Append(U[k - 1].query, walk(query[k], U[k - 1].schema, Table, m).node)
  <2>1. U[k] = Walked(U[k - 1], query[k], Table, m)
    BY DEF IsWalk
  <2>2. ~Refused.ok
    BY DEF Refused
  <2>3. U[k - 1].ok /\ U[k] = Extended(U[k - 1], walk(query[k], U[k - 1].schema, Table, m))
    BY <1>1, <2>1, <2>2 DEF Walked
  <2>4. PICK w : w = walk(query[k], U[k - 1].schema, Table, m)
    OBVIOUS
  <2>5. U[k] = IF w.ok THEN [ok |-> TRUE, query |-> Append(U[k - 1].query, w.node), schema |-> w.schema] ELSE Refused
    BY <2>3, <2>4 DEF Extended
  <2>6. w.ok
    BY <1>1, <2>2, <2>5
  <2>7. U[k].schema = w.schema /\ U[k].query = Append(U[k - 1].query, w.node)
    BY <2>5, <2>6
  <2> QED
    BY <2>3, <2>4, <2>6, <2>7
<1>2. 0..N \subseteq Back
  <2>1. 0 \in Back
    BY Zenon, SMT
  <2>2. ASSUME NEW n \in 0..(N - 1), n \in Back PROVE n + 1 \in Back
    <3>1. N - n \in 1..N /\ U[N - n].ok /\ (N - n) - 1 = N - (n + 1)
      BY <2>2
    <3>2. U[(N - n) - 1].ok
      BY <1>1, <3>1
    <3> QED
      BY <3>1, <3>2
  <2> HIDE DEF Back
  <2> QED
    BY <2>1, <2>2, UpTo
<1>3. ASSUME NEW k \in 0..N PROVE U[k].ok
  <2>1. N - k \in 0..N /\ N - (N - k) = k
    OBVIOUS
  <2> QED
    BY <1>2, <2>1
<1> DEFINE Collects(k) == /\ IsSequence(U[k].query) /\ Len(U[k].query) = k
                          /\ \A j \in 1..k : U[k].query[j] = walk(query[j], U[j - 1].schema, Table, m).node
           S == { k \in 0..N : Collects(k) }
<1>4. 0 \in S
  <2>1. U[0].query = <<>>
    BY DEF IsWalk, Begun
  <2>2. IsSequence(<<>>) /\ Len(<<>>) = 0
    BY QueriesJoin DEF IsQuery
  <2> QED
    BY <2>1, <2>2
<1>5. ASSUME NEW k \in 0..(N - 1), k \in S PROVE k + 1 \in S
  <2>1. k + 1 \in 1..N /\ (k + 1) - 1 = k
    OBVIOUS
  <2>2. U[k + 1].query = Append(U[k].query, walk(query[k + 1], U[k].schema, Table, m).node)
    BY <1>1, <1>3, <2>1
  <2>3. PICK node : node = walk(query[k + 1], U[k].schema, Table, m).node
    OBVIOUS
  <2>4. PICK old : old = U[k].query
    OBVIOUS
  <2>5. IsSequence(old) /\ Len(old) = k
    BY <1>5, <2>4
  <2>6. old \in Seq(ToSet(old) \cup {node})
    <3>1. old \in [1..Len(old) -> ToSet(old)]
      BY <2>5, SequenceIs
    <3> QED
      BY <2>5, <3>1
  <2>7. /\ Append(old, node) \in Seq(ToSet(old) \cup {node}) /\ Len(Append(old, node)) = k + 1
        /\ Append(old, node)[k + 1] = node /\ \A j \in 1..k : Append(old, node)[j] = old[j]
    BY <2>5, <2>6
  <2>8. IsSequence(Append(old, node))
    BY <2>7, SequenceIs
  <2>9. ASSUME NEW j \in 1..(k + 1) PROVE U[k + 1].query[j] = walk(query[j], U[j - 1].schema, Table, m).node
    <3>1. CASE j = k + 1
      BY <2>1, <2>2, <2>3, <2>4, <2>7, <3>1
    <3>2. CASE j # k + 1
      <4>1. j \in 1..k
        BY <3>2
      <4>2. old[j] = walk(query[j], U[j - 1].schema, Table, m).node
        BY <1>5, <2>4, <4>1
      <4> QED
        BY <2>2, <2>3, <2>4, <2>7, <4>1, <4>2
    <3> QED
      BY <3>1, <3>2
  <2>10. IsSequence(U[k + 1].query) /\ Len(U[k + 1].query) = k + 1
    BY <2>2, <2>3, <2>4, <2>7, <2>8
  <2>11. Collects(k + 1)
    BY <2>9, <2>10
  <2> HIDE DEF Collects
  <2> QED
    BY <2>1, <2>11
<1>6. N \in S
  <2> HIDE DEF S
  <2>1. 0..N \subseteq S
    BY <1>4, <1>5, UpTo
  <2> QED
    BY <2>1
<1>7. Len(U[N].query) = N /\ \A j \in 1..N : U[N].query[j] = walk(query[j], U[j - 1].schema, Table, m).node
  BY <1>6
<1> HIDE DEF Back, Collects, S
<1>8. ASSUME NEW k \in 1..N
      PROVE  Joins(U, U[N], k, walk(query[k], U[k - 1].schema, Table, m))
  <2>1. U[k].ok
    BY <1>3
  <2> QED
    BY <1>1, <1>7, <2>1 DEF Joins
<1> QED
  BY <1>3, <1>7, <1>8

\* So did every placing before the last one.
LEMMA PlacingGoes ==
    ASSUME NEW nodes, NEW N \in Nat, NEW P, IsPlacing(P, nodes, N), P[N].ok
    PROVE  \A k \in 0..N : P[k].ok
<1> DEFINE Back == { n \in 0..N : P[N - n].ok }
<1>1. ASSUME NEW k \in 1..N, P[k].ok PROVE P[k - 1].ok
  <2>1. P[k] = place(P[k - 1], nodes[k])
    BY DEF IsPlacing
  <2>2. ~P[k - 1].ok => place(P[k - 1], nodes[k]) = Refused
    BY DEF place
  <2> QED
    BY <1>1, <2>1, <2>2 DEF Refused
<1>2. 0 \in Back
  BY Zenon, SMT
<1>3. ASSUME NEW n \in 0..(N - 1), n \in Back PROVE n + 1 \in Back
  <2>1. N - n \in 1..N /\ P[N - n].ok /\ (N - n) - 1 = N - (n + 1)
    BY <1>3
  <2>2. P[(N - n) - 1].ok
    BY <1>1, <2>1
  <2> QED
    BY <2>1, <2>2
<1>4. 0..N \subseteq Back
  <2> HIDE DEF Back
  <2> QED
    BY <1>2, <1>3, UpTo
<1>5. ASSUME NEW k \in 0..N PROVE P[k].ok
  <2>1. N - k \in 0..N /\ N - (N - k) = k
    OBVIOUS
  <2> QED
    BY <1>4, <2>1
<1> QED
  BY <1>5

\* The filter of a plan is over columns of the table, compared with constants
\* of their types, and the segments are pruned with its atoms.
LEMMA PlanFits ==
    ASSUME NEW query, IsQuery(query), NEW m, NEW v, v = validate(query, Table, m), v.ok,
           NEW p, p = build(v), p.ok
    PROVE  /\ p.filter = NoFilter => p.pruning = <<>>
           /\ p.filter # NoFilter => p.pruning = extract_prune_atoms(p.filter) /\ Fits(p.filter, Table)
<1>1. IsSequence(query) /\ Len(query) \in Nat /\ DOMAIN query = 1..Len(query)
  BY SequenceIs DEF IsQuery
<1>2. PICK N \in Nat : N = Len(query)
  BY <1>1, Zenon
<1>3. PICK U : IsWalk(U, query, m, N) /\ v = NotEmpty(U[N])
  BY <1>1, <1>2, WalksAre
<1>4. U[N].ok /\ v = U[N]
  BY <1>3 DEF NotEmpty, Refused
<1>5. /\ \A k \in 0..N : U[k].ok
      /\ \A k \in 1..N : Joins(U, U[N], k, walk(query[k], U[k - 1].schema, Table, m))
      /\ Len(U[N].query) = N
  <2>1. IsWalk(U, query, m, N)
    BY <1>3
  <2>2. U[N].ok
    BY <1>4
  <2> QED
    BY <2>1, <2>2, WalkGoes, Zenon
<1>6. Len(v.query) = N
  BY <1>4, <1>5
<1>7. PICK P : /\ IsPlacing(P, v.query, N) /\ P[N].ok
               /\ p.filter = P[N].filter
               /\ p.pruning = IF P[N].filter = NoFilter THEN <<>> ELSE extract_prune_atoms(P[N].filter)
  <2>1. Len(v.query) \in Nat /\ build(v).ok
    BY <1>6
  <2>2. PICK P : /\ IsPlacing(P, v.query, Len(v.query))
                  /\ P[Len(v.query)].ok
                  /\ build(v).filter = P[Len(v.query)].filter
                  /\ build(v).pruning = IF P[Len(v.query)].filter = NoFilter THEN <<>>
                                        ELSE extract_prune_atoms(P[Len(v.query)].filter)
    BY <2>1, PlacingsAre
  <2> QED
    BY <1>6, <2>2
<1>8. \A k \in 0..N : P[k].ok
  BY <1>7, PlacingGoes
<1> DEFINE S == { k \in 0..N : Agrees(P[k], U[k].schema) }
<1>9. 0 \in S
  <2>1. P[0] = Empty /\ U[0].schema = <<>>
    BY <1>3, <1>7 DEF IsPlacing, IsWalk, Begun
  <2>2. IsPipeline(Empty)
    BY DEF IsPipeline, Empty
  <2>3. Empty.aggregate = NoAggregate /\ ~Empty.renamed /\ Empty.rename = <<>> /\ Empty.filter = NoFilter
    BY DEF Empty
  <2>4. Inherits(<<>>)
    BY DEF Inherits, Names
  <2>5. Agrees(Empty, <<>>)
    BY <2>2, <2>3, <2>4 DEF Agrees
  <2> QED
    BY <2>1, <2>5
<1>10. ASSUME NEW k \in 0..(N - 1), k \in S PROVE k + 1 \in S
  <2>1. k + 1 \in 1..N /\ k + 1 \in 0..N /\ (k + 1) - 1 = k /\ k + 1 \in DOMAIN query
    BY <1>1, <1>2
  <2>2. Agrees(P[k], U[k].schema)
    BY <1>10
  <2>3. PICK w : w = walk(query[k + 1], U[k].schema, Table, m)
    OBVIOUS
  <2>4. w.ok /\ U[k + 1].schema = w.schema /\ v.query[k + 1] = w.node
    BY <1>4, <1>5, <2>1, <2>3 DEF Joins
  <2>5. P[k + 1] = place(P[k], w.node) /\ P[k + 1].ok
    <3>1. P[k + 1] = place(P[k], v.query[k + 1])
      BY <1>7, <2>1 DEF IsPlacing
    <3> QED
      BY <1>8, <2>1, <2>4, <3>1
  <2>6. IsNode(query[k + 1])
    BY <2>1 DEF IsQuery, ToSet
  <2>7. Agrees(P[k + 1], w.schema)
    BY <2>2, <2>3, <2>4, <2>5, <2>6, PlacedAgrees
  <2> QED
    BY <2>1, <2>4, <2>7
<1>11. N \in S
  <2> HIDE DEF S
  <2>1. 0..N \subseteq S
    BY <1>9, <1>10, UpTo
  <2> QED
    BY <2>1
<1>12. Agrees(P[N], U[N].schema)
  BY <1>11
<1> QED
  BY <1>7, <1>12 DEF Agrees

-----------------------------------------------------------------------------
(* A question is translated into a plan request.                           *)

\* A parser has sequences of filters, groups, metrics and orders.
Shaped(p) ==
    /\ p = [words |-> p.words, now |-> p.now, used |-> p.used, filters |-> p.filters, group_by |-> p.group_by,
            metrics |-> p.metrics, order_by |-> p.order_by, limit |-> p.limit, error |-> p.error]
    /\ IsSequence(p.words)
    /\ IsSequence(p.filters) /\ \A f \in ToSet(p.filters) : IsSequence(f.values)
    /\ IsSequence(p.group_by) /\ IsSequence(p.metrics) /\ IsSequence(p.order_by)

\* A sequence with one element, and with one more.
LEMMA SequenceGrows ==
    /\ IsSequence(<<>>)
    /\ \A e : IsSequence(<<e>>)
    /\ \A s, e : IsSequence(s) => IsSequence(Append(s, e)) /\ ToSet(Append(s, e)) \subseteq ToSet(s) \cup {e}
<1>1. IsSequence(<<>>)
  BY QueriesJoin DEF IsQuery
<1>2. ASSUME NEW e PROVE IsSequence(<<e>>)
  <2>1. <<e>> \in Seq({e})
    OBVIOUS
  <2> QED
    BY <2>1, SequenceIs
<1>3. ASSUME NEW s, NEW e, IsSequence(s)
      PROVE  IsSequence(Append(s, e)) /\ ToSet(Append(s, e)) \subseteq ToSet(s) \cup {e}
  <2>1. Len(s) \in Nat /\ s \in [1..Len(s) -> ToSet(s)]
    BY <1>3, SequenceIs
  <2>2. s \in Seq(ToSet(s) \cup {e})
    BY <2>1
  <2>3. Append(s, e) \in Seq(ToSet(s) \cup {e})
    BY <2>2
  <2> QED
    BY <2>3, SequenceIs
<1> QED
  BY <1>1, <1>2, <1>3

\* A record with the fields of a parser is one.
LEMMA ShapedOf ==
    ASSUME NEW p, NEW words, NEW now, NEW used, NEW filters, NEW group_by, NEW metrics, NEW order_by, NEW limit, NEW error,
           p = [words |-> words, now |-> now, used |-> used, filters |-> filters, group_by |-> group_by,
                metrics |-> metrics, order_by |-> order_by, limit |-> limit, error |-> error],
           IsSequence(words),
           IsSequence(filters), \A f \in ToSet(filters) : IsSequence(f.values),
           IsSequence(group_by), IsSequence(metrics), IsSequence(order_by)
    PROVE  Shaped(p)
BY DEF Shaped

\* The edits of a parser keep its shape.
LEMMA EditsKeep ==
    ASSUME NEW p, Shaped(p)
    PROVE  /\ \A v : Shaped([p EXCEPT !.used = v]) /\ Shaped([p EXCEPT !.error = v]) /\ Shaped([p EXCEPT !.limit = v])
           /\ \A v : IsSequence(v) => /\ Shaped([p EXCEPT !.group_by = v])
                                      /\ Shaped([p EXCEPT !.metrics = v])
                                      /\ Shaped([p EXCEPT !.order_by = v])
           /\ \A v : IsSequence(v) /\ (\A f \in ToSet(v) : IsSequence(f.values)) => Shaped([p EXCEPT !.filters = v])
<1>1. p = [words |-> p.words, now |-> p.now, used |-> p.used, filters |-> p.filters, group_by |-> p.group_by,
            metrics |-> p.metrics, order_by |-> p.order_by, limit |-> p.limit, error |-> p.error]
  BY DEF Shaped
<1>2. /\ IsSequence(p.words)
      /\ IsSequence(p.filters) /\ \A f \in ToSet(p.filters) : IsSequence(f.values)
      /\ IsSequence(p.group_by) /\ IsSequence(p.metrics) /\ IsSequence(p.order_by)
  BY DEF Shaped
<1>3. ASSUME NEW v PROVE Shaped([p EXCEPT !.used = v])
  <2>1. [p EXCEPT !.used = v] = [words |-> p.words, now |-> p.now, used |-> v, filters |-> p.filters, group_by |-> p.group_by,
            metrics |-> p.metrics, order_by |-> p.order_by, limit |-> p.limit, error |-> p.error]
    BY <1>1
  <2> QED
    BY <1>2, <2>1, ShapedOf
<1>4. ASSUME NEW v PROVE Shaped([p EXCEPT !.error = v])
  <2>1. [p EXCEPT !.error = v] = [words |-> p.words, now |-> p.now, used |-> p.used, filters |-> p.filters, group_by |-> p.group_by,
            metrics |-> p.metrics, order_by |-> p.order_by, limit |-> p.limit, error |-> v]
    BY <1>1
  <2> QED
    BY <1>2, <2>1, ShapedOf
<1>5. ASSUME NEW v PROVE Shaped([p EXCEPT !.limit = v])
  <2>1. [p EXCEPT !.limit = v] = [words |-> p.words, now |-> p.now, used |-> p.used, filters |-> p.filters, group_by |-> p.group_by,
            metrics |-> p.metrics, order_by |-> p.order_by, limit |-> v, error |-> p.error]
    BY <1>1
  <2> QED
    BY <1>2, <2>1, ShapedOf
<1>6. ASSUME NEW v, IsSequence(v) PROVE Shaped([p EXCEPT !.group_by = v])
  <2>1. [p EXCEPT !.group_by = v] = [words |-> p.words, now |-> p.now, used |-> p.used, filters |-> p.filters, group_by |-> v,
            metrics |-> p.metrics, order_by |-> p.order_by, limit |-> p.limit, error |-> p.error]
    BY <1>1
  <2> QED
    BY <1>2, <1>6, <2>1, ShapedOf
<1>7. ASSUME NEW v, IsSequence(v) PROVE Shaped([p EXCEPT !.metrics = v])
  <2>1. [p EXCEPT !.metrics = v] = [words |-> p.words, now |-> p.now, used |-> p.used, filters |-> p.filters, group_by |-> p.group_by,
            metrics |-> v, order_by |-> p.order_by, limit |-> p.limit, error |-> p.error]
    BY <1>1
  <2> QED
    BY <1>2, <1>7, <2>1, ShapedOf
<1>8. ASSUME NEW v, IsSequence(v) PROVE Shaped([p EXCEPT !.order_by = v])
  <2>1. [p EXCEPT !.order_by = v] = [words |-> p.words, now |-> p.now, used |-> p.used, filters |-> p.filters, group_by |-> p.group_by,
            metrics |-> p.metrics, order_by |-> v, limit |-> p.limit, error |-> p.error]
    BY <1>1
  <2> QED
    BY <1>2, <1>8, <2>1, ShapedOf
<1>9. ASSUME NEW v, IsSequence(v), \A f \in ToSet(v) : IsSequence(f.values) PROVE Shaped([p EXCEPT !.filters = v])
  <2>1. [p EXCEPT !.filters = v] = [words |-> p.words, now |-> p.now, used |-> p.used, filters |-> v, group_by |-> p.group_by,
            metrics |-> p.metrics, order_by |-> p.order_by, limit |-> p.limit, error |-> p.error]
    BY <1>1
  <2> QED
    BY <1>2, <1>9, <2>1, ShapedOf
<1> QED
  BY <1>3, <1>4, <1>5, <1>6, <1>7, <1>8, <1>9

\* Marking words, an error, a filter and a metric.
LEMMA MarksKeep ==
    ASSUME NEW p, Shaped(p)
    PROVE  /\ Shaped(Fail(p))
           /\ \A at : Shaped(Use(p, at))
           /\ \A column, op, value : Shaped(PushFilter(p, column, op, value))
           /\ \A column, op, t : Shaped(push_time_filter(p, column, op, t))
           /\ \A e : /\ Shaped([p EXCEPT !.order_by = Append(@, e)])
                     /\ Shaped([p EXCEPT !.metrics = Append(@, e)])
                     /\ Shaped([p EXCEPT !.group_by = Append(@, e)])
                     /\ Shaped([p EXCEPT !.group_by = <<e>>])
           /\ \A func, column, at : Shaped(PushMetric(p, func, column, at))
<1>1. Shaped(Fail(p))
  BY EditsKeep DEF Fail
<1>2. ASSUME NEW q, Shaped(q), NEW at PROVE Shaped(Use(q, at))
  <2>1. PICK v : v = q.used \cup (at \cap DOMAIN q.words)
    OBVIOUS
  <2>2. Use(q, at) = [q EXCEPT !.used = v]
    BY <2>1 DEF Use
  <2>3. \A u : Shaped([q EXCEPT !.used = u])
    BY <1>2, EditsKeep
  <2>4. Shaped([q EXCEPT !.used = v])
    BY <2>3
  <2> QED
    BY <2>2, <2>4
<1>3. IsSequence(p.filters) /\ (\A f \in ToSet(p.filters) : IsSequence(f.values))
      /\ IsSequence(p.order_by) /\ IsSequence(p.metrics) /\ IsSequence(p.group_by)
  BY DEF Shaped
<1>4. ASSUME NEW column, NEW op, NEW value PROVE Shaped(PushFilter(p, column, op, value))
  <2>1. PICK f : f = [column |-> column, op |-> op, value |-> value, values |-> <<>>]
    OBVIOUS
  <2>2. IsSequence(f.values)
    BY <2>1, SequenceGrows
  <2>3. PICK v : v = Append(p.filters, f)
    OBVIOUS
  <2>4. IsSequence(v) /\ \A g \in ToSet(v) : IsSequence(g.values)
    BY <1>3, <2>2, <2>3, SequenceGrows
  <2>5. PushFilter(p, column, op, value) = [p EXCEPT !.filters = v]
    BY <2>1, <2>3 DEF PushFilter
  <2> QED
    BY <2>4, <2>5, EditsKeep
<1>5. \A column, op, t : Shaped(push_time_filter(p, column, op, t))
  BY <1>4 DEF push_time_filter
<1>6. ASSUME NEW e
      PROVE  /\ Shaped([p EXCEPT !.order_by = Append(@, e)])
             /\ Shaped([p EXCEPT !.metrics = Append(@, e)])
             /\ Shaped([p EXCEPT !.group_by = Append(@, e)])
             /\ Shaped([p EXCEPT !.group_by = <<e>>])
  <2>1. /\ IsSequence(Append(p.order_by, e)) /\ IsSequence(Append(p.metrics, e)) /\ IsSequence(Append(p.group_by, e))
        /\ IsSequence(<<e>>)
    BY <1>3, SequenceGrows
  <2>2. Shaped([p EXCEPT !.order_by = Append(p.order_by, e)])
    BY <2>1, EditsKeep
  <2>3. Shaped([p EXCEPT !.metrics = Append(p.metrics, e)])
    BY <2>1, EditsKeep
  <2>4. Shaped([p EXCEPT !.group_by = Append(p.group_by, e)])
    BY <2>1, EditsKeep
  <2>5. Shaped([p EXCEPT !.group_by = <<e>>])
    <3>1. PICK v : v = <<e>>
      OBVIOUS
    <3>2. Shaped([p EXCEPT !.group_by = v])
      BY <2>1, <3>1, EditsKeep
    <3> QED
      BY <3>1, <3>2
  <2> QED
    BY <2>2, <2>3, <2>4, <2>5
<1>7. ASSUME NEW func, NEW column, NEW at PROVE Shaped(PushMetric(p, func, column, at))
  BY <1>2, <1>6 DEF PushMetric
<1> QED
  BY <1>1, <1>2, <1>4, <1>5, <1>6, <1>7

\* The passes that find a time.
LEMMA TimesKeep ==
    ASSUME NEW p, Shaped(p), NEW i, NEW column
    PROVE  /\ Shaped(parse_relative_time(p, i, column))
           /\ Shaped(parse_absolute_time(p, i, column))
           /\ Shaped(parse_bare_year(p, i, column))
<1>1. ASSUME NEW a, NEW b, NEW at, NEW c, NEW d
      PROVE  Shaped(Use(push_time_filter(push_time_filter(p, column, a, b), column, c, d), at))
  <2>1. PICK q : q = push_time_filter(p, column, a, b)
    OBVIOUS
  <2>2. Shaped(q)
    BY <2>1, MarksKeep
  <2>3. PICK r : r = push_time_filter(q, column, c, d)
    OBVIOUS
  <2>4. Shaped(r)
    BY <2>2, <2>3, MarksKeep
  <2>5. Shaped(Use(r, at))
    BY <2>4, MarksKeep
  <2> QED
    BY <2>1, <2>3, <2>5
<1>2. ASSUME NEW op, NEW t, NEW at PROVE Shaped(Use(push_time_filter(p, column, op, t), at))
  <2>1. PICK q : q = push_time_filter(p, column, op, t)
    OBVIOUS
  <2>2. Shaped(q)
    BY <2>1, MarksKeep
  <2>3. Shaped(Use(q, at))
    BY <2>2, MarksKeep
  <2> QED
    BY <2>1, <2>3
<1>3. ASSUME NEW op, NEW v, NEW at PROVE Shaped(Use(PushFilter(p, column, op, v), at))
  <2>1. PICK q : q = PushFilter(p, column, op, v)
    OBVIOUS
  <2>2. Shaped(q)
    BY <2>1, MarksKeep
  <2>3. Shaped(Use(q, at))
    BY <2>2, MarksKeep
  <2> QED
    BY <2>1, <2>3
<1>4. Shaped(Fail(p))
  BY MarksKeep
<1>5. Shaped(parse_relative_time(p, i, column))
  <2>1. \E b1, b2, b3 \in BOOLEAN : \E t, at1, w1, w2, at2 :
          parse_relative_time(p, i, column) =
             CASE b1 -> p [] b2 -> p [] column = NoColumn -> Fail(p)
               [] b3 -> Use(push_time_filter(p, column, "gte", t), at1)
               [] OTHER -> Use(push_time_filter(push_time_filter(p, column, "gte", w1), column, "lt", w2), at2)
    BY ZenonT(60) DEF parse_relative_time
  <2> QED
    BY <1>1, <1>2, <1>4, <2>1
<1>6. Shaped(parse_absolute_time(p, i, column))
  <2>1. \E b1 \in BOOLEAN : \E op, v, at :
          parse_absolute_time(p, i, column) =
             CASE b1 -> p [] column = NoColumn -> Fail(p) [] OTHER -> Use(PushFilter(p, column, op, v), at)
    BY DEF parse_absolute_time
  <2> QED
    BY <1>3, <1>4, <2>1
<1>7. Shaped(parse_bare_year(p, i, column))
  <2>a. PICK year : year = Lexicon.integers[Get(p, i)]
    OBVIOUS
  <2>b. PICK w1 : w1 = Midnight(year, 1, 1)
    OBVIOUS
  <2>c. PICK w2 : w2 = Midnight(year + 1, 1, 1)
    OBVIOUS
  <2>d. PICK q : q = Use(push_time_filter(push_time_filter(p, column, "gte", w1), column, "lt", w2), {i})
    OBVIOUS
  <2>e. Shaped(q)
    BY <1>1, <2>d
  <2>1. parse_bare_year(p, i, column) =
             CASE i \in p.used \/ ~IsInteger(Get(p, i)) -> p
               [] year \notin 1970..2200 \/ Get(p, i - 1) \notin {"in", "during", "for"} -> p
               [] column = NoColumn -> Fail(p)
               [] OTHER -> q
    BY <2>a, <2>b, <2>c, <2>d DEF parse_bare_year
  <2> QED
    BY <1>4, <2>1, <2>e
<1> QED
  BY <1>5, <1>6, <1>7

\* The passes that find a condition.
LEMMA ConditionsKeep ==
    ASSUME NEW p, Shaped(p), NEW i, NEW at
    PROVE  /\ Shaped(parse_null_checks(p, i, at))
           /\ Shaped(parse_comparisons(p, i, at))
           /\ Shaped(parse_equalities(p, i, at))
<1>1. ASSUME NEW column, NEW op, NEW v, NEW used PROVE Shaped(Use(PushFilter(p, column, op, v), used))
  <2>1. PICK q : q = PushFilter(p, column, op, v)
    OBVIOUS
  <2>2. Shaped(q)
    BY <2>1, MarksKeep
  <2>3. Shaped(Use(q, used))
    BY <2>2, MarksKeep
  <2> QED
    BY <2>1, <2>3
<1>2. Shaped(parse_null_checks(p, i, at))
  <2>1. \E b \in BOOLEAN : \E op, used :
          parse_null_checks(p, i, at) = IF b THEN Use(PushFilter(p, at.column, op, <<>>), used) ELSE p
    BY DEF parse_null_checks
  <2>2. PICK none : none = <<>>
    OBVIOUS
  <2>3. \E b \in BOOLEAN : \E op, used :
          parse_null_checks(p, i, at) = IF b THEN Use(PushFilter(p, at.column, op, none), used) ELSE p
    BY <2>1, <2>2
  <2> QED
    BY <1>1, <2>3
<1>3. Shaped(parse_comparisons(p, i, at))
  <2>1. PICK here : here = {c \in comparison_phrases :
                    /\ SubSeq(p.words, i, Min({i + Len(c[1]) - 1, Len(p.words)})) = c[1]
                    /\ IsNumber(Get(p, i + Len(c[1])))}
    OBVIOUS
  <2>2. PICK c : c = CHOOSE x \in here : TRUE
    OBVIOUS
  <2>3. PICK end : end = i + Len(c[1])
    OBVIOUS
  <2>4. PICK v : v = <<Lexicon.numbers[Get(p, end)]>>
    OBVIOUS
  <2>5. parse_comparisons(p, i, at) =
          IF i \notin p.used /\ here /= {} /\ at /= Nowhere
          THEN Use(PushFilter(p, at.column, c[2], v), at.from..end) ELSE p
    BY <2>1, <2>2, <2>3, <2>4 DEF parse_comparisons
  <2>6. Shaped(Use(PushFilter(p, at.column, c[2], v), at.from..end))
    BY <1>1
  <2> QED
    BY <2>5, <2>6
<1>4. Shaped(parse_equalities(p, i, at))
  <2>1. \E b \in BOOLEAN : \E op, v, used :
          parse_equalities(p, i, at) = IF b THEN Use(PushFilter(p, at.column, op, v), used) ELSE p
    BY DEF parse_equalities
  <2> QED
    BY <1>1, <2>1
<1> QED
  BY <1>2, <1>3, <1>4

\* The passes that find the shape of the query.
LEMMA ShapesKeep ==
    ASSUME NEW p, Shaped(p), NEW i, NEW at
    PROVE  /\ Shaped(parse_explicit_order(p, i, at))
           /\ Shaped(parse_subject(p, at))
           /\ Shaped(parse_group_by(p, i, at))
<1>1. Shaped(parse_explicit_order(p, i, at))
  <2>1. \E b \in BOOLEAN : \E e, used :
          parse_explicit_order(p, i, at) = IF b THEN Use([p EXCEPT !.order_by = Append(@, e)], used) ELSE p
    BY DEF parse_explicit_order
  <2>2. ASSUME NEW e, NEW used PROVE Shaped(Use([p EXCEPT !.order_by = Append(@, e)], used))
    <3>1. PICK q : q = [p EXCEPT !.order_by = Append(@, e)]
      OBVIOUS
    <3>2. Shaped(q)
      BY <3>1, MarksKeep
    <3>3. Shaped(Use(q, used))
      BY <3>2, MarksKeep
    <3> QED
      BY <3>1, <3>3
  <2> QED
    BY <2>1, <2>2
<1>2. ASSUME NEW e, NEW used PROVE Shaped(Use([p EXCEPT !.group_by = <<e>>], used))
  <2>1. PICK q : q = [p EXCEPT !.group_by = <<e>>]
    OBVIOUS
  <2>2. Shaped(q)
    BY <2>1, MarksKeep
  <2>3. Shaped(Use(q, used))
    BY <2>2, MarksKeep
  <2> QED
    BY <2>1, <2>3
<1>3. Shaped(parse_subject(p, at))
  <2>1. \E b \in BOOLEAN : \E used : parse_subject(p, at) = IF b THEN Use([p EXCEPT !.group_by = <<at.column>>], used) ELSE p
    BY ZenonT(60) DEF parse_subject
  <2> QED
    BY <1>2, <2>1
<1>4. Shaped(parse_group_by(p, i, at))
  <2>1. \E b \in BOOLEAN : \E used : parse_group_by(p, i, at) = IF b THEN Use([p EXCEPT !.group_by = <<at.column>>], used) ELSE p
    BY DEF parse_group_by
  <2> QED
    BY <1>2, <2>1
<1> QED
  BY <1>1, <1>3, <1>4

\* The first or last so many rows.
LEMMA RankKeeps ==
    ASSUME NEW p, Shaped(p)
    PROVE  /\ \A from, by, at, ascending : Shaped(RankBy(p, from, by, at, ascending))
           /\ \A i : Shaped(parse_top_n(p, i))
<1>1. ASSUME NEW q, Shaped(q), NEW from, NEW by, NEW at, NEW ascending PROVE Shaped(RankBy(q, from, by, at, ascending))
  <2>1. PICK group, metric :
           RankBy(q, from, by, at, ascending) =
              IF by = 0 \/ at = Nowhere THEN q
              ELSE Use(IF group /= NoColumn
                       THEN [q EXCEPT !.group_by = Append(@, group), !.metrics = Append(@, metric),
                                      !.order_by = Append(@, OrderSpec(metric_alias(metric), ascending))]
                       ELSE [q EXCEPT !.order_by = Append(@, OrderSpec(at.column, ascending))],
                       from..at.to)
    BY ZenonT(60) DEF RankBy
  <2>2. PICK e1 : e1 = OrderSpec(metric_alias(metric), ascending)
    OBVIOUS
  <2>3. PICK e2 : e2 = OrderSpec(at.column, ascending)
    OBVIOUS
  <2>4. PICK r1 : r1 = [q EXCEPT !.group_by = Append(@, group)]
    OBVIOUS
  <2>5. PICK r2 : r2 = [r1 EXCEPT !.metrics = Append(@, metric)]
    OBVIOUS
  <2>6. PICK r3 : r3 = [r2 EXCEPT !.order_by = Append(@, e1)]
    OBVIOUS
  <2>7. Shaped(r1)
    BY <1>1, <2>4, MarksKeep
  <2>8. Shaped(r2)
    BY <2>5, <2>7, MarksKeep
  <2>9. Shaped(r3)
    BY <2>6, <2>8, MarksKeep
  <2>10. PICK r4 : r4 = [q EXCEPT !.order_by = Append(@, e2)]
    OBVIOUS
  <2>11. Shaped(r4)
    BY <1>1, <2>10, MarksKeep
  <2>12. [q EXCEPT !.group_by = Append(@, group), !.metrics = Append(@, metric), !.order_by = Append(@, e1)] = r3
    <3>1. r1.metrics = q.metrics /\ r2.order_by = q.order_by
      <4>1. q = [words |-> q.words, now |-> q.now, used |-> q.used, filters |-> q.filters, group_by |-> q.group_by,
                 metrics |-> q.metrics, order_by |-> q.order_by, limit |-> q.limit, error |-> q.error]
        BY <1>1 DEF Shaped
      <4> QED
        BY <2>4, <2>5, <4>1
    <3> QED
      BY <2>4, <2>5, <2>6, <3>1
  <2>13. RankBy(q, from, by, at, ascending) =
              IF by = 0 \/ at = Nowhere THEN q ELSE Use(IF group /= NoColumn THEN r3 ELSE r4, from..at.to)
    BY <2>1, <2>2, <2>3, <2>10, <2>12
  <2>14. Shaped(Use(r3, from..at.to)) /\ Shaped(Use(r4, from..at.to))
    BY <2>9, <2>11, MarksKeep
  <2> QED
    BY <1>1, <2>13, <2>14
<1>2. ASSUME NEW i PROVE Shaped(parse_top_n(p, i))
  <2>1. PICK l : l = Lexicon.integers[Get(p, i + 1)]
    OBVIOUS
  <2>2. PICK r : r = [p EXCEPT !.limit = l]
    OBVIOUS
  <2>3. PICK q : q = Use(r, {i, i + 1})
    OBVIOUS
  <2>4. Shaped(r)
    BY <2>2, EditsKeep
  <2>5. Shaped(q)
    BY <2>3, <2>4, MarksKeep
  <2>6. \E b \in BOOLEAN : \E by, at, ascending :
          parse_top_n(p, i) = IF b THEN RankBy(q, i + 2, by, at, ascending) ELSE p
    BY <2>1, <2>2, <2>3 DEF parse_top_n
  <2> QED
    BY <1>1, <2>5, <2>6
<1> QED
  BY <1>1, <1>2

\* The metrics.
LEMMA MetricsKeep ==
    ASSUME NEW p, Shaped(p)
    PROVE  Shaped(parse_metrics(p))
<1>1. ASSUME NEW i, NEW func, NEW column, NEW at PROVE Shaped(NamedMetric(p, i, func, column, at))
  <2>1. \E b \in BOOLEAN : \E used : NamedMetric(p, i, func, column, at) = IF b THEN Fail(p) ELSE PushMetric(p, func, column, used)
    BY DEF NamedMetric
  <2> QED
    BY <2>1, MarksKeep
<1>2. ASSUME NEW count, NEW named, NEW func, NEW at, NEW implied, NEW measure
      PROVE  Shaped(MetricOf(p, count, named, func, at, implied, measure))
  <2>1. PICK column : column = IF at = Nowhere THEN default_measure(func) ELSE at.column
    OBVIOUS
  <2>2. MetricOf(p, count, named, func, at, implied, measure) =
          CASE count > 0 -> PushMetric(p, "count", Star, {count})
            [] named > 0 -> NamedMetric(p, named, func, column, at)
            [] implied > 0 -> PushMetric(p, Column(Table, measure).aggregation, measure, {implied})
            [] OTHER -> p
    BY <2>1 DEF MetricOf
  <2>3. Shaped(PushMetric(p, "count", Star, {count})) /\ Shaped(NamedMetric(p, named, func, column, at))
        /\ Shaped(PushMetric(p, Column(Table, measure).aggregation, measure, {implied})) /\ Shaped(p)
    BY <1>1, MarksKeep
  <2> QED
    BY <2>2, <2>3
<1>3. \E count, named, func, at, implied, measure :
         parse_metrics(p) = MetricOf(p, count, named, func, at, implied, measure)
  BY ZenonT(60) DEF parse_metrics
<1> QED
  BY <1>2, <1>3

\* One pass over one word.
LEMMA StepKeeps ==
    ASSUME NEW p, Shaped(p), NEW pass, NEW i
    PROVE  Shaped(Step(pass, p, i))
<1>1. /\ \A column : Shaped(parse_relative_time(p, i, column))
      /\ \A column : Shaped(parse_absolute_time(p, i, column))
      /\ \A column : Shaped(parse_bare_year(p, i, column))
      /\ \A at : Shaped(parse_null_checks(p, i, at))
      /\ \A at : Shaped(parse_comparisons(p, i, at))
      /\ \A at : Shaped(parse_equalities(p, i, at))
      /\ \A at : Shaped(parse_explicit_order(p, i, at))
      /\ \A at : Shaped(parse_subject(p, at))
      /\ \A at : Shaped(parse_group_by(p, i, at))
  BY TimesKeep, ConditionsKeep, ShapesKeep
<1>2. Shaped(parse_top_n(p, i)) /\ Shaped(parse_metrics(p))
  BY RankKeeps, MetricsKeep
<1> QED
  BY <1>1, <1>2, Zenon DEF Step

\* What a pass has made of the parser after each word.
IsPass(A, pass, p, N) ==
    /\ A = [i \in 0..N |-> A[i]]
    /\ A[0] = p
    /\ \A i \in 1..N : A[i] = Step(pass, A[i - 1], i)

\* A pass of the translator can be run over any number of words.
LEMMA PassExists ==
    ASSUME NEW pass, NEW p, NEW N \in Nat
    PROVE  \E A : IsPass(A, pass, p, N)
<1> DEFINE S == { n \in 0..N : \E A : IsPass(A, pass, p, n) }
<1>1. 0 \in S
  <2>1. PICK A : A = [k \in 0..0 |-> p]
    OBVIOUS
  <2>2. IsPass(A, pass, p, 0)
    BY <2>1 DEF IsPass
  <2> QED
    BY <2>2
<1>2. ASSUME NEW n \in 0..(N - 1), n \in S PROVE n + 1 \in S
  <2>1. PICK U : IsPass(U, pass, p, n)
    BY <1>2
  <2>2. PICK last : last = Step(pass, U[n], n + 1)
    OBVIOUS
  <2>3. PICK V : V = [k \in 0..(n + 1) |-> IF k = n + 1 THEN last ELSE U[k]]
    OBVIOUS
  <2>4. V = [k \in 0..(n + 1) |-> V[k]]
    BY <2>3
  <2>5. V[0] = p
    BY <2>1, <2>3 DEF IsPass
  <2>6. ASSUME NEW k \in 1..(n + 1) PROVE V[k] = Step(pass, V[k - 1], k)
    <3>1. k - 1 \in 0..n /\ V[k - 1] = U[k - 1]
      BY <2>3
    <3>2. CASE k = n + 1
      <4>1. V[k] = last /\ k - 1 = n
        BY <2>3, <3>2
      <4> QED
        BY <2>2, <3>1, <3>2, <4>1
    <3>3. CASE k # n + 1
      <4>1. k \in 1..n /\ V[k] = U[k]
        BY <2>3, <3>3
      <4>2. U[k] = Step(pass, U[k - 1], k)
        BY <2>1, <4>1 DEF IsPass
      <4> QED
        BY <3>1, <4>1, <4>2
    <3> QED
      BY <3>2, <3>3
  <2>7. IsPass(V, pass, p, n + 1)
    BY <2>4, <2>5, <2>6 DEF IsPass
  <2> QED
    BY <2>7
<1>3. 0..N \subseteq S
  <2> HIDE DEF S
  <2> QED
    BY <1>1, <1>2, UpTo
<1> QED
  BY <1>3

\* One pass over every word.
LEMMA PassKeeps ==
    ASSUME NEW p, Shaped(p), NEW pass
    PROVE  Shaped(Pass(pass, p))
<1> DEFINE after[i \in 0..Len(p.words)] == IF i = 0 THEN p ELSE Step(pass, after[i - 1], i)
<1>1. Len(p.words) \in Nat
  BY SequenceIs DEF Shaped
<1>2. PICK A : IsPass(A, pass, p, Len(p.words))
  BY <1>1, PassExists
<1>3. A = [i \in 0..Len(p.words) |-> IF i = 0 THEN p ELSE Step(pass, A[i - 1], i)]
  BY <1>1, <1>2 DEF IsPass
<1>4. after = [i \in 0..Len(p.words) |-> IF i = 0 THEN p ELSE Step(pass, after[i - 1], i)]
  BY <1>3
<1>5. Pass(pass, p) = IF p.error = "" THEN after[Len(p.words)] ELSE p
  BY DEF Pass
<1> HIDE DEF after
<1> DEFINE S == { i \in 0..Len(p.words) : Shaped(after[i]) }
<1>6. 0 \in S
  BY <1>1, <1>4
<1>7. ASSUME NEW i \in 0..(Len(p.words) - 1), i \in S PROVE i + 1 \in S
  <2>1. i + 1 \in 0..Len(p.words) /\ i + 1 # 0 /\ (i + 1) - 1 = i
    BY <1>1
  <2>2. after[i + 1] = Step(pass, after[i], i + 1)
    BY <1>4, <2>1
  <2>3. Shaped(after[i])
    BY <1>7
  <2> QED
    BY <2>1, <2>2, <2>3, StepKeeps
<1>8. 0..Len(p.words) \subseteq S
  <2> HIDE DEF S
  <2> QED
    BY <1>1, <1>6, <1>7, UpTo
<1>9. Shaped(after[Len(p.words)])
  BY <1>1, <1>8
<1> QED
  BY <1>5, <1>9, Zenon

\* What the passes have made of the parser, one after another.
IsParsing(A, words, now, N) ==
    /\ A = [k \in 0..N |-> A[k]]
    /\ A[0] = Parser(words, now)
    /\ \A k \in 1..N : A[k] = Pass(passes[k], A[k - 1])

\* The passes of the translator can be run one after the other.
LEMMA ParsingExists ==
    ASSUME NEW words, NEW now, NEW N \in Nat
    PROVE  \E A : IsParsing(A, words, now, N)
<1> DEFINE S == { n \in 0..N : \E A : IsParsing(A, words, now, n) }
<1>1. 0 \in S
  <2>1. PICK A : A = [k \in 0..0 |-> Parser(words, now)]
    OBVIOUS
  <2>2. IsParsing(A, words, now, 0)
    BY <2>1 DEF IsParsing
  <2> QED
    BY <2>2
<1>2. ASSUME NEW n \in 0..(N - 1), n \in S PROVE n + 1 \in S
  <2>1. PICK U : IsParsing(U, words, now, n)
    BY <1>2
  <2>2. PICK last : last = Pass(passes[n + 1], U[n])
    OBVIOUS
  <2>3. PICK V : V = [k \in 0..(n + 1) |-> IF k = n + 1 THEN last ELSE U[k]]
    OBVIOUS
  <2>4. V = [k \in 0..(n + 1) |-> V[k]]
    BY <2>3
  <2>5. V[0] = Parser(words, now)
    BY <2>1, <2>3 DEF IsParsing
  <2>6. ASSUME NEW k \in 1..(n + 1) PROVE V[k] = Pass(passes[k], V[k - 1])
    <3>1. k - 1 \in 0..n /\ V[k - 1] = U[k - 1]
      BY <2>3
    <3>2. CASE k = n + 1
      <4>1. V[k] = last /\ k - 1 = n
        BY <2>3, <3>2
      <4> QED
        BY <2>2, <3>1, <3>2, <4>1
    <3>3. CASE k # n + 1
      <4>1. k \in 1..n /\ V[k] = U[k]
        BY <2>3, <3>3
      <4>2. U[k] = Pass(passes[k], U[k - 1])
        BY <2>1, <4>1 DEF IsParsing
      <4> QED
        BY <3>1, <4>1, <4>2
    <3> QED
      BY <3>2, <3>3
  <2>7. IsParsing(V, words, now, n + 1)
    BY <2>4, <2>5, <2>6 DEF IsParsing
  <2> QED
    BY <2>7
<1>3. 0..N \subseteq S
  <2> HIDE DEF S
  <2> QED
    BY <1>1, <1>2, UpTo
<1> QED
  BY <1>3

\* The parser of a question, after every pass.
LEMMA ParsedIsShaped ==
    ASSUME NEW words, IsSequence(words), NEW now
    PROVE  Shaped(parsed(words, now))
<1> DEFINE after[k \in 0..Len(passes)] == IF k = 0 THEN Parser(words, now) ELSE Pass(passes[k], after[k - 1])
<1>1. Len(passes) \in Nat
  BY DEF passes
<1>2. PICK A : IsParsing(A, words, now, Len(passes))
  BY <1>1, ParsingExists
<1>3. A = [k \in 0..Len(passes) |-> IF k = 0 THEN Parser(words, now) ELSE Pass(passes[k], A[k - 1])]
  BY <1>1, <1>2 DEF IsParsing
<1>4. after = [k \in 0..Len(passes) |-> IF k = 0 THEN Parser(words, now) ELSE Pass(passes[k], after[k - 1])]
  BY <1>3
<1>5. parsed(words, now) = after[Len(passes)]
  BY DEF parsed
<1> HIDE DEF after
<1> DEFINE S == { k \in 0..Len(passes) : Shaped(after[k]) }
<1>6. 0 \in S
  <2>1. after[0] = Parser(words, now)
    BY <1>1, <1>4
  <2>2. Shaped(Parser(words, now))
    <3>1. PICK none : none = <<>>
      OBVIOUS
    <3>2. PICK p : p = [words |-> words, now |-> now, used |-> {}, filters |-> none, group_by |-> none,
                        metrics |-> none, order_by |-> none, limit |-> None, error |-> ""]
      BY Zenon
    <3>3. IsSequence(none) /\ ToSet(none) = {}
      <4>1. ToSet(<<>>) = {}
        BY DEF ToSet
      <4> QED
        BY <3>1, <4>1, SequenceGrows
    <3>4. Shaped(p)
      BY <3>2, <3>3, ShapedOf, Zenon
    <3> QED
      BY <3>1, <3>2, <3>4, Zenon DEF Parser
  <2> QED
    BY <1>1, <2>1, <2>2
<1>7. ASSUME NEW k \in 0..(Len(passes) - 1), k \in S PROVE k + 1 \in S
  <2>1. k + 1 \in 0..Len(passes) /\ k + 1 # 0 /\ (k + 1) - 1 = k
    BY <1>1
  <2>2. after[k + 1] = Pass(passes[k + 1], after[k])
    BY <1>4, <2>1
  <2>3. Shaped(after[k])
    BY <1>7
  <2> QED
    BY <2>1, <2>2, <2>3, PassKeeps
<1>8. 0..Len(passes) \subseteq S
  <2> HIDE DEF S
  <2> QED
    BY <1>1, <1>6, <1>7, UpTo
<1>9. Shaped(after[Len(passes)])
  BY <1>1, <1>8
<1> QED
  BY <1>5, <1>9

\* What translate makes of a question is a plan request.
LEMMA QuestionsTranslate ==
    ASSUME NEW words, IsSequence(words), NEW now, NEW tables, translate(words, now, tables).ok
    PROVE  IsRequest(translate(words, now, tables).request)
<1>1. ~Refused.ok
  BY DEF Refused
<1>2. PICK p : p = parsed(words, now)
  OBVIOUS
<1>3. Shaped(p)
  BY <1>2, ParsedIsShaped
<1>4. translate(words, now, tables) = finish_request(p)
  BY <1>1, <1>2 DEF translate
<1>5. PICK metrics : metrics = IF p.group_by /= <<>> /\ p.metrics = <<>> THEN <<MetricSpec("count", Star)>> ELSE p.metrics
  OBVIOUS
<1>6. IsSequence(metrics)
  BY <1>3, <1>5, SequenceGrows DEF Shaped
<1>7. \E a, r \in BOOLEAN : finish_request(p) = IF p.error /= "" THEN Refused ELSE Finished(p, a, r, metrics)
  BY <1>5, Zenon DEF finish_request
<1>8. PICK a, r \in BOOLEAN : finish_request(p) = Finished(p, a, r, metrics)
  BY <1>1, <1>4, <1>7, Zenon
<1>9. PICK none : none = <<>>
  OBVIOUS
<1>10. PICK order : order = IF p.order_by = <<>> /\ a /\ (p.limit /= None \/ r)
                          THEN <<OrderSpec(metric_alias(metrics[1]), FALSE)>> ELSE p.order_by
  OBVIOUS
<1>11. \E operation, limit :
         Finished(p, a, r, metrics) \in
            {Refused, [ok |-> TRUE, request |->
               [operation |-> operation, columns |-> none, filters |-> p.filters, group_by |-> p.group_by,
                metrics |-> metrics, order_by |-> order, limit |-> limit, offset |-> None]]}
  BY <1>9, <1>10 DEF Finished
<1>12. PICK operation, limit :
         finish_request(p) = [ok |-> TRUE, request |->
               [operation |-> operation, columns |-> none, filters |-> p.filters, group_by |-> p.group_by,
                metrics |-> metrics, order_by |-> order, limit |-> limit, offset |-> None]]
  BY <1>1, <1>4, <1>8, <1>11
<1>13. IsSequence(order) /\ IsSequence(none)
  BY <1>3, <1>9, <1>10, SequenceGrows DEF Shaped
<1>14. /\ IsSequence(p.filters) /\ \A f \in ToSet(p.filters) : IsSequence(f.values)
       /\ IsSequence(p.group_by)
  BY <1>3 DEF Shaped
<1>15. PICK q : q = finish_request(p).request
  OBVIOUS
<1>16. q.columns = none /\ q.filters = p.filters /\ q.group_by = p.group_by /\ q.metrics = metrics /\ q.order_by = order
  BY <1>12, <1>15
<1>17. IsRequest(q)
  BY <1>6, <1>13, <1>14, <1>16 DEF IsRequest
<1> QED
  BY <1>4, <1>15, <1>17

-----------------------------------------------------------------------------
(* From the request to the segments that are skipped.                      *)

\* What a question became, and what is lowered next.
Asked ==
    /\ phase = "translate" => input.source.kind = "question"
    /\ phase = "lower" /\ input.source.kind # "query" => IsRequest(request)

\* What the validator is given, and what the builder is given by it.
Lowered ==
    /\ phase = "validate" => IsQuery(ir)
    /\ phase = "build" => \E query, m : IsQuery(query) /\ ir = validate(query, Table, m) /\ ir.ok

\* The atoms a plan prunes with are those of its filter.
Prunes(p) ==
    /\ p.filter = NoFilter => p.pruning = <<>>
    /\ p.filter # NoFilter => p.pruning = extract_prune_atoms(p.filter) /\ Fits(p.filter, Table)
Planned == phase \in {"execute", "scan"} \/ pruned # {} => Prunes(plan)

\* A segment that was skipped is one of the snapshot, excluded by an atom.
Skipped ==
    /\ phase \in {"translate", "lower", "validate", "build", "execute"} => pruned = {}
    /\ \A s \in pruned :
          /\ s[1] \in Partitions /\ s[2] \in DOMAIN store[s[1]].segments
          /\ can_skip(store[s[1]].segments[s[2]], plan.pruning)

PlanInv == Asked /\ Lowered /\ Planned /\ Skipped

\* A query starts as a question, as a request or as a plan.
LEMMA PlanStarts == Init => PlanInv
<1> SUFFICES ASSUME Init PROVE PlanInv
  OBVIOUS
<1>1. input \in Inputs /\ pruned = {} /\ phase \in {"translate", "lower"}
      /\ (phase = "translate" <=> input.source.kind = "question")
      /\ (input.source.kind = "plan" => request = input.source.request)
  BY DEF Init
<1>2. input.source.kind \in {"plan", "query", "question"}
      /\ (input.source.kind = "plan" => IsRequest(input.source.request))
  BY <1>1, InputsAreRequests
<1> QED
  BY <1>1, <1>2 DEF PlanInv, Asked, Lowered, Planned, Skipped

\* What is skipped stays skipped by the same atoms while the plan stays.
LEMMA SkippedStays ==
    ASSUME PlanInv, UNCHANGED <<input, pruned>>, UNCHANGED plan \/ pruned = {},
           phase' \in {"finish", "done"}
    PROVE  PlanInv'
<1>1. store' = store /\ Partitions' = Partitions
  BY DEF store, Partitions
<1>2. Planned' /\ Skipped'
  BY <1>1 DEF PlanInv, Planned, Skipped
<1> QED
  BY <1>2 DEF PlanInv, Asked, Lowered

\* The steps up to the physical plan give each stage what it relies on.
LEMMA PlanningSteps ==
    ASSUME ScanInv, PlanInv, Translate \/ Lower \/ Validate \/ Build
    PROVE  PlanInv'
<1>1. /\ input \in Inputs /\ pruned = {} /\ UNCHANGED <<input, pruned>>
      /\ phase \in {"translate", "lower", "validate", "build"}
  BY DEF ScanInv, PlanInv, Skipped, Translate, Lower, Validate, Build
<1>2. CASE phase' = "done"
  BY <1>1, <1>2, SkippedStays
<1>3. ASSUME phase' \in {"lower", "validate", "build"}, Asked', Lowered'
      PROVE  PlanInv'
  BY <1>1, <1>3 DEF PlanInv, Planned, Skipped
<1>4. CASE Translate
  <2>1. PICK t : t = translate(input.source.words, input.source.now, input.source.tables)
    OBVIOUS
  <2>2. phase' = "done" \/ (t.ok /\ request' = t.request /\ phase' = "lower")
    <3>1. CASE t.ok
      BY <1>4, <2>1, <3>1 DEF Translate, End
    <3>2. CASE ~t.ok
      <4>1. phase' = "done"
        BY <1>4, <2>1, <3>2 DEF Translate, End
      <4> QED
        BY <4>1
    <3> QED
      BY <3>1, <3>2
  <2>3. phase = "translate" /\ IsSequence(input.source.words)
    BY <1>1, <1>4, InputsAreRequests DEF Translate, PlanInv, Asked
  <2>4. t.ok => IsRequest(t.request)
    BY <2>1, <2>3, QuestionsTranslate
  <2> QED
    BY <1>2, <1>3, <2>2, <2>4 DEF Asked, Lowered
<1>5. CASE Lower
  <2>1. PICK low : low = IF input.source.kind = "query" THEN [ok |-> TRUE, query |-> input.source.query]
                         ELSE to_ir(request)
    OBVIOUS
  <2>2. phase' = "done" \/ (low.ok /\ ir' = low.query /\ phase' = "validate")
    <3>1. CASE low.ok
      BY <1>5, <2>1, <3>1 DEF Lower, End
    <3>2. CASE ~low.ok
      <4>1. phase' = "done"
        BY <1>5, <2>1, <3>2 DEF Lower, End
      <4> QED
        BY <4>1
    <3> QED
      BY <3>1, <3>2
  <2>3. low.ok => IsQuery(low.query)
    <3>1. CASE input.source.kind = "query"
      BY <1>1, <2>1, <3>1, InputsAreRequests
    <3>2. CASE input.source.kind # "query"
      <4>1. IsRequest(request) /\ low = to_ir(request)
        BY <1>5, <2>1, <3>2 DEF Lower, PlanInv, Asked
      <4> QED
        BY <4>1, RequestsLower
    <3> QED
      BY <3>1, <3>2
  <2> QED
    BY <1>2, <1>3, <2>2, <2>3 DEF Asked, Lowered
<1>6. CASE Validate
  <2>1. PICK v : v = validate(ir, Table, limits.max_rows)
    OBVIOUS
  <2>2. phase' = "done" \/ (v.ok /\ ir' = v /\ phase' = "build")
    <3>1. CASE v.ok
      BY <1>6, <2>1, <3>1 DEF Validate, End
    <3>2. CASE ~v.ok
      <4>1. phase' = "done"
        BY <1>6, <2>1, <3>2 DEF Validate, End
      <4> QED
        BY <4>1
    <3> QED
      BY <3>1, <3>2
  <2>3. IsQuery(ir)
    BY <1>6 DEF Validate, PlanInv, Lowered
  <2>4. v.ok => \E query, m : IsQuery(query) /\ v = validate(query, Table, m) /\ v.ok
    BY <2>1, <2>3
  <2> QED
    BY <1>2, <1>3, <2>2, <2>4 DEF Asked, Lowered
<1>7. CASE Build
  <2>1. PICK p : p = build(ir)
    OBVIOUS
  <2>2. phase' = "done" \/ (p.ok /\ plan' = p /\ phase' = "execute")
    <3>1. CASE p.ok
      BY <1>7, <2>1, <3>1 DEF Build, End
    <3>2. CASE ~p.ok
      <4>1. phase' = "done"
        BY <1>7, <2>1, <3>2 DEF Build, End
      <4> QED
        BY <4>1
    <3> QED
      BY <3>1, <3>2
  <2>3. PICK query, m : IsQuery(query) /\ ir = validate(query, Table, m) /\ ir.ok
    BY <1>7 DEF Build, PlanInv, Lowered
  <2>4. p.ok => Prunes(p)
    BY <2>1, <2>3, PlanFits DEF Prunes
  <2>5. CASE p.ok /\ plan' = p /\ phase' = "execute"
    <3>1. Asked' /\ Lowered'
      BY <2>5 DEF Asked, Lowered
    <3>2. Planned' /\ Skipped'
      BY <1>1, <2>4, <2>5 DEF Planned, Skipped, Prunes
    <3> QED
      BY <3>1, <3>2 DEF PlanInv
  <2> QED
    BY <1>2, <2>2, <2>5
<1> QED
  BY <1>4, <1>5, <1>6, <1>7

\* A thread skips a segment of its snapshot that the statistics exclude.
LEMMA VisitSkips ==
    ASSUME ScanInv, PlanInv, NEW p \in DOMAIN scan, Visit(p)
    PROVE  PlanInv'
<1>1. phase = "scan" /\ scan[p].state = "visit" /\ UNCHANGED <<input, phase, plan>>
  BY DEF Visit, Running
<1>2. p \in Partitions /\ IsSnapshot(store[p]) /\ IsThread(scan[p], Len(Sources(store[p])))
      /\ Len(Sources(store[p])) \in Nat
  BY <1>1, ThreadFacts
<1>3. store' = store /\ Partitions' = Partitions
  BY <1>1 DEF store, Partitions
<1>4. PICK at : at = scan[p].at
  OBVIOUS
<1>5. at \in 1..Len(Sources(store[p]))
  BY <1>1, <1>2, <1>4 DEF IsThread, Visit
<1>6. PICK source : source = Sources(store[p])[at]
  OBVIOUS
<1>7. source.kind = "segment" => at \in DOMAIN store[p].segments /\ source.file = store[p].segments[at]
  BY <1>2, <1>5, <1>6, SourcesFacts
<1>8. \/ UNCHANGED pruned
      \/ /\ source.kind = "segment" /\ can_skip(source.file, plan.pruning)
         /\ pruned' = pruned \cup {<<p, at>>}
  <2>1. PICK skip \in BOOLEAN : skip = (source.kind = "segment" /\ can_skip(source.file, plan.pruning))
    OBVIOUS
  <2>2. SourceAt(p) = source
    BY <1>4, <1>6 DEF SourceAt
  <2>3. UNCHANGED pruned \/ (skip /\ pruned' = pruned \cup {<<p, at>>})
    <3>1. CASE late
      <4>1. UNCHANGED pruned
        BY <3>1 DEF Visit
      <4> QED
        BY <4>1
    <3>2. CASE ~late /\ skip
      BY <1>4, <2>1, <2>2, <3>2 DEF Visit
    <3>3. CASE ~late /\ ~skip
      <4>1. UNCHANGED pruned
        BY <2>1, <2>2, <3>3 DEF Visit
      <4> QED
        BY <4>1
    <3> QED
      BY <3>1, <3>2, <3>3
  <2> QED
    BY <2>1, <2>3
<1>9. Skipped'
  <2> SUFFICES ASSUME NEW s \in pruned'
               PROVE  /\ s[1] \in Partitions /\ s[2] \in DOMAIN store[s[1]].segments
                      /\ can_skip(store[s[1]].segments[s[2]], plan.pruning)
    BY <1>1, <1>3 DEF Skipped
  <2>1. CASE s \in pruned
    BY <2>1 DEF PlanInv, Skipped
  <2>2. CASE s \notin pruned
    <3>1. s = <<p, at>> /\ source.kind = "segment" /\ can_skip(source.file, plan.pruning)
      BY <1>8, <2>2
    <3> QED
      BY <1>2, <1>7, <3>1
  <2> QED
    BY <2>1, <2>2
<1>10. Planned'
  BY <1>1 DEF PlanInv, Planned, Prunes
<1>11. Asked' /\ Lowered'
  BY <1>1 DEF Asked, Lowered
<1> QED
  BY <1>9, <1>10, <1>11 DEF PlanInv

\* The other steps skip nothing and leave the plan alone.
LEMMA OthersSkip ==
    ASSUME ScanInv, PlanInv,
           \/ MetadataCount \/ Spawn \/ Collect \/ Finish \/ Clock \/ UNCHANGED vars
           \/ \E p \in DOMAIN scan : Read(p) \/ ReadFails(p) \/ ScanEnds(p)
    PROVE  PlanInv'
<1>1. CASE UNCHANGED vars
  <2>1. UNCHANGED <<input, phase, request, ir, plan, pruned>>
    BY <1>1 DEF vars
  <2>2. store' = store /\ Partitions' = Partitions
    BY <2>1 DEF store, Partitions
  <2> QED
    BY <2>1, <2>2 DEF PlanInv, Asked, Lowered, Planned, Prunes, Skipped
<1>2. CASE MetadataCount \/ Collect \/ Finish
  <2>1. UNCHANGED <<input, pruned, plan>> /\ phase' \in {"finish", "done"}
    BY <1>2, Zenon DEF MetadataCount, Collect, Collected, Finish, End
  <2> QED
    BY <2>1, SkippedStays
<1>3. CASE Spawn \/ Clock \/ \E p \in DOMAIN scan : Read(p) \/ ReadFails(p) \/ ScanEnds(p)
  <2>1. /\ UNCHANGED <<input, plan, pruned>> /\ phase \in {"execute", "scan", "finish"}
        /\ phase' = phase \/ (phase = "execute" /\ phase' = "scan")
    <3>1. CASE Spawn
      BY <3>1 DEF Spawn
    <3>2. CASE Clock
      <4>1. phase \in {"scan", "finish"}
        BY <3>2 DEF Clock
      <4>2. input' = input /\ phase' = phase /\ plan' = plan /\ pruned' = pruned
        BY <3>2 DEF Clock
      <4> QED
        BY <4>1, <4>2
    <3>3. CASE \E p \in DOMAIN scan : Read(p) \/ ReadFails(p) \/ ScanEnds(p)
      BY <3>3 DEF Read, ReadFails, ScanEnds, Running
    <3> QED
      BY <1>3, <3>1, <3>2, <3>3
  <2>2. store' = store /\ Partitions' = Partitions
    BY <2>1 DEF store, Partitions
  <2>3. Asked' /\ Lowered'
    BY <2>1 DEF Asked, Lowered
  <2>4. Planned'
    BY <2>1 DEF PlanInv, Planned, Prunes
  <2>5. Skipped'
    BY <2>1, <2>2 DEF PlanInv, Skipped
  <2> QED
    BY <2>3, <2>4, <2>5 DEF PlanInv
<1> QED
  BY <1>1, <1>2, <1>3

\* Some atom of the plan compares a JSON column with a constant.
ComparesJson ==
    \E i \in DOMAIN plan.pruning :
        /\ plan.pruning[i].op \notin {"isnull", "isnotnull"}
        /\ Column(Table, plan.pruning[i].column).type = "json"

\* The segments that were skipped hold no row of which the filter is true.
LEMMA SkippedIsSound ==
    ASSUME ScanInv, PlanInv, ~ComparesJson
    PROVE  PruningIsSound
<1>1. SUFFICES ASSUME NEW s \in pruned
               PROVE  LET segment == store[s[1]].segments[s[2]]
                          all == [i \in DOMAIN Table |-> Table[i].name]
                          rows == project_with_backfill(segment.rows, all)
                      IN  \A i \in DOMAIN rows :
                              i - 1 \in segment.suppressed \/ ~IsTrue(plan.filter, rows[i])
  BY DEF PruningIsSound
<1>2. PICK segment : segment = store[s[1]].segments[s[2]]
  OBVIOUS
<1>3. PICK all : all = [i \in DOMAIN Table |-> Table[i].name]
  OBVIOUS
<1>4. PICK rows : rows = project_with_backfill(segment.rows, all)
  OBVIOUS
<1>5. ASSUME NEW i \in DOMAIN rows PROVE ~IsTrue(plan.filter, rows[i])
  <2>1. IsSnapshot(store[s[1]]) /\ s[2] \in DOMAIN store[s[1]].segments
        /\ can_skip(segment, plan.pruning)
    BY <1>1, <1>2, StoreFacts DEF ScanInv, PlanInv, Skipped, store, Partitions
  <2>2. IsSegment(segment)
    BY <1>2, <2>1 DEF IsSnapshot, ToSet
  <2>3. i \in DOMAIN segment.rows
    BY <1>4, <1>5 DEF project_with_backfill
  <2>4. Prunes(plan)
    BY <1>1 DEF PlanInv, Planned
  <2>5. plan.filter # NoFilter
    <3> SUFFICES ASSUME plan.filter = NoFilter PROVE FALSE
      OBVIOUS
    <3>1. plan.pruning = <<>> /\ segment.rows # <<>>
      BY <2>3, <2>4 DEF Prunes
    <3> QED
      BY <2>1, <3>1 DEF can_skip
  <2>6. plan.pruning = extract_prune_atoms(plan.filter) /\ Fits(plan.filter, Table)
    BY <2>4, <2>5 DEF Prunes
  <2>7. ToSet(all) = Names(Table) /\ DOMAIN segment.stats \subseteq Names(Table)
    BY <1>3, <2>2 DEF ToSet, Names, IsSegment
  <2>8. \A c \in DOMAIN segment.stats : rows[i][c] = segment.rows[i][c]
    <3>1. rows[i] = [n \in ToSet(all) |-> IF n \in DOMAIN segment.rows[i] THEN segment.rows[i][n] ELSE Null]
      BY <1>4, <2>3 DEF project_with_backfill
    <3>2. \A c \in DOMAIN segment.stats : c \in DOMAIN segment.rows[i]
      BY <2>2, <2>3, StatisticsCover
    <3> QED
      BY <2>7, <3>1, <3>2
  <2>9. \A k \in DOMAIN extract_prune_atoms(plan.filter) :
           LET a == extract_prune_atoms(plan.filter)[k]
           IN  a.op \notin {"isnull", "isnotnull"} => Column(Table, a.column).type # "json"
    BY <2>6 DEF ComparesJson
  <2>10. can_skip(segment, extract_prune_atoms(plan.filter))
    BY <2>1, <2>6
  <2> QED
    BY <2>2, <2>3, <2>6, <2>8, <2>9, <2>10, SkippedHasNone
<1> QED
  BY <1>2, <1>3, <1>4, <1>5

\* Whatever was asked, of whatever contents: a segment that scan_partition
\* skips on its statistics (can_skip) holds no row of which the filter is
\* true, unless the plan compares a JSON column, where the run json_pruning
\* finds that it may.
THEOREM SkippedSegmentsHoldNothing == Spec => [](ComparesJson \/ PruningIsSound)
<1>1. ScanInv /\ PlanInv /\ [Next]_vars => ScanInv' /\ PlanInv'
  <2> SUFFICES ASSUME ScanInv, PlanInv, [Next]_vars PROVE ScanInv' /\ PlanInv'
    OBVIOUS
  <2>1. ScanInv'
    BY ScanStep
  <2>2. PlanInv'
    <3>1. CASE Coordinator \/ Clock \/ UNCHANGED vars
      BY <3>1, PlanningSteps, OthersSkip DEF Coordinator
    <3>2. ASSUME NEW p \in DOMAIN scan, Thread(p) \/ ReadFails(p) PROVE PlanInv'
      BY <3>2, VisitSkips, OthersSkip DEF Thread
    <3> QED
      BY <3>1, <3>2 DEF Next, Ended
  <2> QED
    BY <2>1, <2>2
<1>2. ScanInv /\ PlanInv => ComparesJson \/ PruningIsSound
  BY SkippedIsSound
<1> QED
  BY <1>1, <1>2, ScanStarts, PlanStarts, PTL DEF Spec
=============================================================================
