-------------------------- MODULE SegmentSetProofs --------------------------
(***************************************************************************)
(* Proofs about the compaction policy over a long run of flushes,          *)
(* suppressions and merges (module SegmentSet): no merge exceeds the       *)
(* limits, and every merge is progress.  The sums of the model are folds   *)
(* over finite sets; the first section relates them to functions that are  *)
(* sums in every order.                                                    *)
(***************************************************************************)
EXTENDS SegmentSet, FiniteSetTheorems, WellFoundedInduction, TLAPS

-----------------------------------------------------------------------------
(* Sums over finite sets.                                                  *)

\* A nonempty set of naturals has a least element.
LEMMA LeastExists ==
    ASSUME NEW S, S \subseteq Nat, S # {}
    PROVE  \E n \in S : \A k \in S : n <= k
<1>1. PICK n \in S : \A k \in S : ~(<<k, n>> \in OpToRel(<, Nat))
  BY NatLessThanWellFounded, WFMin, Zenon
<1>2. ASSUME NEW k \in S PROVE n <= k
  <2>1. <<k, n>> \in Nat \X Nat
    OBVIOUS
  <2> QED
    BY <1>1, <2>1 DEF OpToRel
<1> QED
  BY <1>2

\* A finite set without one of its elements has one less.
LEMMA OneLess ==
    ASSUME NEW s, IsFiniteSet(s), NEW x \in s
    PROVE  /\ IsFiniteSet(s \ {x})
           /\ Cardinality(s) \in Nat /\ Cardinality(s \ {x}) \in Nat
           /\ Cardinality(s \ {x}) = Cardinality(s) - 1
<1>1. IsFiniteSet(s \ {x})
  BY FS_RemoveElement
<1>2. Cardinality(s) \in Nat /\ Cardinality(s \ {x}) \in Nat
  BY <1>1, FS_CardinalityType
<1>3. Cardinality(s \ {x}) = Cardinality(s) - 1
  BY FS_RemoveElement
<1> QED
  BY <1>1, <1>2, <1>3

\* m gives every part of S the sum of the weights in it, whichever element is
\* taken first.
IsMeasure(m, w, S) ==
    /\ m \in [SUBSET S -> Nat]
    /\ m[{}] = 0
    /\ \A s \in SUBSET S : \A x \in s : m[s] = w[x] + m[s \ {x}]

\* Every finite set with weights has such sums: a smallest one without would
\* get them from itself without an element.
LEMMA MeasureExists ==
    ASSUME NEW S, IsFiniteSet(S), NEW w \in [S -> Nat]
    PROVE  \E m : IsMeasure(m, w, S)
<1> DEFINE Bad == { n \in Nat : \E R \in SUBSET S : Cardinality(R) = n /\ ~\E m : IsMeasure(m, w, R) }
<1>1. ASSUME Bad # {} PROVE FALSE
  <2>1. PICK n \in Bad : \A k \in Bad : n <= k
    BY <1>1, LeastExists, Zenon
  <2>2. PICK R \in SUBSET S : Cardinality(R) = n /\ ~\E m : IsMeasure(m, w, R)
    BY <2>1
  <2>3. IsFiniteSet(R)
    BY <2>2, FS_Subset
  <2>4. CASE R = {}
    <3>1. IsMeasure([s \in SUBSET R |-> 0], w, R)
      BY <2>4 DEF IsMeasure
    <3> QED
      BY <2>2, <3>1
  <2>5. CASE R # {}
    <3>1. PICK y : y \in R
      BY <2>5
    <3>2. IsFiniteSet(R \ {y}) /\ Cardinality(R \ {y}) = n - 1 /\ n - 1 \in Nat
      BY <2>2, <2>3, <3>1, OneLess
    <3>3. n - 1 \notin Bad
      BY <2>1, <3>2
    <3>4. PICK k : IsMeasure(k, w, R \ {y})
      BY <2>2, <3>2, <3>3
    <3> DEFINE m == [s \in SUBSET R |-> k[s \ {y}] + IF y \in s THEN w[y] ELSE 0]
    <3>5. \A s \in SUBSET R : s \ {y} \in SUBSET (R \ {y}) /\ k[s \ {y}] \in Nat
      BY <3>4 DEF IsMeasure
    <3>6. w[y] \in Nat /\ \A x \in R : w[x] \in Nat
      BY <2>2, <3>1
    <3>7. m \in [SUBSET R -> Nat]
      BY <3>5, <3>6
    <3>8. m[{}] = 0
      BY <3>4 DEF IsMeasure
    <3>9. ASSUME NEW s \in SUBSET R, NEW x \in s
          PROVE  m[s] = w[x] + m[s \ {x}]
      <4>1. CASE x = y
        <5>1. (s \ {x}) \ {y} = s \ {y}
          BY <4>1
        <5>2. m[s] = k[s \ {y}] + w[y] /\ m[s \ {x}] = k[s \ {y}] + 0
          BY <4>1, <5>1
        <5>3. k[s \ {y}] \in Nat
          BY <3>5
        <5> HIDE DEF m
        <5> QED
          BY <3>6, <4>1, <5>2, <5>3
      <4>2. CASE x # y
        <5>1. x \in s \ {y} /\ (s \ {x}) \ {y} = (s \ {y}) \ {x} /\ (y \in s <=> y \in s \ {x})
          BY <4>2
        <5>2. k[s \ {y}] = w[x] + k[(s \ {y}) \ {x}]
          BY <3>4, <3>5, <5>1 DEF IsMeasure
        <5>3. k[(s \ {x}) \ {y}] \in Nat
          BY <3>5
        <5>4. /\ m[s] = k[s \ {y}] + IF y \in s THEN w[y] ELSE 0
              /\ m[s \ {x}] = k[(s \ {x}) \ {y}] + IF y \in s \ {x} THEN w[y] ELSE 0
          OBVIOUS
        <5>5. k[(s \ {x}) \ {y}] = k[(s \ {y}) \ {x}] /\ w[x] \in Nat
          BY <3>6, <5>1
        <5> HIDE DEF m
        <5> QED
          BY <3>6, <5>1, <5>2, <5>3, <5>4, <5>5
      <4> QED
        BY <4>1, <4>2
    <3> HIDE DEF m
    <3>10. IsMeasure(m, w, R)
      BY <3>7, <3>8, <3>9 DEF IsMeasure
    <3> QED
      BY <2>2, <3>10
  <2> QED
    BY <2>4, <2>5
<1>2. Cardinality(S) \in Nat /\ S \in SUBSET S
  BY FS_CardinalityType
<1>3. Cardinality(S) \notin Bad
  BY <1>1
<1> QED
  BY <1>2, <1>3

\* The recursive function of the fold over the weights w of S.
IsFold(it, w, S) ==
    it = [s \in SUBSET S |->
            IF s = {} THEN 0 ELSE w[CHOOSE x \in s : TRUE] + it[s \ {CHOOSE x \in s : TRUE}]]

\* It exists, and any one of them gives the sum.
LEMMA FoldIsMeasure ==
    ASSUME NEW S, IsFiniteSet(S), NEW w, NEW m, IsMeasure(m, w, S)
    PROVE  /\ IsFold(m, w, S)
           /\ \A it : IsFold(it, w, S) => it[S] = m[S]
<1>1. ASSUME NEW s \in SUBSET S, s # {}
      PROVE  (CHOOSE x \in s : TRUE) \in s
  BY <1>1
<1>2. IsFold(m, w, S)
  <2>1. ASSUME NEW s \in SUBSET S
        PROVE  m[s] = IF s = {} THEN 0 ELSE w[CHOOSE x \in s : TRUE] + m[s \ {CHOOSE x \in s : TRUE}]
    BY <1>1 DEF IsMeasure
  <2>2. m = [s \in SUBSET S |-> m[s]]
    BY DEF IsMeasure
  <2> QED
    BY <2>1, <2>2 DEF IsFold
<1>3. ASSUME NEW it, IsFold(it, w, S)
      PROVE  it[S] = m[S]
  <2> DEFINE Bad == { n \in Nat : \E s \in SUBSET S : Cardinality(s) = n /\ it[s] # m[s] }
  <2>1. ASSUME NEW s \in SUBSET S
        PROVE  it[s] = IF s = {} THEN 0 ELSE w[CHOOSE x \in s : TRUE] + it[s \ {CHOOSE x \in s : TRUE}]
    <3> DEFINE body(t) == IF t = {} THEN 0 ELSE w[CHOOSE x \in t : TRUE] + it[t \ {CHOOSE x \in t : TRUE}]
    <3>1. it = [t \in SUBSET S |-> body(t)]
      BY <1>3 DEF IsFold
    <3> HIDE DEF body
    <3>2. it[s] = body(s)
      BY <3>1
    <3> QED
      BY <3>2 DEF body
  <2>2. ASSUME Bad # {} PROVE FALSE
    <3>1. PICK n \in Bad : \A k \in Bad : n <= k
      BY <2>2, LeastExists, Zenon
    <3>2. PICK s \in SUBSET S : Cardinality(s) = n /\ it[s] # m[s]
      BY <3>1
    <3>3. s # {}
      BY <2>1, <3>2 DEF IsMeasure
    <3>4. PICK x : x = CHOOSE y \in s : TRUE
      OBVIOUS
    <3>5. x \in s
      BY <3>3, <3>4
    <3>6. IsFiniteSet(s)
      BY FS_Subset
    <3>7. Cardinality(s \ {x}) = n - 1 /\ n - 1 \in Nat
      BY <3>2, <3>5, <3>6, OneLess
    <3>8. n - 1 \notin Bad
      BY <3>1, <3>7
    <3>9. it[s \ {x}] = m[s \ {x}]
      BY <3>7, <3>8
    <3>10. it[s] = w[x] + it[s \ {x}]
      BY <2>1, <3>3, <3>4
    <3>11. m[s] = w[x] + m[s \ {x}]
      BY <3>5 DEF IsMeasure
    <3> QED
      BY <3>2, <3>9, <3>10, <3>11
  <2>3. Cardinality(S) \in Nat /\ Cardinality(S) \notin Bad
    BY <2>2, FS_CardinalityType
  <2> QED
    BY <2>3
<1> QED
  BY <1>2, <1>3

\* A measure restricted to the parts of a part is one.
LEMMA MeasureOfPart ==
    ASSUME NEW S, NEW w, NEW m, IsMeasure(m, w, S), NEW U \in SUBSET S, NEW v,
           \A x \in U : v[x] = w[x]
    PROVE  IsMeasure([s \in SUBSET U |-> m[s]], v, U)
<1> DEFINE k == [s \in SUBSET U |-> m[s]]
<1>1. SUBSET U \subseteq SUBSET S
  OBVIOUS
<1>2. k \in [SUBSET U -> Nat] /\ k[{}] = 0
  BY <1>1 DEF IsMeasure
<1>3. ASSUME NEW s \in SUBSET U, NEW x \in s
      PROVE  k[s] = v[x] + k[s \ {x}]
  <2>1. k[s] = m[s] /\ k[s \ {x}] = m[s \ {x}] /\ v[x] = w[x]
    OBVIOUS
  <2>2. m[s] = w[x] + m[s \ {x}]
    BY <1>1 DEF IsMeasure
  <2> QED
    BY <2>1, <2>2
<1> HIDE DEF k
<1>4. IsMeasure(k, v, U)
  BY <1>2, <1>3 DEF IsMeasure
<1> QED
  BY <1>4 DEF k

\* The sum of two parts that share nothing.
LEMMA MeasureAdds ==
    ASSUME NEW S, IsFiniteSet(S), NEW w, \A x \in S : w[x] \in Nat, NEW m, IsMeasure(m, w, S),
           NEW U \in SUBSET S, NEW V \in SUBSET S, U \cap V = {}
    PROVE  m[U \cup V] = m[U] + m[V]
<1> DEFINE Bad == { n \in Nat : \E s \in SUBSET V : Cardinality(s) = n /\ m[U \cup s] # m[U] + m[s] }
<1>1. ASSUME Bad # {} PROVE FALSE
  <2>1. PICK n \in Bad : \A k \in Bad : n <= k
    BY <1>1, LeastExists, Zenon
  <2>2. PICK s \in SUBSET V : Cardinality(s) = n /\ m[U \cup s] # m[U] + m[s]
    BY <2>1
  <2>3. m[U] \in Nat /\ m[s] \in Nat
    BY DEF IsMeasure
  <2>4. s # {}
    <3>1. SUFFICES ASSUME s = {} PROVE FALSE
      OBVIOUS
    <3>2. U \cup s = U /\ m[s] = 0
      BY <3>1 DEF IsMeasure
    <3>3. m[U] + m[s] = m[U]
      BY <2>3, <3>2
    <3>4. m[U \cup s] = m[U]
      BY <3>2
    <3> QED
      BY <2>2, <3>3, <3>4
  <2>5. PICK x : x \in s
    BY <2>4
  <2>6. IsFiniteSet(s)
    BY FS_Subset
  <2>7. Cardinality(s \ {x}) = n - 1 /\ n - 1 \in Nat
    BY <2>2, <2>5, <2>6, OneLess
  <2>8. n - 1 \notin Bad
    <3>1. n \in Nat /\ ~(n <= n - 1)
      BY <2>1
    <3> HIDE DEF Bad
    <3> QED
      BY <2>1, <3>1
  <2>9. m[U \cup (s \ {x})] = m[U] + m[s \ {x}]
    BY <2>7, <2>8
  <2>10. (U \cup s) \ {x} = U \cup (s \ {x}) /\ x \in U \cup s /\ U \cup s \in SUBSET S
    BY <2>5
  <2>11. m[U \cup s] = w[x] + m[U \cup (s \ {x})]
    BY <2>10 DEF IsMeasure
  <2>12. m[s] = w[x] + m[s \ {x}] /\ m[s \ {x}] \in Nat /\ w[x] \in Nat
    BY <2>5 DEF IsMeasure
  <2> QED
    BY <2>2, <2>3, <2>9, <2>11, <2>12
<1>2. IsFiniteSet(V) /\ Cardinality(V) \in Nat
  BY FS_Subset, FS_CardinalityType
<1>3. Cardinality(V) \notin Bad
  BY <1>1
<1> QED
  BY <1>2, <1>3

\* The model's sums, of sizes, of suppressed rows and of live rows, are these.
LEMMA SumsAreMeasures ==
    ASSUME NEW S, IsFiniteSet(S), NEW w, NEW m, IsMeasure(m, w, S), NEW U \in SUBSET S
    PROVE  /\ (\A f \in U : w[f] = f.bytes) => MapThenSumSet(Bytes, U) = m[U]
           /\ (\A f \in U : w[f] = f.suppressed) => MapThenSumSet(Suppressed, U) = m[U]
           /\ (\A f \in U : w[f] = f.rows - f.suppressed) => MapThenSumSet(Live, U) = m[U]
<1> DEFINE k == [s \in SUBSET U |-> m[s]]
<1>1. IsFiniteSet(U) /\ k[U] = m[U]
  BY FS_Subset
<1>2. IsMeasure(k, w, U)
  BY MeasureOfPart
<1> HIDE DEF k
<1>3. IsFold(k, w, U) /\ \A it : IsFold(it, w, U) => it[U] = k[U]
  BY <1>1, <1>2, FoldIsMeasure
<1>4. \A s \in SUBSET U : s # {} => (CHOOSE x \in s : TRUE) \in U
  OBVIOUS
<1>5. ASSUME \A f \in U : w[f] = f.bytes
      PROVE  MapThenSumSet(Bytes, U) = m[U]
  <2>1. \A it : IsFold(it, w, U) <=>
          it = [s \in SUBSET U |->
                IF s = {} THEN 0 ELSE (CHOOSE x \in s : TRUE).bytes + it[s \ {CHOOSE x \in s : TRUE}]]
    BY <1>4, <1>5 DEF IsFold
  <2>2. MapThenSumSet(Bytes, U) =
          (CHOOSE it : it = [s \in SUBSET U |->
                IF s = {} THEN 0 ELSE (CHOOSE x \in s : TRUE).bytes + it[s \ {CHOOSE x \in s : TRUE}]])[U]
    BY DEF MapThenSumSet, MapThenFoldSet, Bytes
  <2> QED
    BY <1>1, <1>3, <2>1, <2>2
<1>6. ASSUME \A f \in U : w[f] = f.suppressed
      PROVE  MapThenSumSet(Suppressed, U) = m[U]
  <2>1. \A it : IsFold(it, w, U) <=>
          it = [s \in SUBSET U |->
                IF s = {} THEN 0 ELSE (CHOOSE x \in s : TRUE).suppressed + it[s \ {CHOOSE x \in s : TRUE}]]
    BY <1>4, <1>6 DEF IsFold
  <2>2. MapThenSumSet(Suppressed, U) =
          (CHOOSE it : it = [s \in SUBSET U |->
                IF s = {} THEN 0 ELSE (CHOOSE x \in s : TRUE).suppressed + it[s \ {CHOOSE x \in s : TRUE}]])[U]
    BY DEF MapThenSumSet, MapThenFoldSet, Suppressed
  <2> QED
    BY <1>1, <1>3, <2>1, <2>2
<1>7. ASSUME \A f \in U : w[f] = f.rows - f.suppressed
      PROVE  MapThenSumSet(Live, U) = m[U]
  <2>1. \A it : IsFold(it, w, U) <=>
          it = [s \in SUBSET U |->
                IF s = {} THEN 0 ELSE ((CHOOSE x \in s : TRUE).rows - (CHOOSE x \in s : TRUE).suppressed) + it[s \ {CHOOSE x \in s : TRUE}]]
    BY <1>4, <1>7 DEF IsFold
  <2>2. MapThenSumSet(Live, U) =
          (CHOOSE it : it = [s \in SUBSET U |->
                IF s = {} THEN 0 ELSE ((CHOOSE x \in s : TRUE).rows - (CHOOSE x \in s : TRUE).suppressed) + it[s \ {CHOOSE x \in s : TRUE}]])[U]
    BY DEF MapThenSumSet, MapThenFoldSet, Live
  <2> QED
    BY <1>1, <1>3, <2>1, <2>2
<1> QED
  BY <1>5, <1>6, <1>7

-----------------------------------------------------------------------------
(* The policy: what it takes is the beginning of an order.                 *)

Fact == [id : Nat, rows : Nat, bytes : Nat, suppressed : Nat]

\* A finite set of facts with an id each.
IsFactSet(D) ==
    /\ D \subseteq Fact /\ IsFiniteSet(D)
    /\ \A f, g \in D : f.id = g.id => f = g

\* ahead gives what comes before each element in a strict total order.
IsOrder(ahead, D) ==
    /\ DOMAIN ahead = D
    /\ \A f \in D : ahead[f] \subseteq D /\ f \notin ahead[f]
    /\ \A f, g \in D : f = g \/ f \in ahead[g] \/ g \in ahead[f]
    /\ \A f, g \in D : f \in ahead[g] => ahead[f] \subseteq ahead[g]

\* Age and size, with ties by age, are such orders.
LEMMA BothAreOrders ==
    ASSUME NEW D, IsFactSet(D)
    PROVE  IsOrder(ByAge(D), D) /\ IsOrder(BySize(D), D)
<1>1. \A f \in D : f.id \in Nat /\ f.bytes \in Nat
  BY DEF IsFactSet, Fact
<1>2. IsOrder(ByAge(D), D)
  <2>1. DOMAIN ByAge(D) = D /\ \A f \in D : ByAge(D)[f] = { g \in D : g.id < f.id }
    BY DEF ByAge
  <2>2. \A f, g \in D : f = g \/ f.id < g.id \/ g.id < f.id
    BY <1>1 DEF IsFactSet
  <2>3. \A f, g, h \in D : h.id < f.id /\ f.id < g.id => h.id < g.id
    BY <1>1
  <2> QED
    BY <1>1, <2>1, <2>2, <2>3 DEF IsOrder
<1>3. IsOrder(BySize(D), D)
  <2> DEFINE Before(g, f) == g.bytes < f.bytes \/ (g.bytes = f.bytes /\ g.id < f.id)
  <2>1. DOMAIN BySize(D) = D /\ \A f \in D : BySize(D)[f] = { g \in D : Before(g, f) }
    BY DEF BySize
  <2>2. \A f, g \in D : f = g \/ Before(f, g) \/ Before(g, f)
    BY <1>1 DEF IsFactSet
  <2>3. \A f, g, h \in D : Before(h, f) /\ Before(f, g) => Before(h, g)
    BY <1>1
  <2>4. \A f \in D : ~Before(f, f)
    BY <1>1
  <2> HIDE DEF Before
  <2> QED
    BY <2>1, <2>2, <2>3, <2>4 DEF IsOrder
<1> QED
  BY <1>2, <1>3

\* What is taken lies in one element and what is ahead of it.
LEMMA TakenIsPrefix ==
    ASSUME NEW D, IsFiniteSet(D), NEW ahead, IsOrder(ahead, D),
           TakeWhileAffordable(ahead) # {}
    PROVE  \E f \in TakeWhileAffordable(ahead) :
              TakeWhileAffordable(ahead) \subseteq ahead[f] \cup {f}
<1> DEFINE taken == TakeWhileAffordable(ahead)
           Room == { n \in Nat : \E f \in taken : n = MaxInputs - Cardinality(ahead[f]) }
<1>1. ASSUME NEW f \in taken
      PROVE  /\ f \in D /\ IsFiniteSet(ahead[f]) /\ Cardinality(ahead[f]) \in Nat
             /\ MaxInputs - Cardinality(ahead[f]) \in Nat
  <2>1. f \in D /\ Cardinality(ahead[f]) < MaxInputs
    BY DEF TakeWhileAffordable, IsOrder
  <2>2. IsFiniteSet(ahead[f])
    BY <2>1, FS_Subset DEF IsOrder
  <2>3. Cardinality(ahead[f]) \in Nat
    BY <2>2, FS_CardinalityType
  <2> QED
    BY <2>1, <2>2, <2>3, PolicyAssumption
<1>2. Room \subseteq Nat /\ Room # {}
  BY <1>1
<1>3. PICK n \in Room : \A k \in Room : n <= k
  BY <1>2, LeastExists, Zenon
<1>4. PICK f \in taken : n = MaxInputs - Cardinality(ahead[f])
  BY <1>3
<1>5. ASSUME NEW g \in taken, g # f, g \notin ahead[f]
      PROVE  FALSE
  <2>1. f \in ahead[g] /\ ahead[f] \subseteq ahead[g] /\ f \notin ahead[f]
    BY <1>1, <1>5 DEF IsOrder
  <2>2. ahead[f] \subseteq ahead[g] \ {f}
    BY <2>1
  <2>3. IsFiniteSet(ahead[g] \ {f}) /\ Cardinality(ahead[g] \ {f}) = Cardinality(ahead[g]) - 1
    BY <1>1, <2>1, OneLess
  <2>4. Cardinality(ahead[f]) <= Cardinality(ahead[g] \ {f})
    BY <2>2, <2>3, FS_Subset
  <2>5. MaxInputs - Cardinality(ahead[g]) \in Room
    BY <1>1
  <2>6. n <= MaxInputs - Cardinality(ahead[g])
    BY <1>3, <2>5
  <2> QED
    BY <1>1, <1>4, <2>3, <2>4, <2>6, PolicyAssumption
<1> QED
  BY <1>5

\* So it respects both limits of a merge.
LEMMA TakenIsBounded ==
    ASSUME NEW D, IsFactSet(D), NEW ahead, IsOrder(ahead, D)
    PROVE  /\ TakeWhileAffordable(ahead) \subseteq D
           /\ Cardinality(TakeWhileAffordable(ahead)) <= MaxInputs
           /\ MapThenSumSet(Bytes, TakeWhileAffordable(ahead)) <= MaxInputBytes
<1> DEFINE taken == TakeWhileAffordable(ahead)
           w == [f \in D |-> f.bytes]
<1>1. IsFiniteSet(D) /\ w \in [D -> Nat] /\ \A f \in D : w[f] = f.bytes
  BY DEF IsFactSet, Fact
<1> HIDE DEF w
<1>2. taken \subseteq D
  BY DEF TakeWhileAffordable, IsOrder
<1>3. PICK m : IsMeasure(m, w, D)
  BY <1>1, MeasureExists
<1>4. ASSUME NEW U \in SUBSET D
      PROVE  MapThenSumSet(Bytes, U) = m[U] /\ m[U] \in Nat
  <2>1. \A f \in U : w[f] = f.bytes
    BY <1>1
  <2>2. m[U] \in Nat
    BY <1>3 DEF IsMeasure
  <2> QED
    BY <1>1, <1>3, <2>1, <2>2, SumsAreMeasures
<1>5. MaxInputs \in Nat /\ MaxInputBytes \in Nat
  BY PolicyAssumption
<1>6. CASE taken = {}
  <2>1. m[{}] = 0 /\ MapThenSumSet(Bytes, taken) = m[{}]
    BY <1>3, <1>4, <1>6 DEF IsMeasure
  <2>2. Cardinality(taken) = 0
    BY <1>6, FS_EmptySet
  <2> HIDE DEF taken
  <2>3. Cardinality(taken) <= MaxInputs /\ MapThenSumSet(Bytes, taken) <= MaxInputBytes
    BY <1>5, <2>1, <2>2
  <2> QED
    BY <1>2, <2>3 DEF taken
<1>7. CASE taken # {}
  <2>1. PICK f \in taken : taken \subseteq ahead[f] \cup {f}
    BY <1>1, <1>7, TakenIsPrefix
  <2>2. /\ f \in D /\ ahead[f] \subseteq D /\ f \notin ahead[f]
        /\ Cardinality(ahead[f]) < MaxInputs
        /\ MapThenSumSet(Bytes, ahead[f] \cup {f}) <= MaxInputBytes
    BY <1>2, <2>1 DEF IsOrder, TakeWhileAffordable
  <2> DEFINE all == ahead[f] \cup {f}
  <2> HIDE DEF taken
  <2>3. all \in SUBSET D /\ taken \in SUBSET D /\ all \ taken \in SUBSET D
        /\ all = taken \cup (all \ taken) /\ taken \cap (all \ taken) = {}
    BY <1>2, <2>1, <2>2
  <2>4. m[all] = m[taken] + m[all \ taken]
    <3> HIDE DEF all
    <3>1. \A g \in D : w[g] \in Nat
      BY <1>1
    <3>2. m[taken \cup (all \ taken)] = m[taken] + m[all \ taken]
      BY <1>1, <1>3, <2>3, <3>1, MeasureAdds
    <3> QED
      BY <2>3, <3>2
  <2>5. m[taken] <= m[all]
    BY <1>4, <2>3, <2>4
  <2>6. IsFiniteSet(ahead[f]) /\ IsFiniteSet(all) /\ Cardinality(ahead[f]) \in Nat
    BY <1>1, <2>2, <2>3, FS_Subset, FS_CardinalityType
  <2>7. Cardinality(all) = Cardinality(ahead[f]) + 1
    BY <2>2, <2>6, FS_AddElement
  <2>8. Cardinality(taken) <= Cardinality(all) /\ Cardinality(taken) \in Nat
    BY <2>1, <2>6, FS_Subset, FS_CardinalityType
  <2>9. Cardinality(taken) <= MaxInputs
    BY <1>5, <2>2, <2>6, <2>7, <2>8
  <2>10. MapThenSumSet(Bytes, taken) = m[taken] /\ MapThenSumSet(Bytes, all) = m[all]
         /\ m[taken] \in Nat /\ m[all] \in Nat
    BY <1>4, <2>3
  <2>11. MapThenSumSet(Bytes, taken) <= MaxInputBytes
    BY <1>5, <2>2, <2>5, <2>10
  <2> QED
    BY <1>2, <2>9, <2>11 DEF taken
<1> QED
  BY <1>6, <1>7

-----------------------------------------------------------------------------
(* The inductive invariant.                                                *)

\* TypeOK, finitely many segments, and one segment to an id.
Inv == TypeOK /\ IsFactSet(facts)

LEMMA InvInit == Init => Inv
<1> SUFFICES ASSUME Init PROVE Inv
  OBVIOUS
<1>1. IsFiniteSet({})
  BY FS_EmptySet
<1> QED
  BY <1>1 DEF Init, Inv, TypeOK, IsFactSet

\* The segments one merge takes, said of the segments instead of their ids.
Chosen == { f \in facts : f.id \in select(facts) }
Dead == TakeWhileAffordable(ByAge({ f \in facts : IsDead(f) }))
Small == TakeWhileAffordable(BySize(facts))

LEMMA ChosenIs ==
    ASSUME Inv
    PROVE  /\ IsFiniteSet(Chosen) /\ Chosen \subseteq facts
           /\ Chosen \in {{}, Dead, Small}
           /\ Chosen = Dead => Chosen \subseteq { f \in facts : IsDead(f) }
           /\ Chosen # {} /\ Chosen # Dead => Cardinality(Chosen) >= 2
           /\ Cardinality(Chosen) <= MaxInputs
           /\ MapThenSumSet(Bytes, Chosen) <= MaxInputBytes
<1> DEFINE D == { f \in facts : IsDead(f) }
<1>1. IsFactSet(facts) /\ IsFactSet(D) /\ D \subseteq facts
  BY FS_Subset DEF Inv, IsFactSet
<1>2. IsOrder(BySize(facts), facts) /\ IsOrder(ByAge(D), D)
  BY <1>1, BothAreOrders
<1> HIDE DEF D
<1>3. /\ Small \subseteq facts /\ Cardinality(Small) <= MaxInputs
      /\ MapThenSumSet(Bytes, Small) <= MaxInputBytes
  BY <1>1, <1>2, TakenIsBounded DEF Small
<1>4. /\ Dead \subseteq D /\ Cardinality(Dead) <= MaxInputs
      /\ MapThenSumSet(Bytes, Dead) <= MaxInputBytes
  <2>1. Dead = TakeWhileAffordable(ByAge(D))
    BY DEF Dead, D
  <2> QED
    BY <1>1, <1>2, <2>1, TakenIsBounded
<1>5. PICK C : C = IF Dead # {} THEN Dead
                   ELSE IF Cardinality(facts) < MinSegments \/ Cardinality(Small) < 2
                        THEN {} ELSE Small
  OBVIOUS
<1>6. select(facts) = { f.id : f \in C }
  BY <1>5 DEF select, Dead, Small
<1>7. C \subseteq facts
  BY <1>1, <1>3, <1>4, <1>5
<1>8. Chosen = C
  BY <1>1, <1>6, <1>7 DEF Chosen, IsFactSet
<1>9. IsFiniteSet(Chosen)
  BY <1>1, <1>7, <1>8, FS_Subset DEF IsFactSet
<1>10. Cardinality({}) = 0 /\ MapThenSumSet(Bytes, {}) = 0
  <2>1. PICK w : w = [f \in facts |-> f.bytes]
    OBVIOUS
  <2>2. IsFiniteSet(facts) /\ w \in [facts -> Nat]
    BY <1>1, <2>1 DEF IsFactSet, Fact
  <2>3. PICK m : IsMeasure(m, w, facts)
    BY <2>2, MeasureExists
  <2>4. m[{}] = 0
    BY <2>3 DEF IsMeasure
  <2>5. MapThenSumSet(Bytes, {}) = m[{}]
    BY <2>2, <2>3, SumsAreMeasures
  <2> QED
    BY <2>4, <2>5, FS_EmptySet
<1>11. MaxInputs \in Nat /\ MaxInputBytes \in Nat
  BY PolicyAssumption
<1>12. Cardinality(Small) \in Nat
  BY <1>1, <1>3, FS_Subset, FS_CardinalityType DEF IsFactSet
<1>13. Chosen # {} /\ Chosen # Dead => Cardinality(Chosen) >= 2
  BY <1>5, <1>8, <1>12
<1>14. Cardinality(Chosen) <= MaxInputs /\ MapThenSumSet(Bytes, Chosen) <= MaxInputBytes
  BY <1>3, <1>4, <1>5, <1>8, <1>10, <1>11
<1>15. Chosen \in {{}, Dead, Small}
  BY <1>5, <1>8
<1> QED
  BY <1>4, <1>7, <1>8, <1>9, <1>13, <1>14, <1>15 DEF D

\* A merge keeps the limits of the policy in every such state.
LEMMA InvImpliesBounded == Inv => MergesAreBounded
<1> SUFFICES ASSUME Inv PROVE MergesAreBounded
  OBVIOUS
<1>1. /\ IsFiniteSet(Chosen) /\ Cardinality(Chosen) <= MaxInputs
      /\ MapThenSumSet(Bytes, Chosen) <= MaxInputBytes
  BY ChosenIs
<1>2. ASSUME Cardinality(Chosen) = 1
      PROVE  \A f \in Chosen : IsDead(f)
  <2>1. Chosen # {}
    BY <1>2, FS_EmptySet
  <2>2. Chosen = Dead
    BY <1>2, <2>1, ChosenIs
  <2> QED
    BY <2>2, ChosenIs
<1> QED
  BY <1>1, <1>2 DEF MergesAreBounded, Chosen

-----------------------------------------------------------------------------
(* What a merge does.                                                      *)

\* The rows that survive a merge.
Kept == MapThenSumSet(Live, Chosen)

\* Sums of suppressed rows over the segments before and after a step, by one
\* measure, and the number of rows kept.
LEMMA KeptRows ==
    ASSUME Inv
    PROVE  /\ Kept \in Nat
           /\ \A f \in facts : Chosen = {f} => Kept = f.rows - f.suppressed
<1>1. PICK w : w = [f \in facts |-> f.rows - f.suppressed]
  OBVIOUS
<1>2. IsFiniteSet(facts) /\ w \in [facts -> Nat] /\ Chosen \in SUBSET facts
  <2>1. \A f \in facts : f.rows - f.suppressed \in Nat
    BY DEF Inv, TypeOK
  <2> QED
    BY <1>1, <2>1 DEF Inv, IsFactSet, Chosen
<1>3. PICK m : IsMeasure(m, w, facts)
  BY <1>2, MeasureExists
<1>4. Kept = m[Chosen]
  BY <1>1, <1>2, <1>3, SumsAreMeasures DEF Kept
<1>5. Kept \in Nat
  BY <1>2, <1>3, <1>4 DEF IsMeasure
<1>6. ASSUME NEW f \in facts, Chosen = {f}
      PROVE  Kept = f.rows - f.suppressed
  <2>1. m[Chosen] = w[f] + m[Chosen \ {f}] /\ m[{}] = 0
    BY <1>2, <1>3, <1>6 DEF IsMeasure
  <2>2. Chosen \ {f} = {}
    BY <1>6
  <2>3. m[Chosen] = w[f] + 0
    BY <2>1, <2>2
  <2>4. w[f] \in Nat /\ w[f] = f.rows - f.suppressed
    BY <1>1, <1>2
  <2> QED
    BY <1>4, <2>3, <2>4
<1> QED
  BY <1>5, <1>6

\* The segment a merge adds, if any.
Merged == IF Kept = 0 THEN {} ELSE {Segment(next_segment_id, Kept)}

LEMMA CompactIs ==
    ASSUME Inv, Compact
    PROVE  /\ Chosen # {} /\ facts' = (facts \ Chosen) \cup Merged
           /\ next_segment_id' = next_segment_id + 1 /\ flushes' = flushes
           /\ Merged \subseteq Fact /\ IsFiniteSet(Merged) /\ Cardinality(Merged) <= 1
           /\ facts \cap Merged = {}
           /\ \A f \in Merged : f.id = next_segment_id /\ f.suppressed = 0 /\ Kept # 0
<1>1. /\ Chosen # {} /\ facts' = (facts \ Chosen) \cup Merged
      /\ next_segment_id' = next_segment_id + 1 /\ flushes' = flushes
  BY DEF Compact, Chosen, Merged, Kept
<1>2. Segment(next_segment_id, Kept) \in Fact
  BY KeptRows DEF Segment, Fact, Inv, TypeOK
<1>3. /\ \A f \in Merged : f = Segment(next_segment_id, Kept) /\ Kept # 0
      /\ Merged = {} \/ Merged = {Segment(next_segment_id, Kept)}
  BY DEF Merged
<1>4. IsFiniteSet(Merged) /\ Cardinality(Merged) <= 1
  <2>1. \A x : IsFiniteSet({x}) /\ Cardinality({x}) = 1
    BY FS_Singleton
  <2>2. IsFiniteSet({}) /\ Cardinality({}) = 0
    BY FS_EmptySet
  <2>3. CASE Merged = {}
    BY <2>2, <2>3
  <2>4. CASE Merged = {Segment(next_segment_id, Kept)}
    <3>1. PICK x : Merged = {x}
      BY <2>4
    <3>2. IsFiniteSet({x}) /\ Cardinality({x}) = 1
      BY <2>1, Zenon
    <3> QED
      BY <3>1, <3>2
  <2> QED
    BY <1>3, <2>3, <2>4
<1>5. \A f \in facts : f.id \in Nat /\ f.id < next_segment_id
  BY DEF Inv, TypeOK
<1>6. \A f \in Merged : f.id = next_segment_id /\ f.suppressed = 0 /\ Kept # 0
  BY <1>3 DEF Segment
<1>7. next_segment_id \in Nat
  BY DEF Inv, TypeOK
<1>8. facts \cap Merged = {}
  BY <1>5, <1>6, <1>7
<1> QED
  BY <1>1, <1>2, <1>3, <1>4, <1>6, <1>8

-----------------------------------------------------------------------------
(* The steps.                                                              *)

LEMMA FlushStep ==
    ASSUME Inv, NEW n \in FlushRows, Flush(n)
    PROVE  Inv'
<1> DEFINE f == Segment(next_segment_id, n)
<1>1. n \in Nat /\ n > 0
  BY SegmentSetAssumption
<1>2. /\ f \in Fact /\ f.id = next_segment_id /\ f.suppressed = 0 /\ f.rows = n
      /\ next_segment_id \in Nat
  BY <1>1 DEF Segment, Fact, Inv, TypeOK
<1>3. facts' = facts \cup {f} /\ next_segment_id' = next_segment_id + 1 /\ flushes' = flushes + 1
  BY DEF Flush
<1> HIDE DEF f
<1>4. IsFiniteSet(facts')
  BY <1>3, FS_AddElement DEF Inv, IsFactSet
<1>5. \A g \in facts : g \in Fact /\ g.suppressed <= g.rows /\ g.id \in Nat /\ g.id < next_segment_id
  BY DEF Inv, TypeOK, Fact
<1>6. \A g, h \in facts' : g.id = h.id => g = h
  <2>1. \A g \in facts : g.id # f.id
    BY <1>2, <1>5
  <2> QED
    BY <1>3, <2>1 DEF Inv, IsFactSet
<1>7. \A g \in facts' : g \in Fact /\ g.suppressed <= g.rows /\ g.id < next_segment_id'
  BY <1>1, <1>2, <1>3, <1>5
<1>8. next_segment_id' \in Nat /\ flushes' \in Nat
  BY <1>3 DEF Inv, TypeOK
<1> QED
  BY <1>4, <1>6, <1>7, <1>8 DEF Inv, TypeOK, IsFactSet, Fact

LEMMA SuppressStep ==
    ASSUME Inv, NEW f \in facts, Suppress(f)
    PROVE  Inv'
<1> DEFINE g == [f EXCEPT !.suppressed = @ + 1]
<1>1. \A h \in facts : h \in Fact /\ h.suppressed <= h.rows /\ h.id \in Nat /\ h.id < next_segment_id
  BY DEF Inv, TypeOK, Fact
<1>2. g \in Fact /\ g.id = f.id /\ g.suppressed <= g.rows
  BY <1>1 DEF Suppress, Fact
<1>3. facts' = (facts \ {f}) \cup {g} /\ next_segment_id' = next_segment_id /\ flushes' = flushes
  BY DEF Suppress
<1> HIDE DEF g
<1>4. IsFiniteSet(facts')
  <2>1. IsFiniteSet(facts \ {f})
    BY FS_RemoveElement DEF Inv, IsFactSet
  <2> QED
    BY <1>3, <2>1, FS_AddElement
<1>5. \A h, k \in facts' : h.id = k.id => h = k
  <2>1. \A h \in facts \ {f} : h.id # g.id
    BY <1>2 DEF Inv, IsFactSet
  <2> QED
    BY <1>3, <2>1 DEF Inv, IsFactSet
<1>6. \A h \in facts' : h \in Fact /\ h.suppressed <= h.rows /\ h.id < next_segment_id'
  BY <1>1, <1>2, <1>3
<1> QED
  BY <1>3, <1>4, <1>5, <1>6 DEF Inv, TypeOK, IsFactSet, Fact

LEMMA CompactStep ==
    ASSUME Inv, Compact
    PROVE  Inv'
<1>1. /\ facts' = (facts \ Chosen) \cup Merged
      /\ next_segment_id' = next_segment_id + 1 /\ flushes' = flushes
      /\ Merged \subseteq Fact /\ IsFiniteSet(Merged) /\ Cardinality(Merged) <= 1
      /\ \A f \in Merged : f.id = next_segment_id /\ f.suppressed = 0
  BY CompactIs
<1>2. \A f \in facts : f \in Fact /\ f.suppressed <= f.rows /\ f.id \in Nat /\ f.id < next_segment_id
  BY DEF Inv, TypeOK, Fact
<1>3. next_segment_id \in Nat /\ flushes \in Nat
  BY DEF Inv, TypeOK
<1>4. IsFiniteSet(facts')
  <2>1. IsFiniteSet(facts \ Chosen)
    BY FS_Subset DEF Inv, IsFactSet
  <2> QED
    BY <1>1, <2>1, FS_Union
<1>5. \A f, g \in facts' : f.id = g.id => f = g
  <2>1. \A f, g \in Merged : f = g
    BY DEF Merged
  <2>2. \A f \in facts, g \in Merged : f.id # g.id
    BY <1>1, <1>2, <1>3
  <2> QED
    BY <1>1, <2>1, <2>2 DEF Inv, IsFactSet
<1>6. \A f \in facts' : f \in Fact /\ f.suppressed <= f.rows /\ f.id < next_segment_id'
  <2>1. \A f \in Merged : f \in Fact /\ 0 <= f.rows
    BY <1>1 DEF Fact
  <2> QED
    BY <1>1, <1>2, <1>3, <2>1
<1> QED
  BY <1>1, <1>3, <1>4, <1>5, <1>6 DEF Inv, TypeOK, IsFactSet, Fact

LEMMA InvStep ==
    ASSUME Inv, [Next]_vars
    PROVE  Inv'
<1>1. CASE \E n \in FlushRows : Flush(n)
  BY <1>1, FlushStep
<1>2. CASE \E f \in facts : Suppress(f)
  BY <1>2, SuppressStep
<1>3. CASE Compact
  BY <1>3, CompactStep
<1>4. CASE UNCHANGED vars
  BY <1>4 DEF vars, Inv, TypeOK, IsFactSet
<1> QED
  BY <1>1, <1>2, <1>3, <1>4 DEF Next

\* A merge leaves fewer segments, or as many with fewer suppressed rows: it
\* takes two at least, or one that is mostly dead and so has suppressed rows
\* or no rows at all.
LEMMA CompactIsProgress ==
    ASSUME Inv, Compact
    PROVE  Work \in Nat /\ Work' \in Nat /\ Work' < Work
<1>1. /\ Chosen # {} /\ facts' = (facts \ Chosen) \cup Merged
      /\ Merged \subseteq Fact /\ IsFiniteSet(Merged) /\ Cardinality(Merged) <= 1
      /\ facts \cap Merged = {}
      /\ \A f \in Merged : f.id = next_segment_id /\ f.suppressed = 0 /\ Kept # 0
  BY CompactIs
<1>2. PICK S : S = facts \cup Merged
  OBVIOUS
<1>3. PICK w : w = [f \in S |-> f.suppressed]
  OBVIOUS
<1>4. /\ IsFiniteSet(S) /\ w \in [S -> Nat] /\ \A f \in S : w[f] = f.suppressed
      /\ IsFiniteSet(facts) /\ facts \subseteq Fact
  <2>1. S \subseteq Fact /\ facts \subseteq Fact
    BY <1>1, <1>2 DEF Inv, IsFactSet
  <2>2. \A f \in S : f.suppressed \in Nat
    BY <2>1 DEF Fact
  <2>3. IsFiniteSet(facts)
    BY DEF Inv, IsFactSet
  <2>4. IsFiniteSet(S)
    BY <1>1, <1>2, <2>3, FS_Union
  <2> QED
    BY <1>3, <2>1, <2>2, <2>3, <2>4
<1>5. PICK m : IsMeasure(m, w, S)
  BY <1>4, MeasureExists
<1>6. ASSUME NEW U \in SUBSET S
      PROVE  MapThenSumSet(Suppressed, U) = m[U] /\ m[U] \in Nat
  <2>1. \A f \in U : w[f] = f.suppressed
    BY <1>4
  <2>2. m[U] \in Nat
    BY <1>5 DEF IsMeasure
  <2> QED
    BY <1>4, <1>5, <2>1, <2>2, SumsAreMeasures
<1> DEFINE rest == facts \ Chosen
<1>7. /\ Chosen \in SUBSET S /\ rest \in SUBSET S /\ Merged \in SUBSET S
      /\ facts \in SUBSET S /\ facts' \in SUBSET S
      /\ facts = rest \cup Chosen /\ rest \cap Chosen = {} /\ rest \cap Merged = {}
      /\ facts' = rest \cup Merged
  BY <1>1, <1>2 DEF Chosen
<1> HIDE DEF rest
<1>8. m[facts] = m[rest] + m[Chosen]
  <2>1. rest \in SUBSET S /\ Chosen \in SUBSET S /\ rest \cap Chosen = {}
    BY <1>7
  <2>2. IsFiniteSet(S) /\ \A x \in S : w[x] \in Nat
    BY <1>4
  <2>3. m[rest \cup Chosen] = m[rest] + m[Chosen]
    <3>1. \A U, V \in SUBSET S : U \cap V = {} => m[U \cup V] = m[U] + m[V]
      BY <1>5, <2>2, MeasureAdds
    <3> QED
      BY <2>1, <3>1
  <2> QED
    BY <1>7, <2>3
<1>9. m[facts'] = m[rest] + m[Merged]
  <2>1. rest \in SUBSET S /\ Merged \in SUBSET S /\ rest \cap Merged = {}
    BY <1>7
  <2>2. IsFiniteSet(S) /\ \A x \in S : w[x] \in Nat
    BY <1>4
  <2>3. m[rest \cup Merged] = m[rest] + m[Merged]
    <3>1. \A U, V \in SUBSET S : U \cap V = {} => m[U \cup V] = m[U] + m[V]
      BY <1>5, <2>2, MeasureAdds
    <3> QED
      BY <2>1, <3>1
  <2> QED
    BY <1>7, <2>3
<1>10. m[Merged] = 0
  <2>1. CASE Merged = {}
    BY <1>5, <2>1 DEF IsMeasure
  <2>2. CASE Merged # {}
    <3>1. PICK f : Merged = {f}
      BY <2>2 DEF Merged
    <3>2. m[Merged] = w[f] + m[Merged \ {f}] /\ m[{}] = 0
      BY <1>5, <1>7, <3>1 DEF IsMeasure
    <3>3. Merged \ {f} = {} /\ w[f] = 0
      BY <1>1, <1>4, <1>7, <3>1
    <3>4. m[Merged] = 0 + 0
      BY <3>2, <3>3
    <3> QED
      BY <3>4
  <2> QED
    BY <2>1, <2>2
<1>11. /\ Cardinality(facts) = Cardinality(rest) + Cardinality(Chosen)
       /\ Cardinality(facts') = Cardinality(rest) + Cardinality(Merged)
       /\ Cardinality(rest) \in Nat /\ Cardinality(Chosen) \in Nat /\ Cardinality(Merged) \in Nat
  <2>1. IsFiniteSet(rest) /\ IsFiniteSet(Chosen) /\ IsFiniteSet(Merged)
    BY <1>4, <1>7, FS_Subset
  <2>2. Cardinality(rest) \in Nat /\ Cardinality(Chosen) \in Nat /\ Cardinality(Merged) \in Nat
    BY <2>1, FS_CardinalityType
  <2>3. Cardinality({}) = 0
    BY FS_EmptySet
  <2>4. Cardinality(rest \cup Chosen) = Cardinality(rest) + Cardinality(Chosen) - Cardinality({})
    BY <1>7, <2>1, FS_Union
  <2>5. Cardinality(rest \cup Merged) = Cardinality(rest) + Cardinality(Merged) - Cardinality({})
    BY <1>7, <2>1, FS_Union
  <2> QED
    BY <1>7, <2>2, <2>3, <2>4, <2>5
<1>12. Work = Cardinality(facts) + m[facts]
  BY <1>6, <1>7 DEF Work
<1>13. Work' = Cardinality(facts') + m[facts']
  <2>1. MapThenSumSet(Suppressed, facts') = m[facts']
    BY <1>6, <1>7
  <2>2. Work' = Cardinality(facts') + MapThenSumSet(Suppressed, facts')
    BY DEF Work, MapThenSumSet, MapThenFoldSet, Suppressed
  <2> QED
    BY <2>1, <2>2
<1>14. m[rest] \in Nat /\ m[Chosen] \in Nat /\ m[facts] \in Nat /\ m[facts'] \in Nat
  BY <1>6, <1>7
<1>15. CASE Cardinality(Chosen) >= 2
  BY <1>1, <1>8, <1>9, <1>10, <1>11, <1>12, <1>13, <1>14, <1>15
<1>16. CASE ~(Cardinality(Chosen) >= 2)
  <2>1. Cardinality(Chosen) = 1 /\ \A f \in Chosen : IsDead(f)
    <3>1. Chosen = Dead /\ Chosen \subseteq { f \in facts : IsDead(f) } /\ IsFiniteSet(Chosen)
      BY <1>1, <1>16, ChosenIs
    <3>2. Cardinality(Chosen) # 0
      BY <1>1, <3>1, FS_EmptySet
    <3> QED
      BY <1>11, <1>16, <3>1, <3>2
  <2>2. PICK f : Chosen = {f}
    BY <1>4, <1>7, <2>1, FS_Subset, FS_Singleton
  <2>3. f \in facts /\ f.rows \in Nat /\ f.suppressed \in Nat /\ f.suppressed <= f.rows /\ IsDead(f)
    BY <1>4, <2>1, <2>2 DEF Chosen, Inv, TypeOK, Fact
  <2>4. CASE f.rows = 0
    <3>1. Kept = 0
      BY <2>2, <2>3, <2>4, KeptRows
    <3>2. Cardinality(Merged) = 0
      BY <3>1, FS_EmptySet DEF Merged
    <3> QED
      BY <1>8, <1>9, <1>10, <1>11, <1>12, <1>13, <1>14, <2>1, <3>2
  <2>5. CASE f.rows # 0
    <3>1. f.suppressed * RatioDen >= RatioNum * f.rows
      BY <2>3, <2>5 DEF IsDead
    <3>2. RatioNum \in Nat /\ RatioDen \in Nat /\ RatioNum > 0
      BY PolicyAssumption, SegmentSetAssumption
    <3>3. f.suppressed # 0
      <4>1. SUFFICES ASSUME f.suppressed = 0 PROVE FALSE
        OBVIOUS
      <4>2. 0 >= RatioNum * f.rows
        BY <3>1, <3>2, <4>1
      <4>3. RatioNum * f.rows > 0
        BY <2>3, <2>5, <3>2
      <4>4. RatioNum * f.rows \in Nat
        BY <2>3, <3>2
      <4> QED
        BY <4>2, <4>3, <4>4
    <3>4. m[Chosen] = w[f] + m[Chosen \ {f}]
      BY <1>5, <1>7, <2>2 DEF IsMeasure
    <3>5. w[f] = f.suppressed /\ Chosen \ {f} \in SUBSET S
      BY <1>4, <1>7, <2>2
    <3>6. m[Chosen \ {f}] \in Nat
      BY <1>6, <3>5
    <3>7. m[Chosen] > 0
      BY <2>3, <3>3, <3>4, <3>5, <3>6
    <3> QED
      BY <1>1, <1>8, <1>9, <1>10, <1>11, <1>12, <1>13, <1>14, <2>1, <3>7
  <2> QED
    BY <2>4, <2>5
<1> QED
  BY <1>15, <1>16

-----------------------------------------------------------------------------
(* The theorems.                                                           *)

LEMMA InvHolds == Spec => []Inv
<1>1. Inv /\ [Next]_vars => Inv'
  BY InvStep
<1> QED
  BY InvInit, <1>1, PTL DEF Spec

\* TypeOK: suppressing a row of a segment never counts more rows than it has,
\* and every merge and flush takes a new id (table.rs: suppress, next_segment_id).
THEOREM FactsAreTyped == Spec => []TypeOK
<1>1. Inv => TypeOK
  BY DEF Inv
<1> QED
  BY InvHolds, <1>1, PTL

\* MergesAreBounded: whatever was flushed, suppressed and merged before, what
\* the policy chooses next (compaction.rs: select) stays within both limits and
\* is never a single segment that is still mostly alive.
THEOREM MergesStayBounded == Spec => []MergesAreBounded
  BY InvHolds, InvImpliesBounded, PTL

\* Converges: every compaction of the policy's choice is progress
\* (table.rs: compact_locked), so that none of them can go on for ever.
THEOREM CompactionConverges == Spec => Converges
<1>1. Inv /\ [Next]_vars => [Compact => Work' < Work]_vars
  BY CompactIsProgress
<1> QED
  BY InvHolds, <1>1, PTL DEF Spec, Converges

=============================================================================
