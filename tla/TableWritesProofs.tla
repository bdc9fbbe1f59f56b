-------------------------- MODULE TableWritesProofs --------------------------
(***************************************************************************)
(* Proofs about module TableWrites, for any table, partitioning, number of *)
(* requests, faults and restarts: an insert never replaces a row, an       *)
(* acknowledged write is complete, a refused one had no effect, and a      *)
(* buffered batch has its partition's schema version unless it was running *)
(* at an adoption or replayed after one.                                   *)
(***************************************************************************)
EXTENDS TableWrites, WellFoundedInduction, TLAPS

-----------------------------------------------------------------------------
(* The inductive invariant.                                                *)

\* What a request is doing: a write that has begun, and holding write_lock.
Writing == {"wait", "check", "append"}
Holding == {"check", "append", "evolve_flush", "evolve_adopt"}

Op == [kind : {"insert", "upsert", "delete"}, keys : SUBSET Keys, shape : Nat,
       status : {"running", "ok", "refused", "failed", "died"}, written : SUBSET Keys]

Proc == [pc : {"idle", "evolve_read", "evolve_check", "evolve_wait"} \cup Writing \cup Holding,
         op : Nat, version : Nat, todo : SUBSET Partitions]

TypeInv ==
    /\ memtable \in [Partitions -> Seq(Nat)] /\ logged \in [Partitions -> Seq(Nat)]
    /\ adopted \in [Partitions -> Nat] /\ schema \in Nat /\ catalog \in Nat
    /\ proc \in [Procs -> Proc]
    /\ ops \in Seq(Op)

\* write_lock is held by whoever is past it, so by one request at a time.
LockInv == \A w \in Procs : proc[w].pc \in Holding => write_lock = w

\* Each write under way has a record of its own, still open.
OwnerInv ==
    /\ \A w \in Procs : proc[w].pc \in Writing =>
          /\ w \in Writers
          /\ proc[w].op \in DOMAIN ops /\ ops[proc[w].op].status = "running"
          /\ ops[proc[w].op].keys # {}
    /\ \A v, w \in Procs :
          proc[v].pc \in Writing /\ proc[w].pc \in Writing /\ proc[v].op = proc[w].op => v = w

\* A write has reached the partitions that it no longer has to do, and no others.
WrittenInv ==
    \A w \in Procs :
        LET op == ops[proc[w].op]
        IN  /\ proc[w].pc \in {"wait", "check"} => op.written = {}
            /\ proc[w].pc = "append" =>
                  /\ proc[w].todo # {}
                  /\ op.written = { k \in op.keys : Route[k] \notin proc[w].todo }

\* The keys an insert has still to write are free: they were at the check, and
\* the lock has been held since.
FreeInv ==
    \A w \in Procs :
        proc[w].pc = "append" /\ ops[proc[w].op].kind = "insert" =>
            \A k \in ops[proc[w].op].keys : Route[k] \in proc[w].todo => table[k] = 0

\* A write of the table's version, unless a change of version overtook it.
Agrees(i) == i \in DOMAIN ops /\ (i \notin overtaken => ops[i].shape = schema)

\* So is every write under way, everything buffered and everything a restart
\* would replay.
AllAgree(batches) == \A p \in Partitions : \A i \in DOMAIN batches[p] : Agrees(batches[p][i])

VersionInv ==
    /\ AllAgree(memtable) /\ AllAgree(logged)
    /\ \A w \in Procs : proc[w].pc \in Writing => Agrees(proc[w].op)

Adopting(w) == proc[w].pc = "evolve_adopt"

\* Memtables are empty while the partitions adopt a version; those that have
\* adopted it have nothing left to replay.
AdoptInv ==
    \A w \in Procs : Adopting(w) =>
        /\ proc[w].todo # {}
        /\ \A p \in Partitions : memtable[p] = <<>>
        /\ \A p \in Partitions \ proc[w].todo :
              logged[p] = <<>> /\ adopted[p] = proc[w].version

\* At other times a partition has the table's version, or a failed adoption left
\* it on another.
CurrentInv ==
    (\A w \in Procs : ~Adopting(w)) => \A p \in Partitions \ halted : adopted[p] = schema

WritesInv ==
    /\ TypeInv /\ LockInv /\ OwnerInv /\ WrittenInv /\ FreeInv /\ VersionInv /\ AdoptInv
    /\ CurrentInv /\ AckedIsComplete

-----------------------------------------------------------------------------
(* Facts about the operators.                                              *)

\* A nonempty set of partitions has a least one, and Min is it.
LEMMA NextPartition ==
    ASSUME NEW S \in SUBSET Partitions, S # {}
    PROVE  Min(S) \in S
<1>1. S \subseteq Nat
  BY WritesAssumption
<1>2. IsWellFoundedOn(OpToRel(<, Nat), Nat)
  BY NatLessThanWellFounded
<1>3. PICK x \in S : \A y \in S : ~(<<y, x>> \in OpToRel(<, Nat))
  BY <1>1, <1>2, WFMin, Zenon
<1>4. ASSUME NEW y \in S PROVE x <= y
  <2>1. <<y, x>> \in Nat \X Nat
    BY <1>1
  <2>2. ~(y < x)
    BY <1>3, <2>1 DEF OpToRel
  <2> QED
    BY <1>1, <2>2
<1>5. \E x1 \in S : \A y \in S : x1 <= y
  BY <1>4
<1> QED
  BY <1>5, Zenon DEF Min

\* What a concatenation holds.
LEMMA Concatenated ==
    ASSUME NEW s \in Seq(Nat), NEW t \in Seq(Nat), NEW i \in DOMAIN (s \o t)
    PROVE  \/ \E j \in DOMAIN s : (s \o t)[i] = s[j]
           \/ \E j \in DOMAIN t : (s \o t)[i] = t[j]
<1>1. /\ DOMAIN s = 1 .. Len(s) /\ Len(s) \in Nat /\ DOMAIN t = 1 .. Len(t) /\ Len(t) \in Nat
      /\ DOMAIN (s \o t) = 1 .. Len(s) + Len(t)
  OBVIOUS
<1>2. CASE i <= Len(s)
  BY <1>1, <1>2
<1>3. CASE i > Len(s)
  <2>1. i - Len(s) \in DOMAIN t /\ (s \o t)[i] = t[i - Len(s)]
    BY <1>1, <1>3
  <2> QED
    BY <2>1
<1> QED
  BY <1>1, <1>2, <1>3

\* A step that keeps the writes, the version and what was overtaken.
Keeps ==
    /\ \A i \in DOMAIN ops : i \in DOMAIN ops' /\ ops'[i].shape = ops[i].shape
    /\ UNCHANGED schema /\ overtaken \subseteq overtaken'

LEMMA EmptySeqIsSeq == <<>> \in Seq(Nat) /\ DOMAIN <<>> = {}
OBVIOUS

\* Emptying a memtable or a log leaves nothing that could disagree.
LEMMA StillAllAgree ==
    ASSUME WritesInv
    PROVE  /\ (\A p \in Partitions : memtable'[p] \in {<<>>, memtable[p]}) => AllAgree(memtable')
           /\ (\A p \in Partitions : logged'[p] \in {<<>>, logged[p]}) => AllAgree(logged')
<1>1. ASSUME NEW new, NEW old, new \in {<<>>, old}, \A i \in DOMAIN old : Agrees(old[i])
      PROVE  \A i \in DOMAIN new : Agrees(new[i])
  <2>1. CASE new = <<>>
    BY <2>1, EmptySeqIsSeq
  <2> QED
    BY <1>1, <2>1
<1> QED
  BY <1>1 DEF WritesInv, VersionInv, AllAgree

LEMMA StillAgrees ==
    ASSUME Keeps
    PROVE  /\ AllAgree(memtable') => AllAgree(memtable)'
           /\ AllAgree(logged') => AllAgree(logged)'
           /\ \A i : Agrees(i) => Agrees(i)'
BY DEF Keeps, AllAgree, Agrees

-----------------------------------------------------------------------------
(* Every action preserves the invariant.                                   *)

(* No request has been made.                                               *)
LEMMA InitInv == Init => WritesInv
BY WritesAssumption DEF Init, WritesInv, TypeInv, LockInv, OwnerInv, WrittenInv, FreeInv, VersionInv,
   AllAgree, AdoptInv, Adopting, CurrentInv, AckedIsComplete, Idle, Proc, Op, Writing, Holding

\* A new request gets the next record.
LEMMA BeginStep ==
    ASSUME WritesInv, NEW w \in Writers, NEW kind \in {"insert", "upsert", "delete"},
           NEW keys \in (SUBSET Keys) \ {{}}, Begin(w, kind, keys)
    PROVE  WritesInv'
<1> DEFINE new == [kind |-> kind, keys |-> keys, shape |-> schema, status |-> "running",
                   written |-> {}]
<1>1. /\ new \in Op /\ ops' = Append(ops, new) /\ ops' \in Seq(Op)
      /\ DOMAIN ops = 1 .. Len(ops) /\ DOMAIN ops' = 1 .. Len(ops) + 1 /\ Len(ops) \in Nat
      /\ Len(ops') = Len(ops) + 1
      /\ \A i \in DOMAIN ops : ops'[i] = ops[i] /\ i # Len(ops) + 1
      /\ ops'[Len(ops) + 1] = new
  BY DEF Begin, WritesInv, TypeInv, Op
<1>2. /\ w \in Procs
      /\ proc' = [proc EXCEPT ![w] = [Idle EXCEPT !.pc = "wait", !.op = Len(ops) + 1]]
      /\ [Idle EXCEPT !.pc = "wait", !.op = Len(ops) + 1] \in Proc
  <2>1. w \in Procs
    BY DEF Procs
  <2>2. proc' = [proc EXCEPT ![w] = [Idle EXCEPT !.pc = "wait", !.op = Len(ops) + 1]]
    BY <1>1 DEF Begin, Goto
  <2>3. [Idle EXCEPT !.pc = "wait", !.op = Len(ops) + 1] \in Proc
    <3>1. Len(ops) + 1 \in Nat
      BY <1>1
    <3>2. Idle \in Proc
      BY DEF Idle, Proc
    <3>3. ASSUME NEW q \in Proc, NEW n \in Nat
          PROVE  [q EXCEPT !.pc = "wait", !.op = n] \in Proc
      BY DEF Proc, Writing
    <3> QED
      BY <3>1, <3>2, <3>3
  <2> QED
    BY <2>1, <2>2, <2>3
<1>3. /\ proc \in [Procs -> Proc]
      /\ proc'[w].pc = "wait" /\ proc'[w].op = Len(ops) + 1
      /\ \A v \in Procs \ {w} : proc'[v] = proc[v]
  BY <1>2 DEF WritesInv, TypeInv, Idle
<1>4. TypeInv'
  BY <1>1, <1>2, <1>3 DEF Begin, WritesInv, TypeInv
<1>5. LockInv'
  BY <1>3 DEF Begin, WritesInv, LockInv, Holding
<1>6. OwnerInv'
  BY <1>1, <1>3 DEF WritesInv, OwnerInv, Writing
<1>7. WrittenInv'
  BY <1>1, <1>3 DEF WritesInv, OwnerInv, WrittenInv, Writing
<1>8. FreeInv'
  BY <1>1, <1>3 DEF Begin, WritesInv, OwnerInv, FreeInv, Writing
<1>9. VersionInv'
  <2>1. Keeps /\ UNCHANGED <<memtable, logged>>
    BY <1>1 DEF Begin, Keeps
  <2>2. Agrees(Len(ops))'
    BY <1>1, <2>1 DEF Agrees, Keeps
  <2>3. AllAgree(memtable)' /\ AllAgree(logged)'
    BY <2>1, StillAgrees DEF WritesInv, VersionInv
  <2>4. ASSUME NEW v \in Procs, proc'[v].pc \in Writing PROVE Agrees(proc[v].op)'
    <3>1. CASE v = w
      BY <1>1, <1>3, <2>2, <3>1 DEF Agrees
    <3>2. CASE v # w
      BY <1>3, <2>1, <2>4, <3>2, StillAgrees DEF WritesInv, VersionInv, Agrees, Keeps
    <3> QED
      BY <3>1, <3>2
  <2> QED
    BY <2>3, <2>4 DEF VersionInv
<1>10. AdoptInv' /\ CurrentInv'
  BY <1>3 DEF Begin, WritesInv, AdoptInv, CurrentInv, Adopting
<1>11. AckedIsComplete'
  BY <1>1 DEF WritesInv, AckedIsComplete
<1> QED
  BY <1>4, <1>5, <1>6, <1>7, <1>8, <1>9, <1>10, <1>11 DEF WritesInv

\* The lock is taken only while nobody has it.
LEMMA AcquireStep ==
    ASSUME WritesInv, NEW w \in Procs, Acquire(w)
    PROVE  WritesInv'
<1> DEFINE to == IF proc[w].pc = "wait" THEN "check" ELSE "evolve_flush"
<1>1. /\ proc \in [Procs -> Proc]
      /\ proc' = [proc EXCEPT ![w] = [proc[w] EXCEPT !.pc = to]]
      /\ [proc[w] EXCEPT !.pc = to] \in Proc
  BY DEF WritesInv, TypeInv, Acquire, Goto, Proc, Holding
<1>2. /\ proc'[w].pc = to /\ proc'[w].op = proc[w].op
      /\ \A v \in Procs \ {w} : proc'[v] = proc[v]
      /\ proc[w].pc \in {"wait", "evolve_wait"}
  BY <1>1 DEF Acquire, Proc
<1>3. TypeInv'
  BY <1>1 DEF Acquire, WritesInv, TypeInv
<1>4. LockInv'
  BY <1>2, WritesAssumption DEF Acquire, LockAvailable, WritesInv, LockInv, Holding
<1>5. OwnerInv'
  BY <1>2 DEF Acquire, WritesInv, OwnerInv, Writing
<1>6. WrittenInv'
  BY <1>2 DEF Acquire, WritesInv, WrittenInv
<1>7. FreeInv'
  BY <1>2 DEF Acquire, WritesInv, FreeInv
<1>8. VersionInv'
  BY <1>2 DEF Acquire, WritesInv, VersionInv, AllAgree, Agrees, Writing
<1>9. AdoptInv' /\ CurrentInv'
  BY <1>2 DEF Acquire, WritesInv, AdoptInv, CurrentInv, Adopting
<1>10. AckedIsComplete'
  BY DEF Acquire, WritesInv, AckedIsComplete
<1> QED
  BY <1>3, <1>4, <1>5, <1>6, <1>7, <1>8, <1>9, <1>10 DEF WritesInv

\* A request that ends gives up its record and the lock; what it was doing no
\* longer matters.
LEMMA EndKeepsOthers ==
    ASSUME WritesInv, NEW w \in Procs, proc[w].pc \in Writing, NEW new \in Op,
           ops' = [ops EXCEPT ![proc[w].op] = new],
           proc' = [proc EXCEPT ![w] = Idle]
    PROVE  /\ proc' \in [Procs -> Proc] /\ ops' \in Seq(Op)
           /\ proc'[w] = Idle
           /\ \A v \in Procs \ {w} : proc'[v] = proc[v]
           /\ \A v \in Procs \ {w} : proc[v].pc \in Writing => ops'[proc[v].op] = ops[proc[v].op]
           /\ OwnerInv'
<1>1. /\ proc \in [Procs -> Proc] /\ ops \in Seq(Op) /\ proc[w].op \in DOMAIN ops
  BY DEF WritesInv, TypeInv, OwnerInv
<1>2. Idle \in Proc
  BY DEF Idle, Proc
<1>3. /\ proc' \in [Procs -> Proc] /\ ops' \in Seq(Op)
      /\ proc'[w] = Idle
      /\ \A v \in Procs \ {w} : proc'[v] = proc[v]
      /\ DOMAIN ops' = DOMAIN ops
      /\ \A i \in DOMAIN ops \ {proc[w].op} : ops'[i] = ops[i]
  BY <1>1, <1>2
<1>4. \A v \in Procs \ {w} : proc[v].pc \in Writing =>
          proc[v].op \in DOMAIN ops \ {proc[w].op}
  BY DEF WritesInv, OwnerInv
<1>5. OwnerInv'
  BY <1>3, <1>4 DEF WritesInv, OwnerInv, Idle, Writing
<1> QED
  BY <1>3, <1>4, <1>5

\* A refused insert leaves nothing behind; one that goes on has found its keys
\* free.
LEMMA CheckStep ==
    ASSUME WritesInv, NEW w \in Procs, Check(w)
    PROVE  WritesInv'
<1> DEFINE op == ops[proc[w].op]
<1>1. /\ proc \in [Procs -> Proc] /\ ops \in Seq(Op) /\ proc[w].op \in DOMAIN ops
      /\ op \in Op /\ op.keys # {} /\ op.status = "running" /\ op.written = {}
      /\ proc[w].pc = "check" /\ w \in Writers
  BY DEF WritesInv, TypeInv, OwnerInv, WrittenInv, Check, Writing
<1>2. CASE op.kind = "insert" /\ Duplicates(op) # {}
  <2> DEFINE new == [op EXCEPT !.status = "refused"]
  <2>1. /\ ops' = [ops EXCEPT ![proc[w].op] = new] /\ proc' = [proc EXCEPT ![w] = Idle]
        /\ write_lock' = Nobody
        /\ UNCHANGED <<table, memtable, logged, adopted, schema, catalog, overtaken, halted>>
    BY <1>1, <1>2 DEF Check, End, Goto
  <2>2. new \in Op /\ new.status = "refused" /\ new.written = {}
        /\ new.shape = op.shape /\ proc[w].pc \in Writing
    BY <1>1 DEF Op, Writing
  <2> HIDE DEF new
  <2>3. /\ proc' \in [Procs -> Proc] /\ ops' \in Seq(Op) /\ proc'[w] = Idle
        /\ \A v \in Procs \ {w} : proc'[v] = proc[v]
        /\ \A v \in Procs \ {w} : proc[v].pc \in Writing => ops'[proc[v].op] = ops[proc[v].op]
        /\ OwnerInv'
    BY <2>1, <2>2, EndKeepsOthers
  <2>4. TypeInv'
    BY <2>1, <2>3 DEF WritesInv, TypeInv
  <2>5. LockInv'
    BY <1>1, <2>1, <2>3, WritesAssumption DEF WritesInv, LockInv, Holding, Idle
  <2>6. WrittenInv'
    <3>1. \A v \in Procs : proc'[v].pc \in Writing =>
              proc[v].pc \in Writing /\ proc'[v] = proc[v] /\ ops'[proc[v].op] = ops[proc[v].op]
      BY <2>3 DEF Idle, Writing
    <3> QED
      BY <3>1 DEF WritesInv, WrittenInv, Writing
  <2>7. FreeInv'
    BY <2>1, <2>3 DEF WritesInv, FreeInv, Idle, Writing
  <2>8. VersionInv' /\ AdoptInv' /\ CurrentInv'
    <3>1. Keeps
      BY <1>1, <2>1, <2>2 DEF Keeps
    <3>2. \A v \in Procs : proc'[v].pc \in Writing => proc[v].pc \in Writing /\ proc'[v] = proc[v]
      BY <2>3 DEF Idle, Writing
    <3>3. VersionInv'
      BY <2>1, <3>1, <3>2, StillAgrees DEF WritesInv, VersionInv
    <3>4. \A v \in Procs : Adopting(v)' <=> Adopting(v)
      BY <1>1, <2>3 DEF Adopting, Idle
    <3>5. \A v \in Procs : Adopting(v) => proc'[v] = proc[v]
      BY <1>1, <2>3 DEF Adopting
    <3> QED
      BY <2>1, <3>3, <3>4, <3>5 DEF WritesInv, AdoptInv, CurrentInv
  <2>9. AckedIsComplete'
    BY <1>1, <2>1, <2>2 DEF WritesInv, AckedIsComplete
  <2> QED
    BY <2>3, <2>4, <2>5, <2>6, <2>7, <2>8, <2>9 DEF WritesInv
<1>3. CASE ~(op.kind = "insert" /\ Duplicates(op) # {})
  <2> DEFINE to == [proc[w] EXCEPT !.pc = "append", !.todo = Targets(op)]
  <2>1. /\ proc' = [proc EXCEPT ![w] = to]
        /\ UNCHANGED <<ops, write_lock, table, memtable, logged, adopted, schema, catalog, overtaken, halted>>
    BY <1>3 DEF Check, Goto
  <2>2. Targets(op) \subseteq Partitions /\ Targets(op) # {}
    BY <1>1, WritesAssumption DEF Op, Targets
  <2>3. to \in Proc /\ to.pc = "append" /\ to.op = proc[w].op /\ to.todo = Targets(op)
    BY <1>1, <2>2 DEF Proc, Writing
  <2>4. /\ proc' \in [Procs -> Proc] /\ proc'[w] = to
        /\ \A v \in Procs \ {w} : proc'[v] = proc[v]
    BY <1>1, <2>1, <2>3
  <2> HIDE DEF to
  <2>5. TypeInv'
    BY <2>1, <2>4 DEF WritesInv, TypeInv
  <2>6. LockInv' /\ OwnerInv'
    BY <1>1, <2>1, <2>3, <2>4 DEF WritesInv, LockInv, OwnerInv, Holding, Writing
  <2>7. WrittenInv'
    <3>1. op.written = { k \in op.keys : Route[k] \notin Targets(op) }
      BY <1>1 DEF Targets
    <3> QED
      BY <2>1, <2>2, <2>3, <2>4, <3>1 DEF WritesInv, WrittenInv
  <2>8. FreeInv'
    <3>1. op.kind = "insert" => \A k \in op.keys : table[k] = 0
      BY <1>3 DEF Duplicates
    <3> QED
      BY <2>1, <2>3, <2>4, <3>1 DEF WritesInv, FreeInv
  <2>9. VersionInv' /\ AdoptInv' /\ CurrentInv' /\ AckedIsComplete'
    BY <1>1, <2>1, <2>3, <2>4 DEF WritesInv, VersionInv, AllAgree, Agrees, AdoptInv, CurrentInv,
                                  Adopting, AckedIsComplete, Writing
  <2> QED
    BY <2>5, <2>6, <2>7, <2>8, <2>9 DEF WritesInv
<1> QED
  BY <1>2, <1>3

\* What an append in partition p leaves, whether or not the flush after it fails:
\* noted is the record of its write.
Appended(w, p, noted) ==
    LET op   == ops[proc[w].op]
        keys == { k \in op.keys : Route[k] = p }
        rest == proc[w].todo \ {p}
    IN  /\ noted.keys = op.keys /\ noted.kind = op.kind /\ noted.shape = op.shape
        /\ noted.written = { k \in op.keys : Route[k] \notin rest }
        /\ noted.status \in {"running", "ok", "failed"}
        /\ noted.status = "running" => rest # {}
        /\ noted.status = "ok" => noted.written = noted.keys
        /\ table' = [k \in Keys |-> IF k \notin keys THEN table[k]
                                    ELSE IF op.kind = "delete" THEN 0 ELSE proc[w].op]
        /\ ops' = [ops EXCEPT ![proc[w].op] = noted]
        /\ IF noted.status = "running"
           THEN proc' = [proc EXCEPT ![w] = [proc[w] EXCEPT !.todo = rest]] /\ UNCHANGED write_lock
           ELSE proc' = [proc EXCEPT ![w] = Idle] /\ write_lock' = Nobody
        /\ UNCHANGED <<adopted, schema, catalog, overtaken, halted>>

LEMMA AppendRequest ==
    ASSUME WritesInv, NEW w \in Procs, AppendPartition(w)
    PROVE  LET op == ops[proc[w].op]
           IN  /\ proc \in [Procs -> Proc] /\ ops \in Seq(Op) /\ proc[w].op \in DOMAIN ops
               /\ op \in Op /\ op.status = "running"
               /\ proc[w].pc = "append" /\ proc[w].todo # {} /\ proc[w].todo \in SUBSET Partitions
               /\ op.written = { k \in op.keys : Route[k] \notin proc[w].todo }
               /\ Min(proc[w].todo) \in proc[w].todo
<1>1. proc[w].pc = "append"
  BY DEF AppendPartition
<1>2. proc[w].todo # {} /\ proc[w].todo \in SUBSET Partitions
  BY <1>1 DEF WritesInv, TypeInv, WrittenInv, Proc
<1>3. Min(proc[w].todo) \in proc[w].todo
  BY <1>2, NextPartition
<1> QED
  BY <1>1, <1>2, <1>3 DEF WritesInv, TypeInv, OwnerInv, WrittenInv, Writing

LEMMA AppendEffect ==
    ASSUME WritesInv, NEW w \in Procs, AppendPartition(w)
    PROVE  \E noted \in Op : Appended(w, Min(proc[w].todo), noted)
<1> DEFINE op    == ops[proc[w].op]
           p     == Min(proc[w].todo)
           keys  == { k \in op.keys : Route[k] = p }
           rest  == proc[w].todo \ {p}
           next  == IF rest = {} THEN "ok" ELSE "running"
           Noted(status) == [op EXCEPT !.written = op.written \cup keys, !.status = status]
<1>1. /\ proc \in [Procs -> Proc] /\ ops \in Seq(Op) /\ proc[w].op \in DOMAIN ops
      /\ op \in Op /\ p \in proc[w].todo
      /\ op.written = { k \in op.keys : Route[k] \notin proc[w].todo }
  BY AppendRequest
<1>2. PICK status \in {next, "failed"} :
         /\ ops' = [ops EXCEPT ![proc[w].op].written = @ \cup keys,
                               ![proc[w].op].status = status]
         /\ IF status = "running"
            THEN Goto(w, [proc[w] EXCEPT !.todo = rest]) /\ UNCHANGED write_lock
            ELSE Goto(w, Idle) /\ write_lock' = Nobody
  BY DEF AppendPartition
<1>3. /\ table' = [k \in Keys |-> IF k \notin keys THEN table[k]
                                  ELSE IF op.kind = "delete" THEN 0 ELSE proc[w].op]
      /\ UNCHANGED <<adopted, schema, catalog, overtaken, halted>>
  BY DEF AppendPartition
<1>4. op.written \cup keys = { k \in op.keys : Route[k] \notin rest }
  BY <1>1
<1>5. /\ Noted(status).keys = op.keys /\ Noted(status).kind = op.kind
      /\ Noted(status).shape = op.shape /\ Noted(status).status = status
      /\ Noted(status).written = op.written \cup keys
      /\ status \in {"running", "ok", "failed"}
      /\ status = "running" => rest # {}
      /\ status = "ok" => rest = {}
  BY <1>1, <1>2 DEF Op
<1>6. Noted(status) \in Op
  BY <1>1, <1>5 DEF Op
<1>7. ops' = [ops EXCEPT ![proc[w].op] = Noted(status)]
  BY <1>1, <1>2 DEF Op
<1>8. status = "ok" => Noted(status).written = op.keys
  BY <1>4, <1>5
<1>9. IF status = "running"
      THEN proc' = [proc EXCEPT ![w] = [proc[w] EXCEPT !.todo = rest]] /\ UNCHANGED write_lock
      ELSE proc' = [proc EXCEPT ![w] = Idle] /\ write_lock' = Nobody
  BY <1>2 DEF Goto
<1> HIDE DEF Noted
<1>10. Appended(w, p, Noted(status))
  BY <1>3, <1>4, <1>5, <1>7, <1>8, <1>9 DEF Appended
<1> QED
  BY <1>6, <1>10

\* The partition's memtable and log gain the request's batch, or are emptied.
LEMMA AppendedBatch ==
    ASSUME WritesInv, NEW w \in Procs, AppendPartition(w)
    PROVE  /\ memtable' \in [Partitions -> Seq(Nat)] /\ logged' \in [Partitions -> Seq(Nat)]
           /\ AllAgree(memtable') /\ AllAgree(logged')
<1> DEFINE p     == Min(proc[w].todo)
           added == IF ops[proc[w].op].kind = "delete" THEN <<>> ELSE <<proc[w].op>>
           mem   == memtable[p] \o added
           log   == logged[p] \o added
<1>1. /\ proc[w].pc = "append" /\ p \in Partitions /\ proc[w].op \in Nat
      /\ memtable \in [Partitions -> Seq(Nat)] /\ logged \in [Partitions -> Seq(Nat)]
  BY AppendRequest DEF WritesInv, TypeInv, Proc
<1>2. \E m \in {mem, <<>>}, l \in {log, <<>>} :
         memtable' = [memtable EXCEPT ![p] = m] /\ logged' = [logged EXCEPT ![p] = l]
  <2>1. \/ memtable' = [memtable EXCEPT ![p] = mem] /\ logged' = [logged EXCEPT ![p] = log]
        \/ memtable' = [memtable EXCEPT ![p] = <<>>] /\ logged' = [logged EXCEPT ![p] = <<>>]
        \/ \E left \in FlushFailed(mem, log) :
              /\ memtable' = [memtable EXCEPT ![p] = left[1]]
              /\ logged' = [logged EXCEPT ![p] = left[2]]
    BY Zenon DEF AppendPartition
  <2> HIDE DEF mem, log
  <2> QED
    BY <2>1 DEF FlushFailed
<1>3. added \in Seq(Nat) /\ \A i \in DOMAIN added : Agrees(added[i])
  <2>1. Agrees(proc[w].op)
    BY <1>1 DEF WritesInv, VersionInv, Writing
  <2>2. CASE added = <<>>
    BY <2>2
  <2>3. CASE added = <<proc[w].op>>
    <3>1. DOMAIN added = {1} /\ added[1] = proc[w].op /\ added \in Seq(Nat)
      BY <1>1, <2>3
    <3> QED
      BY <2>1, <3>1
  <2> QED
    BY <2>2, <2>3
<1>4. /\ memtable[p] \in Seq(Nat) /\ \A i \in DOMAIN memtable[p] : Agrees(memtable[p][i])
      /\ logged[p] \in Seq(Nat) /\ \A i \in DOMAIN logged[p] : Agrees(logged[p][i])
  BY <1>1 DEF WritesInv, VersionInv, AllAgree
<1>5. ASSUME NEW s \in Seq(Nat), \A i \in DOMAIN s : Agrees(s[i])
      PROVE  s \o added \in Seq(Nat) /\ \A i \in DOMAIN (s \o added) : Agrees((s \o added)[i])
  <2> HIDE DEF added
  <2>1. ASSUME NEW i \in DOMAIN (s \o added) PROVE Agrees((s \o added)[i])
    BY <1>3, <1>5, Concatenated
  <2> QED
    BY <1>3, <2>1
<1>6. /\ mem \in Seq(Nat) /\ \A i \in DOMAIN mem : Agrees(mem[i])
      /\ log \in Seq(Nat) /\ \A i \in DOMAIN log : Agrees(log[i])
  <2> HIDE DEF added, p
  <2> QED
    BY <1>4, <1>5
<1> HIDE DEF mem, log, added, p
<1>7. PICK m \in {mem, <<>>}, l \in {log, <<>>} :
         memtable' = [memtable EXCEPT ![p] = m] /\ logged' = [logged EXCEPT ![p] = l]
  BY <1>2
<1>8. /\ m \in Seq(Nat) /\ \A i \in DOMAIN m : Agrees(m[i])
      /\ l \in Seq(Nat) /\ \A i \in DOMAIN l : Agrees(l[i])
  <2>1. (m = mem \/ m = <<>>) /\ (l = log \/ l = <<>>)
    BY <1>7
  <2> QED
    BY <1>6, <2>1, EmptySeqIsSeq
<1>9. /\ memtable' \in [Partitions -> Seq(Nat)] /\ logged' \in [Partitions -> Seq(Nat)]
      /\ memtable'[p] = m /\ logged'[p] = l
      /\ \A q \in Partitions \ {p} : memtable'[q] = memtable[q] /\ logged'[q] = logged[q]
  BY <1>1, <1>7, <1>8
<1> QED
  BY <1>8, <1>9 DEF WritesInv, VersionInv, AllAgree

\* An append writes the keys of one partition and does not touch those that
\* the write has still to do.
LEMMA AppendStep ==
    ASSUME WritesInv, NEW w \in Procs, AppendPartition(w)
    PROVE  WritesInv'
<1> DEFINE op   == ops[proc[w].op]
           p    == Min(proc[w].todo)
           keys == { k \in op.keys : Route[k] = p }
           rest == proc[w].todo \ {p}
<1>1. /\ proc \in [Procs -> Proc] /\ ops \in Seq(Op) /\ proc[w].op \in DOMAIN ops
      /\ op \in Op /\ op.status = "running"
      /\ proc[w].pc = "append" /\ proc[w].todo # {} /\ proc[w].todo \in SUBSET Partitions
      /\ op.written = { k \in op.keys : Route[k] \notin proc[w].todo }
  BY AppendRequest
<1>2. p \in proc[w].todo /\ p \in Partitions
  BY <1>1, NextPartition
<1>3. PICK noted \in Op : Appended(w, p, noted)
  BY AppendEffect
<1>4. /\ noted.keys = op.keys /\ noted.kind = op.kind /\ noted.shape = op.shape
      /\ noted.written = { k \in op.keys : Route[k] \notin rest }
      /\ noted.status \in {"running", "ok", "failed"}
      /\ noted.status = "running" => rest # {}
      /\ noted.status = "ok" => noted.written = noted.keys
  BY <1>3 DEF Appended
<1>5. /\ table' = [k \in Keys |-> IF k \notin keys THEN table[k]
                                  ELSE IF op.kind = "delete" THEN 0 ELSE proc[w].op]
      /\ ops' = [ops EXCEPT ![proc[w].op] = noted]
      /\ IF noted.status = "running"
         THEN proc' = [proc EXCEPT ![w] = [proc[w] EXCEPT !.todo = rest]] /\ UNCHANGED write_lock
         ELSE proc' = [proc EXCEPT ![w] = Idle] /\ write_lock' = Nobody
      /\ UNCHANGED <<adopted, schema, catalog, overtaken, halted>>
  BY <1>3 DEF Appended
<1>6. Keeps
  BY <1>1, <1>4, <1>5 DEF Keeps
<1>7. /\ memtable' \in [Partitions -> Seq(Nat)] /\ logged' \in [Partitions -> Seq(Nat)]
      /\ AllAgree(memtable)' /\ AllAgree(logged)' /\ Keeps
  BY <1>6, AppendedBatch, StillAgrees
<1>8. AckedIsComplete'
  <2>1. \A i \in DOMAIN ops : ops'[i] = IF i = proc[w].op THEN noted ELSE ops[i]
    BY <1>5
  <2>2. DOMAIN ops' = DOMAIN ops
    BY <1>5
  <2>3. /\ noted.status = "ok" => noted.written = noted.keys
        /\ noted.status # "refused"
    BY <1>4
  <2> QED
    BY <2>1, <2>2, <2>3 DEF WritesInv, AckedIsComplete
<1>9. \A v \in Procs \ {w} : proc[v].pc \notin Holding
  BY <1>1 DEF WritesInv, LockInv, Holding
<1>10. CASE noted.status = "running"
  <2> DEFINE to == [proc[w] EXCEPT !.todo = rest]
  <2>1. /\ to \in Proc /\ to.pc = "append" /\ to.op = proc[w].op /\ to.todo = rest
        /\ proc' = [proc EXCEPT ![w] = to] /\ UNCHANGED write_lock
    BY <1>1, <1>5, <1>10 DEF Proc
  <2> HIDE DEF to, rest, keys
  <2>2. /\ proc' \in [Procs -> Proc] /\ proc'[w] = to
        /\ \A v \in Procs \ {w} : proc'[v] = proc[v]
        /\ ops' \in Seq(Op) /\ DOMAIN ops' = DOMAIN ops /\ ops'[proc[w].op] = noted
        /\ \A i \in DOMAIN ops \ {proc[w].op} : ops'[i] = ops[i]
    BY <1>1, <1>5, <1>4, <2>1
  <2>3. TypeInv'
    BY <1>5, <1>7, <2>2 DEF WritesInv, TypeInv
  <2>4. \A v \in Procs \ {w} : proc[v].pc \in Writing => proc[v].op \in DOMAIN ops \ {proc[w].op}
    BY <1>1 DEF WritesInv, OwnerInv, Writing
  <2>5. LockInv' /\ OwnerInv'
    BY <1>1, <1>4, <1>10, <2>1, <2>2, <2>4 DEF WritesInv, LockInv, OwnerInv, Holding, Writing
  <2>6. WrittenInv'
    BY <1>4, <1>10, <2>1, <2>2, <2>4 DEF WritesInv, WrittenInv, Writing
  <2>7. FreeInv'
    <3>1. ASSUME op.kind = "insert", NEW k \in op.keys, Route[k] \in rest
          PROVE  table'[k] = 0
      BY <1>1, <1>5, <3>1 DEF WritesInv, FreeInv, Op, rest, keys
    <3>2. ASSUME NEW v \in Procs \ {w} PROVE proc'[v].pc # "append"
      BY <1>9, <2>2, <3>2 DEF Holding
    <3> QED
      BY <1>4, <2>1, <2>2, <3>1, <3>2 DEF FreeInv
  <2>8. VersionInv'
    <3>1. \A v \in Procs : proc'[v].pc \in Writing =>
              proc[v].pc \in Writing /\ proc'[v].op = proc[v].op
      BY <1>1, <2>1, <2>2 DEF Writing
    <3> QED
      BY <1>7, <3>1, StillAgrees DEF WritesInv, VersionInv
  <2>9. AdoptInv' /\ CurrentInv'
    <3>1. \A v \in Procs : ~Adopting(v) /\ ~Adopting(v)'
      BY <1>1, <1>9, <2>1, <2>2 DEF Adopting, Holding
    <3> QED
      BY <1>5, <3>1 DEF WritesInv, AdoptInv, CurrentInv
  <2> QED
    BY <1>8, <2>3, <2>5, <2>6, <2>7, <2>8, <2>9 DEF WritesInv
<1>11. CASE noted.status # "running"
  <2>1. proc' = [proc EXCEPT ![w] = Idle] /\ write_lock' = Nobody
    BY <1>5, <1>11
  <2>2. ops' = [ops EXCEPT ![proc[w].op] = noted] /\ proc[w].pc \in Writing
    BY <1>1, <1>5 DEF Writing
  <2>3. /\ proc' \in [Procs -> Proc] /\ ops' \in Seq(Op) /\ proc'[w] = Idle
        /\ \A v \in Procs \ {w} : proc'[v] = proc[v]
        /\ \A v \in Procs \ {w} : proc[v].pc \in Writing => ops'[proc[v].op] = ops[proc[v].op]
        /\ OwnerInv'
    BY <1>4, <2>1, <2>2, EndKeepsOthers
  <2>4. \A v \in Procs : proc'[v].pc \notin Holding
    BY <1>9, <2>3 DEF Idle, Holding
  <2>5. TypeInv'
    BY <1>5, <1>7, <2>3 DEF WritesInv, TypeInv
  <2>6. LockInv' /\ FreeInv' /\ AdoptInv' /\ CurrentInv'
    <3>1. \A v \in Procs : ~Adopting(v) /\ ~Adopting(v)'
      BY <1>1, <1>9, <2>4 DEF Adopting, Holding
    <3> QED
      BY <1>5, <2>4, <3>1 DEF WritesInv, LockInv, FreeInv, AdoptInv, CurrentInv, Holding
  <2>7. WrittenInv'
    <3>1. \A v \in Procs : proc'[v].pc \in Writing =>
              proc[v].pc \in Writing /\ proc'[v] = proc[v] /\ ops'[proc[v].op] = ops[proc[v].op]
      BY <2>3 DEF Idle, Writing
    <3> QED
      BY <2>4, <3>1 DEF WritesInv, WrittenInv, Writing, Holding
  <2>8. VersionInv'
    <3>1. \A v \in Procs : proc'[v].pc \in Writing => proc[v].pc \in Writing /\ proc'[v] = proc[v]
      BY <2>3 DEF Idle, Writing
    <3> QED
      BY <1>7, <3>1, StillAgrees DEF WritesInv, VersionInv
  <2> QED
    BY <1>8, <2>3, <2>5, <2>6, <2>7, <2>8 DEF WritesInv
<1> QED
  BY <1>10, <1>11

\* A schema change before it has the lock writes nothing.
LEMMA EvolveStep ==
    ASSUME WritesInv, NEW e \in Procs,
           (e \in Evolvers /\ CommitSchema(e)) \/ ReadSchema(e) \/ CheckEvolution(e)
    PROVE  WritesInv'
<1>1. /\ proc \in [Procs -> Proc] /\ catalog \in Nat
      /\ UNCHANGED <<table, memtable, logged, adopted, schema, write_lock, ops, overtaken, halted>>
      /\ proc[e].pc \notin Holding \cup Writing
  BY DEF WritesInv, TypeInv, CommitSchema, ReadSchema, CheckEvolution, Holding, Writing
<1>2. PICK s \in Proc : /\ proc' = [proc EXCEPT ![e] = s]
                        /\ s.pc \in {"idle", "evolve_read", "evolve_check", "evolve_wait"}
  <2>1. Idle \in Proc /\ Idle.pc = "idle"
    BY DEF Idle, Proc
  <2>2. ASSUME NEW q \in Proc, NEW pc \in {"evolve_read", "evolve_check", "evolve_wait"}
        PROVE  /\ [q EXCEPT !.pc = pc] \in Proc /\ [q EXCEPT !.pc = pc].pc = pc
               /\ [q EXCEPT !.pc = pc, !.version = catalog] \in Proc
               /\ [q EXCEPT !.pc = pc, !.version = catalog].pc = pc
    BY <1>1 DEF Proc
  <2>3. proc[e] \in Proc
    BY <1>1
  <2>4. CASE CommitSchema(e)
    BY <2>1, <2>2, <2>4 DEF CommitSchema, Goto
  <2>5. CASE ReadSchema(e)
    BY <2>2, <2>3, <2>5 DEF ReadSchema, Goto
  <2>6. CASE CheckEvolution(e)
    BY <2>1, <2>2, <2>3, <2>6 DEF CheckEvolution, Goto
  <2> QED
    BY <2>4, <2>5, <2>6
<1>3. /\ proc' \in [Procs -> Proc]
      /\ proc'[e].pc \notin Holding \cup Writing
      /\ \A v \in Procs \ {e} : proc'[v] = proc[v]
  BY <1>1, <1>2 DEF Holding, Writing
<1>4. catalog' \in Nat
  BY <1>1 DEF CommitSchema, ReadSchema, CheckEvolution
<1>5. TypeInv'
  BY <1>1, <1>3, <1>4 DEF WritesInv, TypeInv
<1>6. LockInv' /\ OwnerInv'
  BY <1>1, <1>3 DEF WritesInv, LockInv, OwnerInv
<1>7. WrittenInv' /\ FreeInv' /\ AckedIsComplete'
  BY <1>1, <1>3 DEF WritesInv, WrittenInv, FreeInv, AckedIsComplete, Holding, Writing
<1>8. VersionInv'
  BY <1>1, <1>3 DEF WritesInv, VersionInv, AllAgree, Agrees
<1>9. AdoptInv' /\ CurrentInv'
  BY <1>1, <1>3 DEF WritesInv, AdoptInv, CurrentInv, Adopting, Holding
<1> QED
  BY <1>5, <1>6, <1>7, <1>8, <1>9 DEF WritesInv

\* The flush before an adoption ends the request, or empties every memtable; it
\* covers batches and brings none back.
LEMMA FlushAllStep ==
    ASSUME WritesInv, NEW e \in Procs, FlushAll(e)
    PROVE  WritesInv'
<1> DEFINE wedged == { p \in Partitions : ~Concats(p, memtable[p]) }
           to     == [proc[e] EXCEPT !.pc = "evolve_adopt", !.todo = Partitions]
<1>1. /\ proc \in [Procs -> Proc]
      /\ memtable \in [Partitions -> Seq(Nat)] /\ logged \in [Partitions -> Seq(Nat)]
      /\ proc[e].pc = "evolve_flush"
      /\ UNCHANGED <<table, adopted, schema, catalog, ops, overtaken, halted>>
  BY DEF WritesInv, TypeInv, FlushAll
<1>2. /\ memtable' \in [Partitions -> Seq(Nat)]
      /\ \A p \in Partitions : memtable'[p] \in {<<>>, memtable[p]}
  <2>1. \/ memtable' = [p \in Partitions |-> IF p \in Flushed(wedged) THEN <<>> ELSE memtable[p]]
        \/ \E f \in Flushed(wedged) : \E left \in FlushFailed(memtable[f], logged[f]) :
              memtable' = [p \in Partitions |-> IF p = f THEN left[1]
                                               ELSE IF p < f THEN <<>> ELSE memtable[p]]
    BY Zenon DEF FlushAll
  <2> HIDE DEF wedged
  <2>2. /\ memtable' = [p \in Partitions |-> memtable'[p]]
        /\ \A p \in Partitions : memtable'[p] \in {<<>>, memtable[p]}
    BY <2>1 DEF FlushFailed
  <2> QED
    BY <1>1, <2>2, EmptySeqIsSeq
<1>3. /\ logged' \in [Partitions -> Seq(Nat)]
      /\ \A p \in Partitions : logged'[p] \in {<<>>, logged[p]}
  <2>1. \/ \E moved \in SUBSET Partitions :
              logged' = [p \in Partitions |->
                  IF p \in Flushed(wedged) /\ (memtable[p] # <<>> \/ p \in moved)
                  THEN <<>> ELSE logged[p]]
        \/ \E f \in Flushed(wedged) : \E left \in FlushFailed(memtable[f], logged[f]) :
              \E moved \in SUBSET Partitions :
                  logged' = [p \in Partitions |->
                      IF p = f THEN left[2]
                      ELSE IF p < f /\ (memtable[p] # <<>> \/ p \in moved)
                           THEN <<>> ELSE logged[p]]
    BY Zenon DEF FlushAll
  <2> HIDE DEF wedged
  <2>2. /\ logged' = [p \in Partitions |-> logged'[p]]
        /\ \A p \in Partitions : logged'[p] \in {<<>>, logged[p]}
    BY <2>1 DEF FlushFailed
  <2> QED
    BY <1>1, <2>2, EmptySeqIsSeq
<1>4. \/ /\ proc' = [proc EXCEPT ![e] = to] /\ UNCHANGED write_lock
         /\ \A p \in Partitions : memtable'[p] = <<>>
      \/ proc' = [proc EXCEPT ![e] = Idle] /\ write_lock' = Nobody
  BY DEF FlushAll, Flushed, Goto
<1>5. to \in Proc /\ to.pc = "evolve_adopt" /\ to.todo = Partitions
  BY <1>1 DEF Proc, Holding
<1>6. Idle \in Proc /\ Idle.pc = "idle"
  BY DEF Idle, Proc
<1> HIDE DEF wedged, to
<1>7. PICK s \in Proc :
          /\ proc' = [proc EXCEPT ![e] = s]
          /\ \/ /\ s.pc = "evolve_adopt" /\ s.todo = Partitions /\ UNCHANGED write_lock
                /\ \A p \in Partitions : memtable'[p] = <<>>
             \/ s.pc = "idle" /\ write_lock' = Nobody
  BY <1>4, <1>5, <1>6
<1>8. /\ proc' \in [Procs -> Proc] /\ proc'[e] = s
      /\ \A v \in Procs \ {e} : proc'[v] = proc[v] /\ proc[v].pc \notin Holding
  BY <1>1, <1>7 DEF WritesInv, LockInv, Holding
<1>9. TypeInv'
  BY <1>1, <1>2, <1>3, <1>8 DEF WritesInv, TypeInv
<1>10. LockInv' /\ OwnerInv'
  BY <1>1, <1>7, <1>8 DEF WritesInv, LockInv, OwnerInv, Holding, Writing
<1>11. WrittenInv' /\ FreeInv' /\ AckedIsComplete'
  BY <1>1, <1>7, <1>8 DEF WritesInv, WrittenInv, FreeInv, AckedIsComplete, Holding, Writing
<1>12. VersionInv'
  <2>1. AllAgree(memtable') /\ AllAgree(logged')
    BY <1>2, <1>3, StillAllAgree DEF WritesInv, VersionInv
  <2>2. \A v \in Procs : proc'[v].pc \in Writing => proc[v].pc \in Writing /\ proc'[v] = proc[v]
    BY <1>7, <1>8 DEF Writing
  <2>3. Keeps
    BY <1>1 DEF Keeps
  <2> QED
    BY <2>1, <2>2, <2>3, StillAgrees DEF WritesInv, VersionInv
<1>13. AdoptInv' /\ CurrentInv'
  <2>1. \A v \in Procs : ~Adopting(v)
    BY <1>1, <1>8 DEF Adopting, Holding
  <2>2. \A v \in Procs \ {e} : ~Adopting(v)'
    BY <1>8 DEF Adopting, Holding
  <2> QED
    BY <1>1, <1>7, <1>8, <2>1, <2>2, WritesAssumption DEF WritesInv, AdoptInv, CurrentInv, Adopting
<1> QED
  BY <1>9, <1>10, <1>11, <1>12, <1>13 DEF WritesInv

\* The partitions adopt a version one by one, with nothing buffered.  The table's
\* version changes when none has anything left to replay, and what is running
\* then is overtaken; a manifest that fails before leaves what halted records.
LEMMA AdoptStep ==
    ASSUME WritesInv, NEW e \in Procs, AdoptSchema(e)
    PROVE  WritesInv'
<1> DEFINE p    == Min(proc[e].todo)
           rest == proc[e].todo \ {p}
           to   == [proc[e] EXCEPT !.todo = rest]
           done == /\ schema' = proc[e].version
                   /\ overtaken' = overtaken \cup
                         { proc[w].op : w \in { v \in Writers : proc[v].pc # "idle" } }
                   /\ logged' = [logged EXCEPT ![p] = <<>>] /\ rest = {}
<1>1. /\ proc \in [Procs -> Proc] /\ adopted \in [Partitions -> Nat]
      /\ logged \in [Partitions -> Seq(Nat)]
      /\ proc[e].pc = "evolve_adopt" /\ proc[e].version \in Nat
      /\ proc[e].todo \in SUBSET Partitions /\ proc[e].todo # {}
      /\ \A q \in Partitions : memtable[q] = <<>>
      /\ \A q \in Partitions \ proc[e].todo : logged[q] = <<>> /\ adopted[q] = proc[e].version
      /\ UNCHANGED <<table, memtable, catalog, ops>>
  BY DEF WritesInv, TypeInv, AdoptInv, Adopting, AdoptSchema, Proc
<1>2. p \in proc[e].todo /\ p \in Partitions
  BY <1>1, NextPartition
<1>3. /\ adopted' = [adopted EXCEPT ![p] = proc[e].version]
      /\ logged' \in {logged, [logged EXCEPT ![p] = <<>>]}
  BY DEF AdoptSchema
<1>4. \/ /\ proc' = [proc EXCEPT ![e] = to] /\ rest # {}
         /\ logged' = [logged EXCEPT ![p] = <<>>]
         /\ UNCHANGED <<schema, write_lock, overtaken, halted>>
      \/ proc' = [proc EXCEPT ![e] = Idle] /\ write_lock' = Nobody /\ done
      \/ /\ proc' = [proc EXCEPT ![e] = Idle] /\ write_lock' = Nobody
         /\ halted' = { q \in Partitions : adopted'[q] # schema }
         /\ UNCHANGED <<schema, overtaken>>
  BY DEF AdoptSchema, Goto
<1>5. to \in Proc /\ to.pc = "evolve_adopt" /\ to.todo = rest /\ to.version = proc[e].version
  BY <1>1 DEF Proc
<1>6. Idle \in Proc /\ Idle.pc = "idle"
  BY DEF Idle, Proc
<1> HIDE DEF p, rest, to
<1>7. PICK s \in Proc :
          /\ proc' = [proc EXCEPT ![e] = s]
          /\ \/ /\ s = to /\ rest # {} /\ logged' = [logged EXCEPT ![p] = <<>>]
                /\ UNCHANGED <<schema, write_lock, overtaken, halted>>
             \/ s = Idle /\ write_lock' = Nobody /\ done
             \/ /\ s = Idle /\ write_lock' = Nobody
                /\ halted' = { q \in Partitions : adopted'[q] # schema }
                /\ UNCHANGED <<schema, overtaken>>
  BY <1>4, <1>5, <1>6
<1>8. /\ proc' \in [Procs -> Proc] /\ proc'[e] = s /\ s.pc \notin Writing
      /\ \A v \in Procs \ {e} : proc'[v] = proc[v] /\ proc[v].pc \notin Holding
  BY <1>1, <1>5, <1>6, <1>7 DEF WritesInv, LockInv, Holding, Writing
<1>9. /\ adopted' \in [Partitions -> Nat] /\ adopted'[p] = proc[e].version
      /\ \A q \in Partitions \ {p} : adopted'[q] = adopted[q]
      /\ logged' \in [Partitions -> Seq(Nat)]
      /\ logged'[p] \in {<<>>, logged[p]}
      /\ \A q \in Partitions \ {p} : logged'[q] = logged[q]
      /\ logged' = [logged EXCEPT ![p] = <<>>] => logged'[p] = <<>>
  <2>1. CASE logged' = logged
    BY <1>1, <1>2, <1>3, <2>1
  <2>2. CASE logged' = [logged EXCEPT ![p] = <<>>]
    <3>1. adopted' = [adopted EXCEPT ![p] = proc[e].version]
      BY <1>3
    <3>2. <<>> \in Seq(Nat)
      OBVIOUS
    <3> QED
      BY <1>1, <1>2, <2>2, <3>1, <3>2
  <2> QED
    BY <1>3, <2>1, <2>2
<1>10. TypeInv'
  BY <1>1, <1>7, <1>8, <1>9 DEF WritesInv, TypeInv
<1>11. LockInv' /\ OwnerInv'
  BY <1>1, <1>5, <1>6, <1>7, <1>8 DEF WritesInv, LockInv, OwnerInv, Holding
<1>12. WrittenInv' /\ FreeInv' /\ AckedIsComplete'
  BY <1>1, <1>5, <1>6, <1>7, <1>8 DEF WritesInv, WrittenInv, FreeInv, AckedIsComplete, Holding, Writing
<1>13. \A v \in Procs : proc'[v].pc \in Writing => v # e /\ proc[v].pc \in Writing /\ proc'[v] = proc[v]
  BY <1>8
<1>14. VersionInv'
  <2>1. CASE done
    <3>1. \A q \in Partitions : memtable'[q] = <<>> /\ logged'[q] = <<>>
      BY <1>1, <1>9, <2>1 DEF rest
    <3>2. ASSUME NEW v \in Procs, proc'[v].pc \in Writing PROVE Agrees(proc[v].op)'
      <4>1. v \in Writers /\ proc[v].op \in DOMAIN ops /\ proc[v].pc # "idle"
        BY <1>13, <3>2 DEF WritesInv, OwnerInv, Writing
      <4> QED
        BY <1>1, <1>13, <2>1, <3>2, <4>1 DEF Agrees
    <3>3. AllAgree(memtable)' /\ AllAgree(logged)'
      BY <3>1 DEF AllAgree
    <3> QED
      BY <1>13, <3>2, <3>3 DEF VersionInv, Agrees
  <2>2. CASE UNCHANGED <<schema, overtaken>>
    <3>1. AllAgree(memtable') /\ AllAgree(logged')
      BY <1>1, <1>2, <1>9 DEF WritesInv, VersionInv, AllAgree
    <3>2. Keeps
      BY <1>1, <2>2 DEF Keeps
    <3> QED
      BY <1>13, <3>1, <3>2, StillAgrees DEF WritesInv, VersionInv
  <2> QED
    BY <1>7, <2>1, <2>2
<1>15. \A v \in Procs \ {e} : ~Adopting(v)'
  BY <1>8 DEF Adopting, Holding
<1>16. AdoptInv'
  <2>1. CASE s = to /\ rest # {} /\ logged' = [logged EXCEPT ![p] = <<>>]
    BY <1>1, <1>2, <1>5, <1>8, <1>9, <1>15, <2>1 DEF AdoptInv, rest
  <2>2. CASE s = Idle
    BY <1>6, <1>8, <1>15, <2>2 DEF AdoptInv, Adopting
  <2> QED
    BY <1>7, <2>1, <2>2
<1>17. CurrentInv'
  <2>1. CASE s = to
    BY <1>5, <1>8, <2>1 DEF CurrentInv, Adopting
  <2>2. CASE done
    <3>1. \A q \in Partitions : adopted'[q] = schema'
      BY <1>1, <1>9, <2>2 DEF rest
    <3> QED
      BY <3>1 DEF CurrentInv
  <2>3. CASE halted' = { q \in Partitions : adopted'[q] # schema } /\ UNCHANGED schema
    BY <2>3 DEF CurrentInv
  <2> QED
    BY <1>7, <2>1, <2>2, <2>3
<1> QED
  BY <1>10, <1>11, <1>12, <1>14, <1>16, <1>17 DEF WritesInv

\* A restart ends every request and opens with the catalog's version; if that is a
\* later one, what it replays is overtaken.
LEMMA RestartStep ==
    ASSUME WritesInv, Restart
    PROVE  WritesInv'
<1>1. /\ ops \in Seq(Op) /\ DOMAIN ops = 1 .. Len(ops) /\ Len(ops) \in Nat
      /\ catalog \in Nat /\ Idle \in Proc /\ Idle.pc = "idle"
      /\ ops' = [i \in DOMAIN ops |->
                    IF ops[i].status = "running" THEN [ops[i] EXCEPT !.status = "died"] ELSE ops[i]]
      /\ proc' = [w \in Procs |-> Idle]
      /\ schema' = catalog /\ adopted' = [p \in Partitions |-> catalog]
      /\ UNCHANGED <<table, logged, catalog>> /\ memtable' = logged
      /\ logged \in [Partitions -> Seq(Nat)]
  BY DEF WritesInv, TypeInv, Restart, Idle, Proc
<1>2. ASSUME NEW i \in DOMAIN ops
      PROVE  /\ ops'[i] \in Op
             /\ ops'[i].status \in {"ok", "refused"} => ops'[i] = ops[i]
             /\ ops'[i].shape = ops[i].shape
  <2>1. /\ [ops[i] EXCEPT !.status = "died"] \in Op
        /\ [ops[i] EXCEPT !.status = "died"].status = "died"
        /\ [ops[i] EXCEPT !.status = "died"].shape = ops[i].shape
    <3>1. ops[i] \in Op
      BY <1>1
    <3>2. ASSUME NEW o \in Op
          PROVE  /\ [o EXCEPT !.status = "died"] \in Op /\ [o EXCEPT !.status = "died"].status = "died"
                 /\ [o EXCEPT !.status = "died"].shape = o.shape
      BY DEF Op
    <3> QED
      BY <3>1, <3>2
  <2> QED
    BY <1>1, <2>1
<1>3. ops' \in Seq(Op)
  BY <1>1, <1>2
<1>4. \A w \in Procs : proc'[w].pc = "idle"
  BY <1>1
<1>5. TypeInv'
  BY <1>1, <1>3 DEF WritesInv, TypeInv
<1>6. LockInv' /\ OwnerInv' /\ WrittenInv' /\ FreeInv' /\ AdoptInv' /\ CurrentInv'
  BY <1>1, <1>4 DEF LockInv, OwnerInv, WrittenInv, FreeInv, AdoptInv, CurrentInv, Adopting, Holding,
                    Writing
<1>7. VersionInv'
  <2>1. overtaken' = IF schema = catalog THEN overtaken ELSE overtaken \cup BatchesIn(logged)
    BY DEF Restart
  <2>2. \A p \in Partitions : \A i \in DOMAIN logged[p] :
            Agrees(logged[p][i]) /\ logged[p][i] \in BatchesIn(logged)
    BY DEF WritesInv, VersionInv, AllAgree, BatchesIn
  <2>3. \A p \in Partitions : \A i \in DOMAIN logged[p] : Agrees(logged[p][i])'
    BY <1>1, <1>2, <2>1, <2>2 DEF Agrees
  <2>4. AllAgree(memtable)' /\ AllAgree(logged)'
    BY <1>1, <2>3 DEF AllAgree
  <2> QED
    BY <1>4, <2>4 DEF VersionInv, Writing
<1>8. AckedIsComplete'
  BY <1>1, <1>2 DEF WritesInv, AckedIsComplete
<1> QED
  BY <1>5, <1>6, <1>7, <1>8 DEF WritesInv

-----------------------------------------------------------------------------
(* The theorems.                                                           *)

(* Every step of a request, and a restart, keeps the invariant.            *)
LEMMA WritesInvInductive ==
    ASSUME WritesInv, [Next]_vars
    PROVE  WritesInv'
<1>1. CASE Request
  <2>1. ASSUME NEW w \in Writers, NEW kind \in {"insert", "upsert", "delete"},
               NEW keys \in (SUBSET Keys) \ {{}}, Begin(w, kind, keys)
        PROVE  WritesInv'
    BY <2>1, BeginStep
  <2>2. ASSUME NEW e \in Evolvers, CommitSchema(e)
        PROVE  WritesInv'
    BY <2>2, EvolveStep DEF Procs
  <2> QED
    BY <1>1, <2>1, <2>2 DEF Request
<1>2. ASSUME NEW w \in Procs, Work(w)
      PROVE  WritesInv'
  BY <1>2, AcquireStep, CheckStep, AppendStep, EvolveStep, FlushAllStep, AdoptStep DEF Work
<1>3. CASE Restart
  BY <1>3, RestartStep
<1>4. CASE UNCHANGED vars
  BY <1>4 DEF vars, WritesInv, TypeInv, LockInv, OwnerInv, WrittenInv, FreeInv, VersionInv, AllAgree,
              Agrees, AdoptInv, CurrentInv, Adopting, AckedIsComplete
<1> QED
  BY <1>1, <1>2, <1>3, <1>4 DEF Next

(* It holds throughout.                                                    *)
LEMMA WritesInvHolds == Spec => []WritesInv
<1>1. WritesInv /\ [Next]_vars => WritesInv'
  BY WritesInvInductive
<1> QED
  BY InitInv, <1>1, PTL DEF Spec

(* An acknowledged write changed each of its keys in every partition, a    *)
(* refused one none, whatever ran beside it (check, then append under one  *)
(* hold of write_lock).                                                    *)
THEOREM AcknowledgedIsComplete == Spec => []AckedIsComplete
<1>1. WritesInv => AckedIsComplete
  BY DEF WritesInv
<1> QED
  BY WritesInvHolds, <1>1, PTL

(* A buffered batch has its partition's schema version, through failed     *)
(* flushes, failed adoptions and restarts: set_schema flushes every        *)
(* partition under the lock it adopts under, and a memtable is empty when  *)
(* its partition adopts.  The exceptions are those the property names: a   *)
(* write that an adoption or a restart overtook, a partition that a failed *)
(* set_schema left on another version than the table's.                    *)
THEOREM NoBatchStraddlesVersions == Spec => []NoBatchStraddles
<1>1. ASSUME WritesInv PROVE NoBatchStraddles
  <2>1. CASE \E w \in Procs : Adopting(w)
    BY <1>1, <2>1 DEF WritesInv, AdoptInv, NoBatchStraddles
  <2>2. CASE \A w \in Procs : ~Adopting(w)
    BY <1>1, <2>2 DEF WritesInv, CurrentInv, VersionInv, AllAgree, Agrees, Shape, NoBatchStraddles
  <2> QED
    BY <2>1, <2>2
<1> QED
  BY WritesInvHolds, <1>1, PTL

(* An insert never replaces a row: the keys it found free are free when it *)
(* writes them, since nobody else has held write_lock in between.          *)
THEOREM InsertsNeverReplace == Spec => InsertNeverReplaces
<1> DEFINE Replaces(k) == /\ table'[k] \notin {0, table[k]} /\ ops'[table'[k]].kind = "insert"
                          /\ table[k] # 0
<1>1. ASSUME WritesInv, [Next]_vars, NEW k \in Keys, Replaces(k)
      PROVE  FALSE
  <2>1. CASE UNCHANGED table
    BY <1>1, <2>1
  <2>2. CASE \E w \in Procs : AppendPartition(w)
    <3>1. PICK w \in Procs : AppendPartition(w)
      BY <2>2
    <3> DEFINE op    == ops[proc[w].op]
               p     == Min(proc[w].todo)
               keys  == { j \in op.keys : Route[j] = p }
    <3>2. /\ ops \in Seq(Op) /\ proc[w].op \in DOMAIN ops
          /\ proc[w].pc = "append" /\ p \in proc[w].todo
      BY <1>1, <3>1, AppendRequest
    <3>3. /\ table'[k] = IF k \notin keys THEN table[k]
                         ELSE IF op.kind = "delete" THEN 0 ELSE proc[w].op
          /\ ops'[proc[w].op].kind = op.kind
      BY <1>1, <3>1, <3>2, AppendEffect DEF Appended
    <3>4. k \in op.keys /\ Route[k] = p /\ table'[k] = proc[w].op
      BY <1>1, <3>3
    <3> QED
      BY <1>1, <3>2, <3>3, <3>4 DEF WritesInv, FreeInv
  <2> QED
    BY <1>1, <2>1, <2>2 DEF Next, Request, Begin, CommitSchema, Work, Acquire, Check, ReadSchema,
                            CheckEvolution, FlushAll, AdoptSchema, Restart, vars
<1>2. WritesInv /\ [Next]_vars =>
          [\A k \in Keys : table'[k] \notin {0, table[k]} /\ ops'[table'[k]].kind = "insert"
              => table[k] = 0]_vars
  BY <1>1
<1> QED
  BY WritesInvHolds, <1>2, PTL DEF Spec, InsertNeverReplaces

=============================================================================
