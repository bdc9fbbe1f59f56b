--------------------------- MODULE EngineDdlProofs ---------------------------
(***************************************************************************)
(* Proofs about module EngineDdl, for any finite sets of tables and        *)
(* catalog requests, any writers and any number of restarts: replaying the *)
(* system log gives the published catalog, and while catalog changes run   *)
(* one at a time the registry and the files agree with it, no acknowledged *)
(* row is lost, and a new table is empty.                                  *)
(***************************************************************************)
EXTENDS EngineDdl, FiniteSetTheorems, WellFoundedInduction, TLAPS

-----------------------------------------------------------------------------
(* Replaying the log.                                                      *)

\* The mutations a log may hold.
Logged == [op : {"create_database", "drop_database"}, table : {""}]
          \cup [op : {"create_table", "drop_table"}, table : Tables]

Catalogs == [ok : BOOLEAN, db : BOOLEAN, tables : SUBSET Tables]

\* f lists the catalogs that replaying a log goes through.
IsRun(f, log) ==
    f = [n \in 0 .. Len(log) |-> IF n = 0 THEN Empty ELSE ReplayOne(f[n - 1], log[n])]

\* A nonempty set of naturals has a least element.
LEMMA LeastExists ==
    ASSUME NEW S, S \subseteq Nat, S # {}
    PROVE  \E x \in S : \A y \in S : x <= y
<1>1. IsWellFoundedOn(OpToRel(<, Nat), Nat)
  BY NatLessThanWellFounded
<1>2. PICK x \in S : \A y \in S : ~(<<y, x>> \in OpToRel(<, Nat))
  BY <1>1, WFMin, Zenon
<1>3. ASSUME NEW y \in S PROVE x <= y
  <2>1. <<y, x>> \in Nat \X Nat
    OBVIOUS
  <2>2. ~(y < x)
    BY <1>2, <2>1 DEF OpToRel
  <2> QED
    BY <2>2
<1> QED
  BY <1>3

\* What a run is, step by step.
LEMMA RunSteps ==
    ASSUME NEW log \in Seq(Logged), NEW f, IsRun(f, log)
    PROVE  /\ DOMAIN f = 0 .. Len(log)
           /\ f[0] = Empty
           /\ \A n \in 1 .. Len(log) : f[n] = ReplayOne(f[n - 1], log[n])
<1> DEFINE g == [n \in 0 .. Len(log) |-> IF n = 0 THEN Empty ELSE ReplayOne(f[n - 1], log[n])]
<1>1. f = g
  BY DEF IsRun
<1>2. Len(log) \in Nat
  OBVIOUS
<1>3. DOMAIN g = 0 .. Len(log)
  OBVIOUS
<1>4. g[0] = Empty
  BY <1>2
<1>5. ASSUME NEW n \in 1 .. Len(log) PROVE g[n] = ReplayOne(f[n - 1], log[n])
  BY <1>2
<1> HIDE DEF g
<1> QED
  BY <1>1, <1>3, <1>4, <1>5, Zenon

\* A log has one run at most: two runs would differ at a least position.
LEMMA RunIsUnique ==
    ASSUME NEW log \in Seq(Logged), NEW f, NEW g, IsRun(f, log), IsRun(g, log)
    PROVE  f = g
<1> DEFINE D == { n \in 0 .. Len(log) : f[n] # g[n] }
<1>1. /\ DOMAIN f = 0 .. Len(log) /\ f[0] = Empty
      /\ \A n \in 1 .. Len(log) : f[n] = ReplayOne(f[n - 1], log[n])
  BY RunSteps
<1>2. /\ DOMAIN g = 0 .. Len(log) /\ g[0] = Empty
      /\ \A n \in 1 .. Len(log) : g[n] = ReplayOne(g[n - 1], log[n])
  BY RunSteps
<1>3. ASSUME D # {} PROVE FALSE
  <2>1. D \subseteq Nat
    OBVIOUS
  <2>2. PICK n \in D : \A m \in D : n <= m
    BY <1>3, <2>1, LeastExists, Zenon
  <2>3. n # 0 /\ n \in 1 .. Len(log) /\ n - 1 \in 0 .. Len(log) /\ ~(n <= n - 1)
    BY <1>1, <1>2
  <2>4. f[n - 1] = g[n - 1]
    BY <2>2, <2>3
  <2> QED
    BY <1>1, <1>2, <2>3, <2>4
<1>4. \A n \in 0 .. Len(log) : f[n] = g[n]
  BY <1>3
<1>5. f = [n \in 0 .. Len(log) |-> f[n]] /\ g = [n \in 0 .. Len(log) |-> g[n]]
  <2>1. f = [n \in DOMAIN f |-> f[n]]
    BY DEF IsRun
  <2>2. g = [n \in DOMAIN g |-> g[n]]
    BY DEF IsRun
  <2> QED
    BY <1>1, <1>2, <2>1, <2>2, Zenon
<1> QED
  BY <1>4, <1>5

\* The run of a log and one more mutation.
LEMMA RunExtends ==
    ASSUME NEW log \in Seq(Logged), NEW m \in Logged, NEW f, IsRun(f, log)
    PROVE  \E g : IsRun(g, Append(log, m)) /\ g[Len(log) + 1] = ReplayOne(f[Len(log)], m)
<1> DEFINE l == Append(log, m)
           k == Len(log)
           g == [n \in 0 .. k + 1 |-> IF n = k + 1 THEN ReplayOne(f[k], m) ELSE f[n]]
<1>1. k \in Nat /\ Len(l) = k + 1 /\ l[k + 1] = m /\ \A n \in 1 .. k : l[n] = log[n]
  OBVIOUS
<1>2. /\ f[0] = Empty
      /\ \A n \in 1 .. k : f[n] = ReplayOne(f[n - 1], log[n])
  BY RunSteps
<1>3. ASSUME NEW n \in 0 .. Len(l)
      PROVE  g[n] = IF n = 0 THEN Empty ELSE ReplayOne(g[n - 1], l[n])
  <2>1. CASE n = 0
    BY <1>1, <1>2, <2>1
  <2>2. CASE n = k + 1
    <3>1. g[n] = ReplayOne(f[k], m) /\ g[n - 1] = f[k]
      BY <1>1, <2>2
    <3> QED
      BY <1>1, <2>2, <3>1
  <2>3. CASE n \in 1 .. k
    <3>1. g[n] = f[n] /\ g[n - 1] = f[n - 1] /\ l[n] = log[n]
      BY <1>1, <2>3
    <3>2. f[n] = ReplayOne(f[n - 1], log[n])
      BY <1>2, <2>3
    <3> QED
      BY <2>3, <3>1, <3>2
  <2> QED
    BY <1>1, <2>1, <2>2, <2>3
<1>4. g = [n \in 0 .. Len(l) |-> g[n]]
  BY <1>1
<1>5. g[k + 1] = ReplayOne(f[k], m)
  BY <1>1
<1> HIDE DEF g, l
<1>6. g = [n \in 0 .. Len(l) |-> IF n = 0 THEN Empty ELSE ReplayOne(g[n - 1], l[n])]
  BY <1>3, <1>4
<1> QED
  BY <1>5, <1>6 DEF IsRun, l

\* Every log has a run: a shortest log without one would extend one with.
LEMMA RunExists ==
    ASSUME NEW log \in Seq(Logged)
    PROVE  \E f : IsRun(f, log)
<1> DEFINE Bad == { n \in Nat : \E l \in Seq(Logged) : Len(l) = n /\ ~\E f : IsRun(f, l) }
<1>1. ASSUME Bad # {} PROVE FALSE
  <2>1. PICK n \in Bad : \A k \in Bad : n <= k
    BY <1>1, LeastExists, Zenon
  <2>2. PICK l \in Seq(Logged) : Len(l) = n /\ ~\E f : IsRun(f, l)
    BY <2>1
  <2>3. CASE n = 0
    <3>1. IsRun([i \in 0 .. 0 |-> Empty], l)
      BY <2>2, <2>3 DEF IsRun
    <3> QED
      BY <2>2, <3>1
  <2>4. CASE n # 0
    <3> DEFINE k == n - 1
               front == [i \in 1 .. k |-> l[i]]
    <3>1. /\ k \in Nat /\ ~(n <= k) /\ front \in Seq(Logged) /\ Len(front) = k
          /\ l[n] \in Logged /\ l = Append(front, l[n])
      BY <2>1, <2>2, <2>4
    <3>2. k \notin Bad
      BY <2>1, <3>1
    <3>3. PICK f : IsRun(f, front)
      BY <3>1, <3>2
    <3>4. \E g : IsRun(g, Append(front, l[n]))
      BY <3>1, <3>3, RunExtends, Zenon
    <3> QED
      BY <2>2, <3>1, <3>4
  <2> QED
    BY <2>3, <2>4
<1>2. Len(log) \in Nat
  OBVIOUS
<1> QED
  BY <1>1, <1>2

\* Replay gives the last catalog of the log's run.
LEMMA ReplayIsLast ==
    ASSUME NEW log \in Seq(Logged), NEW f, IsRun(f, log)
    PROVE  Replay(log) = f[Len(log)]
<1> DEFINE g == CHOOSE h : IsRun(h, log)
<1>1. IsRun(g, log)
  OBVIOUS
<1>2. f = g
  BY <1>1, RunIsUnique, Zenon
<1>3. Replay(log) = g[Len(log)]
  BY DEF Replay, IsRun
<1> QED
  BY <1>2, <1>3

\* Replaying a log and one more mutation (Catalog::replay).
LEMMA ReplayAppend ==
    ASSUME NEW log \in Seq(Logged), NEW m \in Logged
    PROVE  Replay(Append(log, m)) = ReplayOne(Replay(log), m)
<1>1. PICK f : IsRun(f, log)
  BY RunExists
<1>2. PICK g : IsRun(g, Append(log, m)) /\ g[Len(log) + 1] = ReplayOne(f[Len(log)], m)
  BY <1>1, RunExtends, Zenon
<1>3. Append(log, m) \in Seq(Logged) /\ Len(Append(log, m)) = Len(log) + 1
  OBVIOUS
<1>4. Replay(log) = f[Len(log)]
  BY <1>1, ReplayIsLast, Zenon
<1>5. Replay(Append(log, m)) = g[Len(Append(log, m))]
  BY <1>2, <1>3, ReplayIsLast, Zenon
<1> QED
  BY <1>2, <1>3, <1>4, <1>5

\* The empty log.
LEMMA ReplayEmpty == Replay(<<>>) = Empty
<1>1. <<>> \in Seq(Logged) /\ Len(<<>>) = 0
  OBVIOUS
<1>2. PICK f : IsRun(f, <<>>)
  BY <1>1, RunExists, Zenon
<1>3. Replay(<<>>) = f[Len(<<>>)] /\ f[0] = Empty
  BY <1>1, <1>2, ReplayIsLast, RunSteps, Zenon
<1> QED
  BY <1>1, <1>3

-----------------------------------------------------------------------------
(* The inductive invariant.                                                *)

\* The numbers of the files there have been; 0 stands for none.
Numbers == 0 .. Len(rows)

DdlPcs == {"idle", "open", "register", "drop_database",
           "unregister", "unregister_all", "delete", "delete_all"}

Proc == [pc : DdlPcs \cup {"write"}, table : Tables \cup {""}, file : Nat,
         listed : SUBSET Tables, made : Int]

Row == [table : Tables, created : Int, file : Nat]

TypeInv ==
    /\ sys_log \in Seq(Logged) /\ unapplied \in Nat
    /\ catalog \in Catalogs /\ catalog.ok
    /\ Replay(sys_log) \in Catalogs
    /\ rows \in Seq(Nat)
    /\ registry \in [Tables -> Numbers] /\ files \in [Tables -> Numbers]
    /\ proc \in [Procs -> Proc]
    /\ created \in [Tables -> Nat]
    /\ acked \subseteq Row

\* A request works on the table and file that its position calls for.
ProcInv ==
    /\ \A p \in DdlProcs :
          /\ proc[p].pc \in DdlPcs
          /\ proc[p].pc \in {"open", "register"} => proc[p].table \in Tables
          /\ proc[p].pc = "register" => proc[p].file \in Numbers \ {0}
    /\ \A w \in Writers :
          /\ proc[w].pc \in {"idle", "write"}
          /\ proc[w].pc = "write" => proc[w].table \in Tables /\ proc[w].file \in Numbers \ {0}
    /\ \A a \in acked : a.file \in Numbers \ {0}

\* What a commit does: refuse, apply, or log without applying.
LEMMA CommitEffect ==
    ASSUME TypeInv, NEW p, NEW m \in Logged, NEW next, commit_ddl(p, m, next)
    PROVE  /\ UNCHANGED <<registry, files, rows, unopened, acked, restarts, writes>>
           /\ \/ /\ Goto(p, Idle)
                 /\ UNCHANGED <<sys_log, catalog, created, unapplied, failed>>
              \/ /\ Applicable(catalog, m) /\ Created(m)
                 /\ sys_log' = Append(sys_log, m)
                 /\ Replay(sys_log') = ReplayOne(Replay(sys_log), m)
                 /\ \/ /\ catalog' = Applied(catalog, m)
                       /\ Goto(p, next)
                       /\ UNCHANGED <<unapplied, failed>>
                    \/ /\ Goto(p, Idle)
                       /\ unapplied' = unapplied + 1
                       /\ UNCHANGED catalog
                       /\ failed \subseteq failed'
<1>1. sys_log \in Seq(Logged)
  BY DEF TypeInv
<1>2. Replay(Append(sys_log, m)) = ReplayOne(Replay(sys_log), m)
  BY <1>1, ReplayAppend, Zenon
<1>3. /\ UNCHANGED <<registry, files, rows, unopened, acked, restarts, writes>>
      /\ \/ /\ Goto(p, Idle)
            /\ UNCHANGED <<sys_log, catalog, created, unapplied, failed>>
         \/ /\ Applicable(catalog, m) /\ Created(m)
            /\ sys_log' = Append(sys_log, m)
            /\ \/ /\ catalog' = Applied(catalog, m)
                  /\ Goto(p, next)
                  /\ UNCHANGED <<unapplied, failed>>
               \/ /\ Goto(p, Idle)
                  /\ unapplied' = unapplied + 1
                  /\ UNCHANGED catalog
                  /\ failed' = failed \cup {"sync"}
  BY Zenon DEF commit_ddl, Fail
<1>4. failed' = failed \cup {"sync"} => failed \subseteq failed'
  OBVIOUS
<1> QED
  BY <1>2, <1>3, <1>4, Zenon

\* The outcome of a mutation is a catalog.
LEMMA AppliedType ==
    ASSUME NEW cat \in Catalogs, NEW m \in Logged
    PROVE  /\ ReplayOne(cat, m) \in Catalogs
           /\ Applicable(cat, m) => Applied(cat, m) \in Catalogs /\ Applied(cat, m).ok = cat.ok
<1>1. Applied(cat, m) \in Catalogs /\ Applied(cat, m).ok = cat.ok
  BY DEF Catalogs, Logged, Applied
<1>2. [cat EXCEPT !.ok = FALSE] \in Catalogs
  BY DEF Catalogs
<1> QED
  BY <1>1, <1>2 DEF ReplayOne

\* A request that is doing nothing.
LEMMA IdleType == Idle \in Proc /\ Idle.pc = "idle"
<1>1. /\ "idle" \in DdlPcs \cup {"write"} /\ "" \in Tables \cup {""}
      /\ 0 \in Nat /\ 0 \in Int /\ {} \in SUBSET Tables
  BY DEF DdlPcs
<1> QED
  BY <1>1, Zenon DEF Idle, Proc

\* A commit keeps the types, and the log in step with the catalog.
LEMMA CommitType ==
    ASSUME TypeInv, ProcInv, NEW p \in DdlProcs, NEW m \in Logged, NEW next \in Proc,
           next.pc \in DdlPcs \ {"register"}, next.pc = "open" => next.table \in Tables,
           commit_ddl(p, m, next)
    PROVE  TypeInv' /\ ProcInv'
<1> USE DEF Procs
<1>1. Idle \in Proc /\ Idle.pc = "idle"
  BY IdleType
<1>2. PICK s \in {Idle, next} : Goto(p, s)
  BY CommitEffect
<1>3. s \in Proc /\ s.pc \in DdlPcs \ {"register"} /\ (s.pc = "open" => s.table \in Tables)
  BY <1>1, <1>2 DEF DdlPcs
<1>4. proc' \in [Procs -> Proc] /\ proc'[p] = s /\ \A q \in Procs \ {p} : proc'[q] = proc[q]
  BY <1>2, <1>3 DEF Goto, TypeInv
<1>5. p \notin Writers
  BY DdlAssumption
<1>6. UNCHANGED <<registry, files, rows, acked>>
  BY CommitEffect
<1>7. ProcInv'
  BY <1>3, <1>4, <1>5, <1>6 DEF ProcInv, Numbers
<1>8. /\ sys_log' \in Seq(Logged) /\ unapplied' \in Nat
      /\ catalog' \in Catalogs /\ catalog'.ok
      /\ Replay(sys_log') \in Catalogs
  <2>1. ReplayOne(Replay(sys_log), m) \in Catalogs
    BY AppliedType DEF TypeInv
  <2>2. Applicable(catalog, m) => Applied(catalog, m) \in Catalogs /\ Applied(catalog, m).ok
    BY AppliedType DEF TypeInv
  <2>3. Append(sys_log, m) \in Seq(Logged) /\ unapplied + 1 \in Nat
    BY DEF TypeInv
  <2> QED
    BY <2>1, <2>2, <2>3, CommitEffect DEF TypeInv
<1>9. created' \in [Tables -> Nat]
  <2>1. Created(m) => created' \in [Tables -> Nat]
    <3>1. m.op = "create_table" => m.table \in Tables
      BY DEF Logged
    <3> QED
      BY <3>1 DEF Created, TypeInv
  <2> QED
    BY <2>1, CommitEffect DEF TypeInv
<1> QED
  BY <1>4, <1>6, <1>7, <1>8, <1>9 DEF TypeInv, Numbers

\* Changing what one request does, and growing the files.
LEMMA GotoType ==
    ASSUME TypeInv, ProcInv, NEW p \in Procs, NEW s \in Proc, Goto(p, s),
           Len(rows') >= Len(rows), acked' = acked, rows' \in Seq(Nat),
           p \in DdlProcs => /\ s.pc \in DdlPcs
                             /\ s.pc \in {"open", "register"} => s.table \in Tables
                             /\ s.pc = "register" => s.file \in Numbers' \ {0},
           p \in Writers => /\ s.pc \in {"idle", "write"}
                            /\ s.pc = "write" => s.table \in Tables /\ s.file \in Numbers' \ {0}
    PROVE  /\ proc' \in [Procs -> Proc]
           /\ ProcInv'
           /\ Numbers \subseteq Numbers'
<1>1. proc' \in [Procs -> Proc] /\ proc'[p] = s /\ \A q \in Procs \ {p} : proc'[q] = proc[q]
  BY DEF Goto, TypeInv
<1>2. Len(rows) \in Nat /\ Len(rows') \in Nat
  BY DEF TypeInv
<1>3. Numbers \subseteq Numbers'
  BY <1>2 DEF Numbers
<1>4. ProcInv'
  BY <1>1, <1>3 DEF ProcInv, Procs
<1> QED
  BY <1>1, <1>3, <1>4

\* The same for a catalog request.
LEMMA GotoDdl ==
    ASSUME TypeInv, ProcInv, NEW p \in DdlProcs, NEW s \in Proc, s.pc \in DdlPcs,
           s.pc \in {"open", "register"} => s.table \in Tables,
           s.pc = "register" => s.file \in Numbers' \ {0},
           Goto(p, s), acked' = acked, rows' \in {rows, Append(rows, 0)}
    PROVE  proc' \in [Procs -> Proc] /\ ProcInv' /\ Numbers \subseteq Numbers'
<1>1. Len(rows') >= Len(rows) /\ rows' \in Seq(Nat)
  <2>1. rows \in Seq(Nat) /\ Len(rows) \in Nat
    BY DEF TypeInv
  <2>2. Append(rows, 0) \in Seq(Nat) /\ Len(Append(rows, 0)) = Len(rows) + 1
    BY <2>1
  <2> QED
    BY <2>1, <2>2
<1>2. p \in Procs /\ p \notin Writers
  BY DdlAssumption DEF Procs
<1> QED
  BY <1>1, <1>2, GotoType

\* An open leaves the table's files in place, or creates them; it fails, or hands
\* them to the store that is to be registered.
LEMMA OpenEffect ==
    ASSUME TypeInv, ProcInv, NEW p \in DdlProcs, OpenStore(p)
    PROVE  LET t == proc[p].table
           IN  /\ proc[p].pc = "open" /\ t \in Tables
               /\ UNCHANGED <<sys_log, catalog, registry, created, acked, unapplied>>
               /\ "delete" \in failed' <=> "delete" \in failed
               /\ \E f \in Nat :
                     /\ files' = [files EXCEPT ![t] = f]
                     /\ \/ f = files[t] /\ rows' = rows
                        \/ f = Len(rows) + 1 /\ rows' = Append(rows, 0) /\ files[t] = 0
                     /\ \/ /\ Goto(p, Idle) /\ f = files[t]
                           /\ t \notin catalog.tables /\ unopened' = unopened
                        \/ /\ f # 0 /\ Goto(p, [proc[p] EXCEPT !.pc = "register", !.file = f])
                           /\ unopened' = unopened
                        \/ Goto(p, Idle) /\ unopened' = unopened \cup {t}
<1> DEFINE t == proc[p].table
           Fresh == files[t] = 0 /\ rows' = Append(rows, 0) /\ files' = [files EXCEPT ![t] = Len(rows')]
           Found == files' = files /\ rows' = rows
           s == [proc[p] EXCEPT !.pc = "register", !.file = files'[t]]
<1>1. /\ proc[p].pc = "open"
      /\ UNCHANGED <<sys_log, catalog, registry, created, acked, unapplied>>
  BY DEF OpenStore
<1>2. t \in Tables /\ files[t] \in Nat /\ Len(rows) \in Nat /\ files \in [Tables -> Numbers]
      /\ Len(Append(rows, 0)) = Len(rows) + 1
  BY <1>1 DEF ProcInv, TypeInv, Numbers
<1>3. \/ /\ t \notin catalog.tables /\ Goto(p, Idle) /\ Found /\ UNCHANGED <<failed, unopened>>
      \/ /\ Fresh \/ (files[t] # 0 /\ Found)
         /\ Goto(p, s) /\ UNCHANGED <<failed, unopened>>
      \/ /\ failed' = failed \cup {"open"} /\ (Fresh \/ Found)
         /\ unopened' = unopened \cup {t} /\ Goto(p, Idle)
  BY Zenon DEF OpenStore, Fail
<1>4. ASSUME Found
      PROVE  files' = [files EXCEPT ![t] = files[t]] /\ files'[t] = files[t] /\ rows' = rows
  BY <1>2, <1>4
<1>5. ASSUME Fresh
      PROVE  /\ files' = [files EXCEPT ![t] = Len(rows) + 1] /\ files'[t] = Len(rows) + 1
             /\ rows' = Append(rows, 0) /\ files[t] = 0
  BY <1>2, <1>5
<1>6. "delete" \in failed' <=> "delete" \in failed
  BY <1>3
<1>7. PICK f \in Nat : /\ f = files'[t] /\ files' = [files EXCEPT ![t] = f]
                       /\ \/ f = files[t] /\ rows' = rows
                          \/ f = Len(rows) + 1 /\ rows' = Append(rows, 0) /\ files[t] = 0
  BY <1>2, <1>3, <1>4, <1>5
<1> HIDE DEF t
<1>8. \/ Goto(p, Idle) /\ f = files[t] /\ t \notin catalog.tables /\ unopened' = unopened
      \/ f # 0 /\ Goto(p, s) /\ unopened' = unopened
      \/ Goto(p, Idle) /\ unopened' = unopened \cup {t}
  <2>1. CASE t \notin catalog.tables /\ Goto(p, Idle) /\ Found /\ UNCHANGED <<failed, unopened>>
    BY <1>4, <1>7, <2>1
  <2>2. CASE /\ Fresh \/ (files[t] # 0 /\ Found)
             /\ Goto(p, s) /\ UNCHANGED <<failed, unopened>>
    BY <1>2, <1>4, <1>5, <1>7, <2>2
  <2>3. CASE unopened' = unopened \cup {t} /\ Goto(p, Idle)
    BY <2>3
  <2> QED
    BY <1>3, <2>1, <2>2, <2>3
<1> QED
  BY <1>1, <1>2, <1>6, <1>7, <1>8, Zenon DEF t

\* Every action of a catalog request keeps the types.
LEMMA DdlType ==
    ASSUME TypeInv, ProcInv, NEW p \in DdlProcs, Ddl(p)
    PROVE  TypeInv' /\ ProcInv'
<1> USE IdleType
<1>1. p \in Procs /\ p \notin Writers /\ proc[p] \in Proc
  BY DdlAssumption DEF Procs, TypeInv
<1>2. CASE CreateDatabase(p)
  <2>1. Mutation("create_database", "") \in Logged
    BY DEF Mutation, Logged
  <2> QED
    BY <1>2, <2>1, CommitType, Zenon DEF CreateDatabase, DdlPcs
<1>3. ASSUME NEW t \in Tables, CreateTable(p, t) PROVE TypeInv' /\ ProcInv'
  <2> DEFINE s == [Idle EXCEPT !.pc = "open", !.table = t]
  <2>1. Mutation("create_table", t) \in Logged
    BY DEF Mutation, Logged
  <2>2. s \in Proc /\ s.pc = "open" /\ s.table = t
    BY DEF Idle, Proc, DdlPcs
  <2> QED
    BY <1>3, <2>1, <2>2, CommitType DEF CreateTable, DdlPcs
<1>4. ASSUME NEW t \in Tables, DropTable(p, t) PROVE TypeInv' /\ ProcInv'
  <2> DEFINE s == [Idle EXCEPT !.pc = "unregister", !.listed = {t}]
  <2>1. Mutation("drop_table", t) \in Logged
    BY DEF Mutation, Logged
  <2>2. s \in Proc /\ s.pc = "unregister"
    BY DEF Idle, Proc, DdlPcs
  <2> QED
    BY <1>4, <2>1, <2>2, CommitType DEF DropTable, DdlPcs
<1>5. CASE OpenStore(p)
  <2> DEFINE t == proc[p].table
  <2>1. /\ t \in Tables
        /\ UNCHANGED <<sys_log, catalog, registry, created, acked, unapplied>>
    BY <1>5, OpenEffect
  <2>2. PICK f \in Nat :
            /\ files' = [files EXCEPT ![t] = f]
            /\ \/ f = files[t] /\ rows' = rows
               \/ f = Len(rows) + 1 /\ rows' = Append(rows, 0)
            /\ \/ Goto(p, Idle)
               \/ f # 0 /\ Goto(p, [proc[p] EXCEPT !.pc = "register", !.file = f])
    BY <1>5, OpenEffect
  <2>3. rows \in Seq(Nat) /\ Append(rows, 0) \in Seq(Nat) /\ Len(rows) \in Nat
        /\ Len(Append(rows, 0)) = Len(rows) + 1 /\ files[t] \in Numbers
    BY <2>1 DEF TypeInv
  <2>4. /\ rows' \in {rows, Append(rows, 0)} /\ rows' \in Seq(Nat)
        /\ Numbers \subseteq Numbers' /\ f \in Numbers'
    <3>1. CASE f = files[t] /\ rows' = rows
      BY <2>3, <3>1 DEF Numbers
    <3>2. CASE f = Len(rows) + 1 /\ rows' = Append(rows, 0)
      <4>1. Len(rows') = Len(rows) + 1
        BY <2>3, <3>2
      <4> QED
        BY <2>3, <3>2, <4>1 DEF Numbers
    <3> QED
      BY <2>2, <3>1, <3>2
  <2> DEFINE s == [proc[p] EXCEPT !.pc = "register", !.file = f]
  <2>5. s \in Proc /\ s.pc = "register" /\ s.table = t /\ s.file = f
    BY <1>1 DEF Proc, DdlPcs
  <2> HIDE DEF t, s
  <2>6. proc' \in [Procs -> Proc] /\ ProcInv'
    <3>1. CASE f # 0 /\ Goto(p, s)
      <4>1. s.pc \in DdlPcs /\ s.table \in Tables /\ s.file \in Numbers' \ {0}
        BY <2>1, <2>4, <2>5, <3>1 DEF DdlPcs
      <4> QED
        BY <2>1, <2>4, <2>5, <3>1, <4>1, GotoDdl
    <3>2. CASE Goto(p, Idle)
      <4>1. "idle" \in DdlPcs
        BY DEF DdlPcs
      <4> QED
        BY <2>1, <2>4, <3>2, <4>1, GotoDdl
    <3> QED
      BY <2>2, <3>1, <3>2 DEF s
  <2>7. files' \in [Tables -> Numbers'] /\ registry' \in [Tables -> Numbers']
    BY <2>1, <2>2, <2>4 DEF TypeInv
  <2> QED
    BY <2>1, <2>4, <2>6, <2>7 DEF TypeInv
<1>6. CASE Register(p)
  <2>1. proc[p].table \in Tables /\ proc[p].file \in Numbers
    BY <1>6 DEF Register, ProcInv
  <2>2. Goto(p, Idle) /\ acked' = acked /\ rows' = rows
    BY <1>6 DEF Register, history
  <2>3. proc' \in [Procs -> Proc] /\ ProcInv'
    BY <2>2, GotoDdl DEF DdlPcs
  <2>4. registry' \in [Tables -> Numbers']
    BY <1>6, <2>1 DEF Register, TypeInv, Numbers
  <2> QED
    BY <1>6, <2>3, <2>4 DEF Register, history, TypeInv, Numbers
<1>7. ASSUME NEW cascade \in BOOLEAN, ListTables(p, cascade) PROVE TypeInv' /\ ProcInv'
  <2> DEFINE s == [Idle EXCEPT !.pc = "drop_database", !.listed = catalog.tables]
  <2>1. s \in Proc /\ s.pc = "drop_database"
    BY DEF Idle, Proc, DdlPcs, TypeInv, Catalogs
  <2>2. Goto(p, s) /\ acked' = acked /\ rows' = rows
    BY <1>7 DEF ListTables, history
  <2> HIDE DEF s
  <2>3. proc' \in [Procs -> Proc] /\ ProcInv'
    BY <2>1, <2>2, GotoDdl DEF DdlPcs
  <2> QED
    BY <1>7, <2>3 DEF ListTables, history, TypeInv, Numbers
<1>8. CASE DropDatabase(p)
  <2> DEFINE s == [proc[p] EXCEPT !.pc = "unregister_all"]
  <2>1. Mutation("drop_database", "") \in Logged
    BY DEF Mutation, Logged
  <2>2. s \in Proc /\ s.pc = "unregister_all"
    BY <1>1 DEF Proc, DdlPcs
  <2> QED
    BY <1>8, <2>1, <2>2, CommitType DEF DropDatabase, DdlPcs
<1>9. CASE Unregister(p)
  <2> DEFINE s == [proc[p] EXCEPT !.pc = IF proc[p].pc = "unregister" THEN "delete" ELSE "delete_all"]
  <2>1. s \in Proc /\ s.pc \in {"delete", "delete_all"}
    BY <1>1 DEF Proc, DdlPcs
  <2>2. Goto(p, s) /\ acked' = acked /\ rows' = rows
    BY <1>9 DEF Unregister, history
  <2> HIDE DEF s
  <2>3. proc' \in [Procs -> Proc] /\ ProcInv'
    BY <2>1, <2>2, GotoDdl DEF DdlPcs
  <2>4. registry' \in [Tables -> Numbers']
    BY <1>9 DEF Unregister, TypeInv, Numbers
  <2> QED
    BY <1>9, <2>3, <2>4 DEF Unregister, history, TypeInv, Numbers
<1>10. CASE DeleteFiles(p)
  <2>1. Goto(p, Idle) /\ acked' = acked /\ rows' = rows
    BY <1>10 DEF DeleteFiles, history
  <2>2. proc' \in [Procs -> Proc] /\ ProcInv'
    BY <2>1, GotoDdl DEF DdlPcs
  <2>3. files' \in [Tables -> Numbers]
    <3>1. CASE files' = files
      BY <3>1 DEF TypeInv
    <3>2. CASE files' = [t \in Tables |-> IF t \in Doomed(p) THEN 0 ELSE files[t]]
      <4>1. 0 \in Numbers
        BY DEF TypeInv, Numbers
      <4> QED
        BY <3>2, <4>1 DEF TypeInv
    <3> QED
      BY <1>10, <3>1, <3>2 DEF DeleteFiles
  <2> QED
    BY <1>10, <2>2, <2>3 DEF DeleteFiles, history, TypeInv, Numbers
<1> QED
  BY <1>2, <1>3, <1>4, <1>5, <1>6, <1>7, <1>8, <1>9, <1>10, Zenon DEF Ddl

\* So does every action of a writer.
LEMMA WriteType ==
    ASSUME TypeInv, ProcInv, NEW p \in Writers, Write(p)
    PROVE  TypeInv' /\ ProcInv'
<1>1. p \in Procs /\ p \notin DdlProcs /\ proc[p] \in Proc
  BY DdlAssumption DEF Procs, TypeInv
<1>2. ASSUME NEW t \in Tables, Lookup(p, t) PROVE TypeInv' /\ ProcInv'
  <2> DEFINE s == [Idle EXCEPT !.pc = "write", !.table = t, !.file = registry[t],
                               !.made = Completed(t)]
  <2>1. registry[t] \in Numbers \ {0} /\ registry[t] \in Nat
    BY <1>2 DEF Lookup, TypeInv, Numbers
  <2>2. Completed(t) \in Int
    <3> DEFINE A == { q \in DdlProcs : proc[q].pc \in {"open", "register"} /\ proc[q].table = t }
    <3>1. IsFiniteSet(A)
      BY DdlAssumption, FS_Subset, A \subseteq DdlProcs, Zenon
    <3>2. Cardinality(A) \in Nat
      BY <3>1, FS_CardinalityType
    <3> QED
      BY <3>2 DEF Completed, TypeInv
  <2>3. s \in Proc /\ s.pc = "write" /\ s.table = t /\ s.file = registry[t]
    <3>1. PICK f \in Nat : f = registry[t]
      BY <2>1
    <3>2. PICK c \in Int : c = Completed(t)
      BY <2>2
    <3>3. [Idle EXCEPT !.pc = "write", !.table = t, !.file = f, !.made = c] \in Proc
      BY DEF Idle, Proc, DdlPcs
    <3> QED
      BY <3>1, <3>2, <3>3 DEF Idle, Proc
  <2>4. Goto(p, s) /\ acked' = acked /\ rows' = rows
    BY <1>2 DEF Lookup, history
  <2>5. Numbers' = Numbers
    BY <2>4 DEF Numbers
  <2> HIDE DEF s
  <2>6. proc' \in [Procs -> Proc] /\ ProcInv'
    <3>1. rows' \in Seq(Nat) /\ Len(rows') >= Len(rows)
      BY <2>4 DEF TypeInv
    <3> QED
      BY <1>1, <2>1, <2>3, <2>4, <2>5, <3>1, GotoType
  <2> QED
    BY <1>2, <2>6 DEF Lookup, history, TypeInv, Numbers
<1>3. ASSUME NEW flush \in BOOLEAN, WriteRow(p, flush) PROVE TypeInv' /\ ProcInv'
  <2> DEFINE t == proc[p].table
             f == proc[p].file
  <2>1. t \in Tables /\ f \in Numbers \ {0} /\ proc[p].made \in Int /\ f \in Nat
    BY <1>1, <1>3 DEF WriteRow, ProcInv, Proc, Numbers
  <2>2. rows' \in Seq(Nat) /\ Len(rows') = Len(rows) /\ Len(rows) \in Nat
    <3>1. rows \in Seq(Nat) /\ Len(rows) \in Nat /\ f \in 1 .. Len(rows)
      BY <2>1 DEF TypeInv, Numbers
    <3>2. rows' = [rows EXCEPT ![f] = @ + 1]
      BY <1>3 DEF WriteRow
    <3>3. ASSUME NEW r \in Seq(Nat), NEW i \in 1 .. Len(r)
          PROVE  [r EXCEPT ![i] = @ + 1] \in Seq(Nat) /\ Len([r EXCEPT ![i] = @ + 1]) = Len(r)
      OBVIOUS
    <3> QED
      BY <3>1, <3>2, <3>3
  <2>3. Numbers' = Numbers
    BY <2>2 DEF Numbers
  <2>4. Goto(p, Idle)
    BY <1>3 DEF WriteRow
  <2>5. proc' \in [Procs -> Proc] /\ proc'[p] = Idle
        /\ \A q \in Procs \ {p} : proc'[q] = proc[q]
    BY <1>1, <2>4, IdleType DEF Goto, TypeInv
  <2>6. acked' \subseteq acked \cup {[table |-> t, created |-> proc[p].made, file |-> f]}
    BY <1>3 DEF WriteRow
  <2>7. ProcInv'
    BY <1>1, <2>1, <2>3, <2>5, <2>6, IdleType DEF ProcInv, Procs
  <2>8. acked' \subseteq Row
    BY <2>1, <2>6 DEF TypeInv, Row
  <2>9. files' \in [Tables -> Numbers']
    BY <1>3, <2>1, <2>3 DEF WriteRow, TypeInv
  <2> QED
    BY <1>3, <2>2, <2>3, <2>5, <2>7, <2>8, <2>9 DEF WriteRow, counters, TypeInv
<1> QED
  BY <1>2, <1>3 DEF Write

\* What a restart makes of the tables: the catalog the log holds, the files of
\* its tables (created where there are none) and their stores.
LEMMA RestartEffect ==
    ASSUME TypeInv, ProcInv, Restart
    PROVE  LET cat == Replay(sys_log)
           IN  /\ cat.ok /\ catalog' = cat
               /\ UNCHANGED <<sys_log, created, acked, unapplied, disturbed, failed>>
               /\ unopened' = {}
               /\ proc' = [p \in Procs |-> Idle]
               /\ rows' \in Seq(Nat) /\ Numbers \subseteq Numbers'
               /\ files' \in [Tables -> Numbers'] /\ registry' \in [Tables -> Numbers']
               /\ \A t \in cat.tables :
                     /\ files'[t] # 0 /\ registry'[t] = files'[t]
                     /\ files[t] # 0 => files'[t] = files[t]
                     /\ files[t] = 0 => files'[t] > Len(rows)
               /\ \A t \in Tables \ cat.tables : files'[t] = 0 /\ registry'[t] = 0
               /\ \A t, u \in cat.tables :
                     files[t] = 0 /\ files[u] = 0 /\ files'[t] = files'[u] => t = u
<1> DEFINE cat == Replay(sys_log)
           absent == { t \in cat.tables : files[t] = 0 }
           n == Cardinality(absent)
           zeros == [i \in 1 .. n |-> 0]
<1>1. cat.tables \subseteq Tables
  BY DEF TypeInv, Catalogs
<1>2. n \in Nat
  <2>1. absent \subseteq Tables
    BY <1>1
  <2> HIDE DEF absent
  <2>2. IsFiniteSet(absent)
    BY <2>1, DdlAssumption, FS_Subset, Zenon
  <2> QED
    BY <2>2, FS_CardinalityType
<1>3. PICK fresh \in [absent -> Len(rows) + 1 .. Len(rows) + n] :
          /\ IsInjective(fresh)
          /\ files' = [t \in Tables |-> IF t \in absent THEN fresh[t]
                                        ELSE IF t \in KeptTables(cat) THEN files[t] ELSE 0]
  BY Zenon DEF Restart
<1>4. /\ cat.ok /\ catalog' = cat
      /\ UNCHANGED <<sys_log, created, acked, unapplied, disturbed, failed>> /\ unopened' = {}
      /\ proc' = [p \in Procs |-> Idle]
      /\ rows' = rows \o zeros
      /\ registry' = [t \in Tables |-> IF t \in cat.tables THEN files'[t] ELSE 0]
  BY Zenon DEF Restart, history
<1> HIDE DEF cat, n
<1>5. Len(rows) \in Nat /\ rows \in Seq(Nat)
  BY DEF TypeInv
<1>6. zeros \in Seq(Nat) /\ Len(zeros) = n
  BY <1>2
<1> HIDE DEF zeros
<1>7. rows' \in Seq(Nat) /\ Len(rows') = Len(rows) + n
  <2>1. ASSUME NEW r \in Seq(Nat), NEW z \in Seq(Nat)
        PROVE  r \o z \in Seq(Nat) /\ Len(r \o z) = Len(r) + Len(z)
    OBVIOUS
  <2> QED
    BY <1>4, <1>5, <1>6, <2>1
<1>8. Numbers' = 0 .. Len(rows) + n /\ Numbers \subseteq Numbers'
  BY <1>2, <1>5, <1>7 DEF Numbers
<1>9. \A t \in absent : fresh[t] \in Numbers' /\ fresh[t] > Len(rows) /\ fresh[t] # 0
  BY <1>2, <1>3, <1>5, <1>8
<1>10. \A t \in Tables : files[t] \in Numbers'
  BY <1>8 DEF TypeInv
<1>11. /\ \A t \in absent : files'[t] = fresh[t]
       /\ \A t \in cat.tables \ absent : files'[t] = files[t] /\ files[t] # 0
       /\ \A t \in Tables \ cat.tables : files'[t] = 0
  BY <1>1, <1>3 DEF KeptTables
<1>12. \A t \in Tables : files'[t] \in Numbers'
  <2>1. 0 \in Numbers'
    BY <1>2, <1>5, <1>8
  <2> QED
    BY <1>9, <1>10, <1>11, <2>1
<1>13. files' \in [Tables -> Numbers']
  BY <1>3, <1>12
<1>14. registry' \in [Tables -> Numbers']
  <2>1. 0 \in Numbers'
    BY <1>2, <1>5, <1>8
  <2> QED
    BY <1>4, <1>12, <2>1
<1>15. ASSUME NEW t \in cat.tables
       PROVE  /\ files'[t] # 0 /\ registry'[t] = files'[t]
              /\ files[t] # 0 => files'[t] = files[t]
              /\ files[t] = 0 => files'[t] > Len(rows)
  BY <1>1, <1>4, <1>9, <1>11
<1>16. ASSUME NEW t \in Tables \ cat.tables PROVE files'[t] = 0 /\ registry'[t] = 0
  BY <1>4, <1>11
<1>17. ASSUME NEW t \in cat.tables, NEW u \in cat.tables,
              files[t] = 0, files[u] = 0, files'[t] = files'[u]
       PROVE  t = u
  <2>1. t \in absent /\ u \in absent /\ fresh[t] = fresh[u]
    BY <1>11, <1>17
  <2> QED
    BY <1>3, <2>1 DEF IsInjective
<1> HIDE DEF absent
<1> QED
  BY <1>4, <1>7, <1>8, <1>13, <1>14, <1>15, <1>16, <1>17, Zenon DEF cat

\* So does a restart.
LEMMA RestartType ==
    ASSUME TypeInv, ProcInv, Restart
    PROVE  TypeInv' /\ ProcInv'
<1>1. /\ catalog' = Replay(sys_log) /\ Replay(sys_log).ok
      /\ UNCHANGED <<sys_log, created, acked, unapplied>>
      /\ proc' = [p \in Procs |-> Idle]
      /\ rows' \in Seq(Nat) /\ Numbers \subseteq Numbers'
      /\ files' \in [Tables -> Numbers'] /\ registry' \in [Tables -> Numbers']
  BY RestartEffect, Zenon
<1>2. proc' \in [Procs -> Proc]
  BY <1>1, IdleType
<1>3. ProcInv'
  BY <1>1, IdleType DEF ProcInv, DdlPcs, Procs
<1> QED
  BY <1>1, <1>2, <1>3 DEF TypeInv

\* The types are right throughout.
THEOREM DdlTypeCorrect == Spec => [](TypeInv /\ ProcInv)
<1>1. Init => TypeInv /\ ProcInv
  <2> SUFFICES ASSUME Init PROVE TypeInv /\ ProcInv
    OBVIOUS
  <2>1. Replay(sys_log) = Empty /\ Empty \in Catalogs /\ Empty.ok
    BY ReplayEmpty DEF Init, Empty, Catalogs
  <2>2. proc \in [Procs -> Proc] /\ \A p \in Procs : proc[p].pc = "idle"
    BY IdleType DEF Init
  <2>3. ProcInv
    BY <2>2 DEF ProcInv, Init, Procs, DdlPcs
  <2>4. Numbers = 0 .. 0 /\ <<>> \in Seq(Nat) /\ <<>> \in Seq(Logged)
    BY DEF Numbers, Init
  <2> QED
    BY <2>1, <2>2, <2>3, <2>4 DEF TypeInv, Init
<1>2. TypeInv /\ ProcInv /\ [Next]_vars => TypeInv' /\ ProcInv'
  <2> SUFFICES ASSUME TypeInv, ProcInv, [Next]_vars PROVE TypeInv' /\ ProcInv'
    OBVIOUS
  <2>1. CASE UNCHANGED vars
    BY <2>1 DEF vars, TypeInv, ProcInv, Numbers
  <2> QED
    BY <2>1, DdlType, WriteType, RestartType DEF Next
<1> QED
  BY <1>1, <1>2, PTL DEF Spec

-----------------------------------------------------------------------------
(* The log is the catalog.                                                 *)

\* The mutation of each request that commits one.
LEMMA CommitKeepsLog ==
    ASSUME TypeInv, LogIsCatalog, NEW p, NEW m \in Logged, NEW next, commit_ddl(p, m, next)
    PROVE  LogIsCatalog'
<1>1. CASE UNCHANGED <<sys_log, catalog, unapplied>>
  BY <1>1 DEF LogIsCatalog
<1>2. CASE /\ Applicable(catalog, m) /\ Replay(sys_log') = ReplayOne(Replay(sys_log), m)
           /\ catalog' = Applied(catalog, m) /\ unapplied' = unapplied
  <2>1. ReplayOne(catalog, m) = Applied(catalog, m)
    BY <1>2 DEF ReplayOne, TypeInv
  <2> QED
    BY <1>2, <2>1 DEF LogIsCatalog
<1>3. CASE unapplied' = unapplied + 1
  BY <1>3 DEF LogIsCatalog, TypeInv
<1> QED
  BY <1>1, <1>2, <1>3, CommitEffect, Zenon

\* As long as no append has failed half way, replaying the system log gives the
\* published catalog, however catalog changes, writes and restarts interleave
\* (commit_ddl validates, logs and applies under ddl_lock).
THEOREM CatalogIsReplayed == Spec => []LogIsCatalog
<1>1. Init => LogIsCatalog
  BY ReplayEmpty DEF Init, LogIsCatalog
<1>2. TypeInv /\ ProcInv /\ LogIsCatalog /\ [Next]_vars => LogIsCatalog'
  <2> SUFFICES ASSUME TypeInv, ProcInv, LogIsCatalog, [Next]_vars PROVE LogIsCatalog'
    OBVIOUS
  <2>1. CASE UNCHANGED <<sys_log, catalog, unapplied>>
    BY <2>1 DEF LogIsCatalog
  <2>2. ASSUME NEW p \in DdlProcs, CreateDatabase(p) PROVE LogIsCatalog'
    <3>1. Mutation("create_database", "") \in Logged
      BY DEF Mutation, Logged
    <3> QED
      BY <2>2, <3>1, CommitKeepsLog, Zenon DEF CreateDatabase
  <2>3. ASSUME NEW p \in DdlProcs, NEW t \in Tables, CreateTable(p, t) PROVE LogIsCatalog'
    <3>1. Mutation("create_table", t) \in Logged
      BY DEF Mutation, Logged
    <3> QED
      BY <2>3, <3>1, CommitKeepsLog, Zenon DEF CreateTable
  <2>4. ASSUME NEW p \in DdlProcs, NEW t \in Tables, DropTable(p, t) PROVE LogIsCatalog'
    <3>1. Mutation("drop_table", t) \in Logged
      BY DEF Mutation, Logged
    <3> QED
      BY <2>4, <3>1, CommitKeepsLog, Zenon DEF DropTable
  <2>5. ASSUME NEW p \in DdlProcs, DropDatabase(p) PROVE LogIsCatalog'
    <3>1. Mutation("drop_database", "") \in Logged
      BY DEF Mutation, Logged
    <3> QED
      BY <2>5, <3>1, CommitKeepsLog, Zenon DEF DropDatabase
  <2>6. ASSUME NEW p \in DdlProcs,
               \/ OpenStore(p) \/ Register(p) \/ Unregister(p) \/ DeleteFiles(p)
               \/ \E cascade \in BOOLEAN : ListTables(p, cascade)
        PROVE  LogIsCatalog'
    <3>1. UNCHANGED <<sys_log, catalog, unapplied>>
      BY <2>6 DEF OpenStore, Register, Unregister, DeleteFiles, ListTables, history
    <3> QED
      BY <2>1, <3>1
  <2>7. ASSUME NEW p \in Writers, Write(p) PROVE LogIsCatalog'
    <3>1. UNCHANGED <<sys_log, catalog, unapplied>>
      BY <2>7 DEF Write, Lookup, WriteRow, history
    <3> QED
      BY <2>1, <3>1
  <2>8. CASE Restart
    BY <2>8, RestartEffect DEF LogIsCatalog
  <2>9. CASE UNCHANGED vars
    BY <2>1, <2>9 DEF vars
  <2> QED
    BY <2>2, <2>3, <2>4, <2>5, <2>6, <2>7, <2>8, <2>9, Zenon DEF Next, Ddl
<1> QED
  BY <1>1, <1>2, DdlTypeCorrect, PTL DEF Spec

-----------------------------------------------------------------------------
(* One catalog change at a time.                                           *)

\* The tables that are in the catalog if the process restarts now.
Recoverable == IF Replay(sys_log).ok THEN Replay(sys_log).tables ELSE {}

\* The tables that a request (in state s) is opening, that it has dropped but
\* not yet unregistered, and whose files it has yet to delete.
OpeningBy(s)  == { t \in Tables : s.pc \in {"open", "register"} /\ t = s.table }
ClosingBy(s)  == { t \in Tables : s.pc \in {"unregister", "unregister_all"} /\ t \in s.listed }
DeletingBy(s) == { t \in Tables : (s.pc = "delete" /\ t \in s.listed) \/ s.pc = "delete_all" }

Opening  == UNION { OpeningBy(proc[p]) : p \in DdlProcs }
Closing  == UNION { ClosingBy(proc[p]) : p \in DdlProcs }
Deleting == UNION { DeletingBy(proc[p]) : p \in DdlProcs }

AloneInv == \A p, q \in DdlProcs : p # q => proc[p].pc = "idle" \/ proc[q].pc = "idle"

\* A table is in the catalog while it is opened, out of it while its store is
\* closed or its files deleted; a table that has yet to be unregistered is out
\* of the log's catalog too, so no restart brings it back.
CatalogInv ==
    /\ Opening \subseteq catalog.tables
    /\ Closing \cap catalog.tables = {} /\ Deleting \cap catalog.tables = {}
    /\ Closing \cap Recoverable = {}
    /\ \A p \in DdlProcs : /\ proc[p].pc = "drop_database" => proc[p].listed = catalog.tables
                           /\ proc[p].pc = "unregister_all" => catalog.tables = {}

\* The registry lags behind the catalog by what the current request has to do and
\* by the stores that did not open, and a store holds the files at its table's
\* path.
RegistryInv ==
    /\ unopened \subseteq (catalog.tables \ Opening) \cup Closing
    /\ \A t \in Tables :
          /\ registry[t] # 0 <=> t \in ((catalog.tables \ Opening) \cup Closing) \ unopened
          /\ registry[t] # 0 => files[t] = registry[t]

\* Unless a deletion failed, only these tables have files, and a table that is
\* about to be opened has none.
FilesInv ==
    "delete" \notin failed =>
        /\ \A t \in Tables : files[t] # 0 => t \in catalog.tables \cup Closing \cup Deleting
        /\ \A p \in DdlProcs : proc[p].pc = "open" => files[proc[p].table] = 0

DistinctInv == \A t, u \in Tables : files[t] = files[u] /\ files[t] # 0 => t = u

\* The store to be registered is that of the table's files; it is new, unless a
\* deletion failed.
RegisterInv ==
    \A p \in DdlProcs : proc[p].pc = "register" =>
        /\ files[proc[p].table] = proc[p].file
        /\ "delete" \notin failed =>
              /\ rows[proc[p].file] = 0
              /\ \A w \in Writers : proc[w].pc = "write" => proc[w].file # proc[p].file

\* f is the file of the n-th creation of t: if that is the last one, t has not
\* been dropped for good and is not about to come back by a restart, then f is
\* at its path.
Holds(t, n, f) ==
    /\ n \in Nat /\ n <= created[t]
    /\ n = created[t] => /\ t \in catalog.tables => files[t] = f
                         /\ t \in Recoverable => t \in catalog.tables

RowsInv ==
    /\ \A a \in acked : Holds(a.table, a.created, a.file)
    /\ \A w \in Writers : proc[w].pc = "write" => Holds(proc[w].table, proc[w].made, proc[w].file)

SoundInv ==
    AloneInv /\ CatalogInv /\ RegistryInv /\ FilesInv /\ DistinctInv /\ RegisterInv /\ RowsInv

OthersIdle(p) == \A q \in DdlProcs \ {p} : proc[q].pc = "idle"

\* What a mutation does to the tables.
After(T, m) ==
    CASE m.op = "create_database" -> T
      [] m.op = "drop_database"   -> {}
      [] m.op = "create_table"    -> T \cup {m.table}
      [] m.op = "drop_table"      -> T \ {m.table}

\* The tables a commit leaves in the catalog and, for a restart, in the log.
LEMMA CommitTables ==
    ASSUME TypeInv, NEW m \in Logged, NEW l
    PROVE  /\ Applied(catalog, m).tables = After(catalog.tables, m)
           /\ l = ReplayOne(Replay(sys_log), m) /\ l.ok => l.tables = After(Recoverable, m)
<1>1. ASSUME NEW c \in Catalogs PROVE Applied(c, m).tables = After(c.tables, m)
  BY DEF Applied, After, Catalogs, Logged
<1>2. PICK r \in Catalogs : r = Replay(sys_log)
  BY DEF TypeInv
<1>3. ASSUME l = ReplayOne(r, m), l.ok PROVE r.ok /\ l.tables = Applied(r, m).tables
  BY <1>3 DEF ReplayOne, Catalogs
<1> QED
  BY <1>1, <1>2, <1>3 DEF Recoverable, TypeInv

\* The tables in hand, when one request is active at most.
LEMMA InHand ==
    ASSUME NEW p \in DdlProcs, NEW pr, \A q \in DdlProcs \ {p} : pr[q].pc = "idle"
    PROVE  /\ UNION { OpeningBy(pr[q]) : q \in DdlProcs } = OpeningBy(pr[p])
           /\ UNION { ClosingBy(pr[q]) : q \in DdlProcs } = ClosingBy(pr[p])
           /\ UNION { DeletingBy(pr[q]) : q \in DdlProcs } = DeletingBy(pr[p])
<1>1. ASSUME NEW q \in DdlProcs \ {p}
      PROVE  OpeningBy(pr[q]) = {} /\ ClosingBy(pr[q]) = {} /\ DeletingBy(pr[q]) = {}
  BY DEF OpeningBy, ClosingBy, DeletingBy
<1> QED
  BY <1>1

\* A step of the one active request.
LEMMA Alone ==
    ASSUME TypeInv, NEW p \in DdlProcs, OthersIdle(p), NEW s, Goto(p, s)
    PROVE  /\ proc'[p] = s /\ \A q \in Procs \ {p} : proc'[q] = proc[q]
           /\ \A q \in DdlProcs \ {p} : proc'[q].pc = "idle"
           /\ \A w \in Writers : proc'[w] = proc[w]
           /\ Opening = OpeningBy(proc[p]) /\ Opening' = OpeningBy(s)
           /\ Closing = ClosingBy(proc[p]) /\ Closing' = ClosingBy(s)
           /\ Deleting = DeletingBy(proc[p]) /\ Deleting' = DeletingBy(s)
           /\ AloneInv'
<1>1. p \in Procs /\ p \notin Writers
  BY DdlAssumption DEF Procs
<1>2. proc'[p] = s /\ \A q \in Procs \ {p} : proc'[q] = proc[q]
  BY <1>1 DEF Goto, TypeInv
<1>3. /\ \A q \in DdlProcs \ {p} : proc'[q].pc = "idle"
      /\ \A w \in Writers : proc'[w] = proc[w]
  BY <1>1, <1>2 DEF OthersIdle, Procs
<1>4. Opening = OpeningBy(proc[p]) /\ Closing = ClosingBy(proc[p])
      /\ Deleting = DeletingBy(proc[p])
  BY InHand, Zenon DEF OthersIdle, Opening, Closing, Deleting
<1>5. /\ UNION { OpeningBy(proc'[q]) : q \in DdlProcs } = OpeningBy(proc'[p])
      /\ UNION { ClosingBy(proc'[q]) : q \in DdlProcs } = ClosingBy(proc'[p])
      /\ UNION { DeletingBy(proc'[q]) : q \in DdlProcs } = DeletingBy(proc'[p])
  BY <1>3, InHand, Zenon
<1>6. Opening' = OpeningBy(s) /\ Closing' = ClosingBy(s) /\ Deleting' = DeletingBy(s)
  BY <1>2, <1>5, Zenon DEF Opening, Closing, Deleting
<1>7. AloneInv'
  BY <1>3, Zenon DEF AloneInv
<1> QED
  BY <1>2, <1>3, <1>4, <1>6, <1>7

\* Rows stay where they are as long as a step moves no files of a table it
\* keeps, revives no table, and counts every creation.
LEMMA RowsKept ==
    ASSUME TypeInv, ProcInv, RowsInv, acked' = acked,
           \A w \in Writers : proc'[w] = proc[w],
           \A t \in Tables :
              \/ created'[t] \in Nat /\ created'[t] > created[t]
              \/ /\ created'[t] = created[t]
                 /\ t \in catalog'.tables => /\ t \in catalog.tables
                                             /\ files[t] # 0 => files'[t] = files[t]
                 /\ t \in Recoverable' => /\ t \in Recoverable
                                          /\ t \in catalog.tables => t \in catalog'.tables
    PROVE  RowsInv'
<1>1. ASSUME NEW t \in Tables, NEW n, NEW f, f # 0, Holds(t, n, f)
      PROVE  Holds(t, n, f)'
  <2>1. created[t] \in Nat
    BY DEF TypeInv
  <2>2. CASE created'[t] \in Nat /\ created'[t] > created[t]
    BY <1>1, <2>1, <2>2 DEF Holds
  <2>3. CASE created'[t] = created[t]
    BY <1>1, <2>1, <2>3 DEF Holds
  <2> QED
    BY <2>2, <2>3
<1>2. ASSUME NEW a \in acked PROVE Holds(a.table, a.created, a.file)'
  <2>1. a.table \in Tables /\ a.file # 0
    BY DEF TypeInv, ProcInv, Row
  <2> QED
    BY <1>1, <2>1 DEF RowsInv
<1>3. ASSUME NEW w \in Writers, proc[w].pc = "write"
      PROVE  Holds(proc[w].table, proc[w].made, proc[w].file)'
  <2>1. proc[w].table \in Tables /\ proc[w].file # 0
    BY <1>3 DEF ProcInv
  <2> QED
    BY <1>1, <1>3, <2>1 DEF RowsInv
<1> QED
  BY <1>2, <1>3 DEF RowsInv

\* A commit moves no rows.
LEMMA CommitRows ==
    ASSUME TypeInv, ProcInv, RowsInv, NEW p \in DdlProcs, NEW m \in Logged, NEW next,
           commit_ddl(p, m, next)
    PROVE  RowsInv'
<1>1. /\ UNCHANGED <<files, acked>>
      /\ \E s \in {Idle, next} : Goto(p, s)
  BY CommitEffect
<1>2. \A w \in Writers : proc'[w] = proc[w]
  BY <1>1, DdlAssumption DEF Goto, TypeInv, Procs
<1>3. ASSUME NEW t \in Tables
      PROVE  \/ created'[t] \in Nat /\ created'[t] > created[t]
             \/ /\ created'[t] = created[t]
                /\ t \in catalog'.tables => t \in catalog.tables
                /\ t \in Recoverable' => /\ t \in Recoverable
                                         /\ t \in catalog.tables => t \in catalog'.tables
  <2>1. CASE UNCHANGED <<sys_log, catalog, created>>
    BY <2>1 DEF Recoverable
  <2>2. CASE /\ Created(m)
             /\ Replay(sys_log') = ReplayOne(Replay(sys_log), m)
             /\ catalog' \in {catalog, Applied(catalog, m)}
    <3>1. catalog'.tables \in {catalog.tables, After(catalog.tables, m)}
      BY <2>2, CommitTables
    <3>2. Recoverable' \subseteq After(Recoverable, m)
      <4>1. PICK l : l = Replay(sys_log') /\ l = ReplayOne(Replay(sys_log), m)
        BY <2>2
      <4>2. l.ok => l.tables = After(Recoverable, m)
        BY <4>1, CommitTables
      <4>3. Recoverable' = IF l.ok THEN l.tables ELSE {}
        BY <4>1 DEF Recoverable
      <4> QED
        BY <4>2, <4>3
    <3>3. CASE m.op = "create_table" /\ t = m.table
      <4>1. created'[t] = created[t] + 1 /\ created[t] \in Nat
        BY <2>2, <3>3 DEF Created, TypeInv
      <4> QED
        BY <4>1
    <3>4. CASE m.op = "create_table" /\ t # m.table
      <4>1. created'[t] = created[t]
        BY <2>2, <3>4 DEF Created, TypeInv
      <4> QED
        BY <3>1, <3>2, <3>4, <4>1 DEF After
    <3>5. CASE m.op # "create_table"
      <4>1. created' = created
        BY <2>2, <3>5 DEF Created
      <4>2. m.op \in {"create_database", "drop_database", "drop_table"}
        BY <3>5 DEF Logged
      <4> QED
        BY <3>1, <3>2, <4>1, <4>2 DEF After
    <3> QED
      BY <3>3, <3>4, <3>5
  <2> QED
    BY <2>1, <2>2, CommitEffect
<1> QED
  BY <1>1, <1>2, <1>3, RowsKept

\* A commit leaves the files and stores alone, so what has to hold of them holds
\* when the tables in hand account for the change of the catalog.
LEMMA CommitSound ==
    ASSUME TypeInv, ProcInv, SoundInv, NEW p \in DdlProcs, OthersIdle(p),
           NEW m \in Logged, NEW next, commit_ddl(p, m, next),
           proc[p].pc \in {"idle", "drop_database"},
           next.pc # "drop_database", next.pc # "register",
           Applicable(catalog, m) =>
              LET T == After(catalog.tables, m)
              IN  /\ OpeningBy(next) \subseteq T
                  /\ ClosingBy(next) \cap T = {} /\ DeletingBy(next) \cap T = {}
                  /\ ClosingBy(next) \cap After(Recoverable, m) = {}
                  /\ (T \ OpeningBy(next)) \cup ClosingBy(next) = catalog.tables
                  /\ next.pc = "open" => next.table \in Tables \ catalog.tables
                  /\ next.pc = "unregister_all" => T = {}
    PROVE  SoundInv'
<1>1. RowsInv'
  BY CommitRows DEF SoundInv
<1>2. /\ UNCHANGED <<registry, files, rows, unopened>> /\ failed \subseteq failed'
  BY CommitEffect
<1>3. Idle.pc = "idle" /\ OpeningBy(Idle) = {} /\ ClosingBy(Idle) = {} /\ DeletingBy(Idle) = {}
  BY IdleType DEF OpeningBy, ClosingBy, DeletingBy
<1>4. Opening = {} /\ Closing = {} /\ Deleting = {}
  <2>1. PICK s \in {Idle, next} : Goto(p, s)
    BY CommitEffect
  <2>2. OpeningBy(proc[p]) = {} /\ ClosingBy(proc[p]) = {} /\ DeletingBy(proc[p]) = {}
    BY DEF OpeningBy, ClosingBy, DeletingBy
  <2> QED
    BY <2>1, <2>2, Alone
<1>5. \A t \in Tables : files[t] # 0 /\ "delete" \notin failed => t \in catalog.tables
  BY <1>4 DEF SoundInv, FilesInv
<1>6. /\ unopened \subseteq catalog.tables
      /\ \A t \in Tables : registry[t] # 0 <=> t \in catalog.tables \ unopened
  BY <1>4 DEF SoundInv, RegistryInv
<1>7. CASE Goto(p, Idle) /\ catalog' = catalog
  <2>1. /\ proc'[p] = Idle /\ \A q \in DdlProcs : proc'[q].pc = "idle"
        /\ \A w \in Writers : proc'[w] = proc[w]
        /\ Opening' = {} /\ Closing' = {} /\ Deleting' = {} /\ AloneInv'
    BY <1>3, <1>7, Alone
  <2>2. CatalogInv'
    BY <2>1 DEF CatalogInv
  <2>3. RegistryInv'
    BY <1>2, <1>6, <1>7, <2>1 DEF SoundInv, RegistryInv
  <2>4. FilesInv'
    BY <1>2, <1>5, <1>7, <2>1 DEF FilesInv
  <2>5. DistinctInv' /\ RegisterInv'
    BY <1>2, <2>1 DEF SoundInv, DistinctInv, RegisterInv
  <2> QED
    BY <1>1, <2>1, <2>2, <2>3, <2>4, <2>5 DEF SoundInv
<1>8. CASE /\ Goto(p, next) /\ Applicable(catalog, m)
           /\ Replay(sys_log') = ReplayOne(Replay(sys_log), m)
           /\ catalog' = Applied(catalog, m) /\ failed' = failed
  <2>1. /\ proc'[p] = next /\ \A q \in DdlProcs \ {p} : proc'[q].pc = "idle"
        /\ \A w \in Writers : proc'[w] = proc[w]
        /\ Opening' = OpeningBy(next) /\ Closing' = ClosingBy(next)
        /\ Deleting' = DeletingBy(next) /\ AloneInv'
    BY <1>8, Alone
  <2>2. catalog'.tables = After(catalog.tables, m)
    BY <1>8, CommitTables
  <2>3. Recoverable' \subseteq After(Recoverable, m)
    <3>1. PICK l : l = Replay(sys_log') /\ l = ReplayOne(Replay(sys_log), m)
      BY <1>8
    <3>2. l.ok => l.tables = After(Recoverable, m)
      BY <3>1, CommitTables
    <3>3. Recoverable' = IF l.ok THEN l.tables ELSE {}
      BY <3>1 DEF Recoverable
    <3> QED
      BY <3>2, <3>3
  <2>4. CatalogInv'
    BY <1>8, <2>1, <2>2, <2>3 DEF CatalogInv
  <2>5. RegistryInv'
    BY <1>2, <1>6, <1>8, <2>1, <2>2 DEF SoundInv, RegistryInv
  <2>6. FilesInv'
    <3>1. ASSUME "delete" \notin failed, NEW t \in Tables, files[t] # 0
          PROVE  t \in catalog'.tables \cup Closing'
      BY <1>5, <1>8, <2>1, <2>2, <3>1
    <3>2. ASSUME "delete" \notin failed, NEW q \in DdlProcs, proc'[q].pc = "open"
          PROVE  files[proc'[q].table] = 0
      BY <1>5, <1>8, <2>1, <3>2
    <3> QED
      BY <1>2, <1>8, <3>1, <3>2 DEF FilesInv
  <2>7. DistinctInv' /\ RegisterInv'
    BY <1>2, <2>1 DEF SoundInv, DistinctInv, RegisterInv
  <2> QED
    BY <1>1, <2>1, <2>4, <2>5, <2>6, <2>7 DEF SoundInv
<1> QED
  BY <1>7, <1>8, CommitEffect, Zenon

\* The four requests that commit.
LEMMA CommitsSound ==
    ASSUME TypeInv, ProcInv, SoundInv, NEW p \in DdlProcs, OthersIdle(p),
           \/ CreateDatabase(p) \/ DropDatabase(p)
           \/ \E t \in Tables : CreateTable(p, t) \/ DropTable(p, t)
    PROVE  SoundInv'
<1> USE DEF OpeningBy, ClosingBy, DeletingBy, After, Mutation
<1>1. CASE CreateDatabase(p)
  <2>1. Mutation("create_database", "") \in Logged
    BY DEF Logged
  <2>2. OpeningBy(Idle) = {} /\ ClosingBy(Idle) = {} /\ DeletingBy(Idle) = {} /\ Idle.pc = "idle"
    BY IdleType
  <2>3. After(catalog.tables, Mutation("create_database", "")) = catalog.tables
    OBVIOUS
  <2> HIDE DEF OpeningBy, ClosingBy, DeletingBy, After, Mutation
  <2> QED
    BY <1>1, <2>1, <2>2, <2>3, CommitSound DEF CreateDatabase
<1>2. ASSUME NEW t \in Tables, CreateTable(p, t) PROVE SoundInv'
  <2> DEFINE s == [Idle EXCEPT !.pc = "open", !.table = t]
             m == Mutation("create_table", t)
  <2>1. m \in Logged
    BY DEF Logged
  <2>2. s.pc = "open" /\ s.table = t
    BY DEF Idle
  <2>3. OpeningBy(s) = {t} /\ ClosingBy(s) = {} /\ DeletingBy(s) = {}
    BY <2>2
  <2>4. Applicable(catalog, m) => t \notin catalog.tables
    BY DEF Applicable
  <2>5. After(catalog.tables, m) = catalog.tables \cup {t}
    OBVIOUS
  <2>6. proc[p].pc = "idle" /\ commit_ddl(p, m, s)
    BY <1>2 DEF CreateTable
  <2> HIDE DEF OpeningBy, ClosingBy, DeletingBy, After, Mutation, s, m
  <2>7. Applicable(catalog, m) =>
          (After(catalog.tables, m) \ OpeningBy(s)) \cup ClosingBy(s) = catalog.tables
    BY <2>3, <2>4, <2>5
  <2> QED
    BY <2>1, <2>2, <2>3, <2>4, <2>5, <2>6, <2>7, CommitSound
<1>3. ASSUME NEW t \in Tables, DropTable(p, t) PROVE SoundInv'
  <2> DEFINE s == [Idle EXCEPT !.pc = "unregister", !.listed = {t}]
             m == Mutation("drop_table", t)
  <2>1. m \in Logged
    BY DEF Logged
  <2>2. s.pc = "unregister" /\ s.listed = {t}
    BY DEF Idle
  <2>3. OpeningBy(s) = {} /\ ClosingBy(s) = {t} /\ DeletingBy(s) = {}
    BY <2>2
  <2>4. After(catalog.tables, m) = catalog.tables \ {t} /\ After(Recoverable, m) = Recoverable \ {t}
    OBVIOUS
  <2>5. t \in catalog.tables /\ proc[p].pc = "idle" /\ commit_ddl(p, m, s)
    BY <1>3 DEF DropTable
  <2> HIDE DEF OpeningBy, ClosingBy, DeletingBy, After, Mutation, s, m
  <2>6. (After(catalog.tables, m) \ OpeningBy(s)) \cup ClosingBy(s) = catalog.tables
    BY <2>3, <2>4, <2>5
  <2> QED
    BY <2>1, <2>2, <2>3, <2>4, <2>5, <2>6, CommitSound
<1>4. CASE DropDatabase(p)
  <2> DEFINE s == [proc[p] EXCEPT !.pc = "unregister_all"]
             m == Mutation("drop_database", "")
  <2>1. m \in Logged
    BY DEF Logged
  <2>2. proc[p].pc = "drop_database" /\ commit_ddl(p, m, s)
    BY <1>4 DEF DropDatabase
  <2>3. proc[p] \in Proc /\ proc[p].listed = catalog.tables /\ catalog.tables \subseteq Tables
    BY <2>2 DEF TypeInv, Procs, SoundInv, CatalogInv, Catalogs
  <2>4. s.pc = "unregister_all" /\ s.listed = catalog.tables
    BY <2>3 DEF Proc
  <2>5. OpeningBy(s) = {} /\ ClosingBy(s) = catalog.tables /\ DeletingBy(s) = {}
    BY <2>3, <2>4
  <2>6. After(catalog.tables, m) = {} /\ After(Recoverable, m) = {}
    OBVIOUS
  <2> HIDE DEF OpeningBy, ClosingBy, DeletingBy, After, Mutation, s, m
  <2>7. (After(catalog.tables, m) \ OpeningBy(s)) \cup ClosingBy(s) = catalog.tables
    BY <2>5, <2>6
  <2> QED
    BY <2>1, <2>2, <2>4, <2>5, <2>6, <2>7, CommitSound
<1> QED
  BY <1>1, <1>2, <1>3, <1>4

\* What the steps of a request outside the commit leave alone.
LEMMA SameRows ==
    ASSUME TypeInv, ProcInv, RowsInv, UNCHANGED <<sys_log, catalog, created, acked>>,
           \A w \in Writers : proc'[w] = proc[w],
           \A t \in catalog.tables : files[t] # 0 => files'[t] = files[t]
    PROVE  RowsInv' /\ Recoverable' = Recoverable
<1>1. Recoverable' = Recoverable
  BY DEF Recoverable
<1> QED
  BY <1>1, RowsKept

\* Opening the store of a new table.
LEMMA OpenSound ==
    ASSUME TypeInv, ProcInv, SoundInv, NEW p \in DdlProcs, OthersIdle(p), OpenStore(p)
    PROVE  SoundInv'
<1> DEFINE t == proc[p].table
<1>1. /\ proc[p].pc = "open" /\ t \in Tables
      /\ UNCHANGED <<sys_log, catalog, registry, created, acked>>
      /\ "delete" \in failed' <=> "delete" \in failed
  BY OpenEffect
<1>2. OpeningBy(proc[p]) = {t} /\ ClosingBy(proc[p]) = {} /\ DeletingBy(proc[p]) = {}
  BY <1>1 DEF OpeningBy, ClosingBy, DeletingBy
<1>3. PICK s : Goto(p, s)
  BY OpenEffect
<1>4. Opening = {t} /\ Closing = {} /\ Deleting = {}
  BY <1>2, <1>3, Alone
<1>5. t \in catalog.tables /\ catalog.tables \subseteq Tables
  BY <1>4 DEF SoundInv, CatalogInv, TypeInv, Catalogs
<1>6. PICK f \in Nat :
          /\ files' = [files EXCEPT ![t] = f]
          /\ \/ f = files[t] /\ rows' = rows
             \/ f = Len(rows) + 1 /\ rows' = Append(rows, 0) /\ files[t] = 0
          /\ \/ /\ f # 0 /\ Goto(p, [proc[p] EXCEPT !.pc = "register", !.file = f])
                /\ unopened' = unopened
             \/ Goto(p, Idle) /\ unopened' = unopened \cup {t}
  BY <1>5, OpenEffect
<1>7. files'[t] = f /\ \A u \in Tables \ {t} : files'[u] = files[u]
  BY <1>1, <1>6 DEF TypeInv
<1>8. \A u \in catalog.tables : files[u] # 0 => files'[u] = files[u]
  BY <1>5, <1>6, <1>7
<1>9. DistinctInv'
  <2>1. \A u \in Tables : u # t => files[u] \in Nat /\ files[u] <= Len(rows) /\ Len(rows) \in Nat
    BY DEF TypeInv, Numbers
  <2>2. f # 0 => \A u \in Tables \ {t} : files[u] # f
    BY <1>1, <1>6, <2>1 DEF SoundInv, DistinctInv
  <2> QED
    BY <1>7, <2>2 DEF SoundInv, DistinctInv
<1>10. /\ unopened \subseteq catalog.tables \ {t}
       /\ \A u \in Tables : registry[u] # 0 <=> u \in (catalog.tables \ {t}) \ unopened
       /\ \A u \in Tables : registry[u] # 0 => u # t /\ files'[u] = registry[u]
  BY <1>4, <1>7 DEF SoundInv, RegistryInv
<1>11. CASE Goto(p, Idle) /\ unopened' = unopened \cup {t}
  <2>1. OpeningBy(Idle) = {} /\ ClosingBy(Idle) = {} /\ DeletingBy(Idle) = {} /\ Idle.pc = "idle"
    BY IdleType DEF OpeningBy, ClosingBy, DeletingBy
  <2>2. /\ \A q \in DdlProcs : proc'[q].pc = "idle"
        /\ \A w \in Writers : proc'[w] = proc[w]
        /\ Opening' = {} /\ Closing' = {} /\ Deleting' = {} /\ AloneInv'
    BY <1>11, <2>1, Alone
  <2>3. RowsInv' /\ Recoverable' = Recoverable
    BY <1>1, <1>8, <2>2, SameRows DEF SoundInv
  <2>4. CatalogInv'
    BY <2>2 DEF CatalogInv
  <2>5. RegistryInv'
    BY <1>1, <1>5, <1>10, <1>11, <2>2 DEF RegistryInv
  <2>6. FilesInv' /\ RegisterInv'
    BY <1>1, <1>4, <1>5, <1>7, <2>2 DEF SoundInv, FilesInv, RegisterInv
  <2> QED
    BY <1>9, <2>2, <2>3, <2>4, <2>5, <2>6 DEF SoundInv
<1>12. CASE /\ f # 0 /\ Goto(p, [proc[p] EXCEPT !.pc = "register", !.file = f])
            /\ unopened' = unopened
  <2>1. PICK n : n = [proc[p] EXCEPT !.pc = "register", !.file = f]
    OBVIOUS
  <2>2. n.pc = "register" /\ n.table = t /\ n.file = f /\ Goto(p, n)
    <3>1. proc[p] \in Proc
      BY DEF TypeInv, Procs
    <3> QED
      BY <1>12, <2>1, <3>1 DEF Proc
  <2>3. OpeningBy(n) = {t} /\ ClosingBy(n) = {} /\ DeletingBy(n) = {}
    BY <1>1, <2>2 DEF OpeningBy, ClosingBy, DeletingBy
  <2>4. /\ proc'[p] = n /\ \A q \in DdlProcs \ {p} : proc'[q].pc = "idle"
        /\ \A w \in Writers : proc'[w] = proc[w]
        /\ Opening' = {t} /\ Closing' = {} /\ Deleting' = {} /\ AloneInv'
    BY <2>2, <2>3, Alone
  <2>5. RowsInv' /\ Recoverable' = Recoverable
    BY <1>1, <1>8, <2>4, SameRows DEF SoundInv
  <2>6. CatalogInv'
    BY <1>1, <1>5, <2>2, <2>4, <2>5 DEF CatalogInv
  <2>7. RegistryInv'
    BY <1>1, <1>10, <1>12, <2>4 DEF RegistryInv
  <2>8. FilesInv'
    BY <1>1, <1>4, <1>5, <1>7, <2>2, <2>4 DEF SoundInv, FilesInv
  <2>9. RegisterInv'
    <3>1. ASSUME "delete" \notin failed
          PROVE  rows'[f] = 0 /\ \A w \in Writers : proc[w].pc = "write" => proc[w].file # f
      <4>1. files[t] = 0
        BY <1>1, <3>1 DEF SoundInv, FilesInv
      <4>2. f = Len(rows) + 1 /\ rows' = Append(rows, 0)
        BY <1>6, <1>12, <4>1
      <4>3. rows'[f] = 0
        BY <4>2 DEF TypeInv
      <4>4. \A w \in Writers : proc[w].pc = "write" => proc[w].file \in 0 .. Len(rows)
        BY DEF ProcInv, Numbers
      <4>5. Len(rows) \in Nat
        BY DEF TypeInv
      <4> QED
        BY <4>2, <4>3, <4>4, <4>5
    <3> QED
      BY <1>1, <1>7, <2>2, <2>4, <3>1 DEF RegisterInv
  <2> QED
    BY <1>9, <2>4, <2>5, <2>6, <2>7, <2>8, <2>9 DEF SoundInv
<1> QED
  BY <1>6, <1>11, <1>12

\* Registering it.
LEMMA RegisterSound ==
    ASSUME TypeInv, ProcInv, SoundInv, NEW p \in DdlProcs, OthersIdle(p), Register(p)
    PROVE  SoundInv'
<1> DEFINE t == proc[p].table
           f == proc[p].file
<1>1. /\ proc[p].pc = "register" /\ t \in Tables /\ f # 0
      /\ UNCHANGED <<sys_log, catalog, files, rows, created, acked, failed, unopened>>
      /\ registry' = [registry EXCEPT ![t] = f] /\ Goto(p, Idle)
  BY DEF Register, history, counters, ProcInv
<1>2. OpeningBy(proc[p]) = {t} /\ ClosingBy(proc[p]) = {} /\ DeletingBy(proc[p]) = {}
  BY <1>1 DEF OpeningBy, ClosingBy, DeletingBy
<1>3. OpeningBy(Idle) = {} /\ ClosingBy(Idle) = {} /\ DeletingBy(Idle) = {} /\ Idle.pc = "idle"
  BY IdleType DEF OpeningBy, ClosingBy, DeletingBy
<1>4. /\ \A q \in DdlProcs : proc'[q].pc = "idle"
      /\ \A w \in Writers : proc'[w] = proc[w]
      /\ Opening = {t} /\ Closing = {} /\ Deleting = {}
      /\ Opening' = {} /\ Closing' = {} /\ Deleting' = {} /\ AloneInv'
  BY <1>1, <1>2, <1>3, Alone
<1>5. t \in catalog.tables /\ files[t] = f
  BY <1>1, <1>4 DEF SoundInv, CatalogInv, RegisterInv
<1>6. RowsInv' /\ Recoverable' = Recoverable
  BY <1>1, <1>4, SameRows DEF SoundInv
<1>7. CatalogInv'
  BY <1>4 DEF CatalogInv
<1>8. RegistryInv'
  <2>1. registry'[t] = f /\ \A u \in Tables \ {t} : registry'[u] = registry[u]
    BY <1>1 DEF TypeInv
  <2> QED
    BY <1>1, <1>4, <1>5, <2>1 DEF SoundInv, RegistryInv
<1>9. FilesInv' /\ DistinctInv' /\ RegisterInv'
  BY <1>1, <1>4 DEF SoundInv, FilesInv, DistinctInv, RegisterInv
<1> QED
  BY <1>4, <1>6, <1>7, <1>8, <1>9 DEF SoundInv

\* Listing the tables of a database to drop.
LEMMA ListSound ==
    ASSUME TypeInv, ProcInv, SoundInv, NEW p \in DdlProcs, OthersIdle(p),
           NEW cascade, ListTables(p, cascade)
    PROVE  SoundInv'
<1> DEFINE s == [Idle EXCEPT !.pc = "drop_database", !.listed = catalog.tables]
<1>1. /\ proc[p].pc = "idle" /\ Goto(p, s)
      /\ UNCHANGED <<sys_log, catalog, registry, files, rows, created, acked, failed, unopened>>
  BY DEF ListTables, history, counters
<1>2. OpeningBy(proc[p]) = {} /\ ClosingBy(proc[p]) = {} /\ DeletingBy(proc[p]) = {}
  BY <1>1 DEF OpeningBy, ClosingBy, DeletingBy
<1>3. s.pc = "drop_database" /\ s.listed = catalog.tables
  BY DEF Idle
<1> HIDE DEF s
<1>4. OpeningBy(s) = {} /\ ClosingBy(s) = {} /\ DeletingBy(s) = {}
  BY <1>3 DEF OpeningBy, ClosingBy, DeletingBy
<1>5. /\ proc'[p] = s /\ \A q \in DdlProcs \ {p} : proc'[q].pc = "idle"
      /\ \A w \in Writers : proc'[w] = proc[w]
      /\ Opening = {} /\ Closing = {} /\ Deleting = {}
      /\ Opening' = {} /\ Closing' = {} /\ Deleting' = {} /\ AloneInv'
  BY <1>1, <1>2, <1>4, Alone
<1>6. RowsInv' /\ Recoverable' = Recoverable
  BY <1>1, <1>5, SameRows DEF SoundInv
<1>7. CatalogInv'
  BY <1>1, <1>3, <1>5 DEF CatalogInv
<1>8. RegistryInv' /\ FilesInv' /\ DistinctInv' /\ RegisterInv'
  BY <1>1, <1>3, <1>5 DEF SoundInv, RegistryInv, FilesInv, DistinctInv, RegisterInv
<1> QED
  BY <1>5, <1>6, <1>7, <1>8 DEF SoundInv

\* Closing the stores of dropped tables.
LEMMA UnregisterSound ==
    ASSUME TypeInv, ProcInv, SoundInv, NEW p \in DdlProcs, OthersIdle(p), Unregister(p)
    PROVE  SoundInv'
<1> DEFINE s == [proc[p] EXCEPT !.pc = IF proc[p].pc = "unregister" THEN "delete" ELSE "delete_all"]
           L == proc[p].listed
<1>1. /\ proc[p].pc \in {"unregister", "unregister_all"} /\ Goto(p, s)
      /\ registry' = [t \in Tables |-> IF t \in L THEN 0 ELSE registry[t]]
      /\ UNCHANGED <<sys_log, catalog, files, rows, created, acked, failed>>
      /\ unopened' = unopened \ L
  BY DEF Unregister, history, counters
<1>2. proc[p] \in Proc /\ L \subseteq Tables
  BY DEF TypeInv, Procs, Proc
<1>3. OpeningBy(proc[p]) = {} /\ ClosingBy(proc[p]) = L /\ DeletingBy(proc[p]) = {}
  BY <1>1, <1>2 DEF OpeningBy, ClosingBy, DeletingBy
<1>4. /\ s.pc \in {"delete", "delete_all"} /\ s.listed = L
      /\ proc[p].pc = "unregister" => s.pc = "delete"
  BY <1>2 DEF Proc
<1> HIDE DEF s
<1>5. OpeningBy(s) = {} /\ ClosingBy(s) = {} /\ L \subseteq DeletingBy(s)
  BY <1>2, <1>4 DEF OpeningBy, ClosingBy, DeletingBy
<1>6. /\ proc'[p] = s /\ \A q \in DdlProcs \ {p} : proc'[q].pc = "idle"
      /\ \A w \in Writers : proc'[w] = proc[w]
      /\ Opening = {} /\ Closing = L /\ Deleting = {}
      /\ Opening' = {} /\ Closing' = {} /\ Deleting' = DeletingBy(s) /\ AloneInv'
  BY <1>1, <1>3, <1>5, Alone
<1>7. RowsInv' /\ Recoverable' = Recoverable
  BY <1>1, <1>6, SameRows DEF SoundInv
<1>8. CatalogInv'
  <2>1. CASE proc[p].pc = "unregister"
    <3>1. DeletingBy(s) \subseteq L
      BY <1>4, <2>1 DEF DeletingBy
    <3>2. L \cap catalog.tables = {}
      BY <1>6 DEF SoundInv, CatalogInv
    <3> QED
      BY <1>1, <1>4, <1>6, <3>1, <3>2 DEF CatalogInv
  <2>2. CASE proc[p].pc = "unregister_all"
    <3>1. catalog.tables = {}
      BY <2>2 DEF SoundInv, CatalogInv
    <3> QED
      BY <1>1, <1>4, <1>6, <3>1 DEF CatalogInv
  <2> QED
    BY <1>1, <2>1, <2>2
<1>9. RegistryInv'
  BY <1>1, <1>6 DEF SoundInv, RegistryInv, CatalogInv
<1>10. FilesInv' /\ DistinctInv' /\ RegisterInv'
  BY <1>1, <1>4, <1>5, <1>6 DEF SoundInv, FilesInv, DistinctInv, RegisterInv
<1> QED
  BY <1>6, <1>7, <1>8, <1>9, <1>10 DEF SoundInv

\* Deleting their files.
LEMMA DeleteSound ==
    ASSUME TypeInv, ProcInv, SoundInv, NEW p \in DdlProcs, OthersIdle(p), DeleteFiles(p)
    PROVE  SoundInv'
<1> DEFINE D == DeletingBy(proc[p])
<1>1. /\ proc[p].pc \in {"delete", "delete_all"} /\ Goto(p, Idle)
      /\ UNCHANGED <<sys_log, catalog, registry, rows, created, acked, unopened>>
  BY DEF DeleteFiles, history
<1>2. \/ /\ files' = [t \in Tables |-> IF t \in D THEN 0 ELSE files[t]]
         /\ failed' = failed
      \/ files' = files /\ "delete" \in failed'
  <2>1. \A t \in Tables : t \in Doomed(p) <=> t \in D
    BY <1>1 DEF Doomed, DeletingBy
  <2> QED
    BY <2>1 DEF DeleteFiles, Fail
<1>3. OpeningBy(proc[p]) = {} /\ ClosingBy(proc[p]) = {} /\ D \subseteq Tables
  BY <1>1 DEF OpeningBy, ClosingBy, DeletingBy
<1>4. OpeningBy(Idle) = {} /\ ClosingBy(Idle) = {} /\ DeletingBy(Idle) = {} /\ Idle.pc = "idle"
  BY IdleType DEF OpeningBy, ClosingBy, DeletingBy
<1>5. /\ \A q \in DdlProcs : proc'[q].pc = "idle"
      /\ \A w \in Writers : proc'[w] = proc[w]
      /\ Opening = {} /\ Closing = {} /\ Deleting = D
      /\ Opening' = {} /\ Closing' = {} /\ Deleting' = {} /\ AloneInv'
  BY <1>1, <1>3, <1>4, Alone
<1> HIDE DEF D
<1>6. D \cap catalog.tables = {}
  BY <1>5 DEF SoundInv, CatalogInv
<1>7. \A t \in Tables \ D : files'[t] = files[t]
  BY <1>2
<1>8. RowsInv' /\ Recoverable' = Recoverable
  <2>1. \A t \in catalog.tables : files'[t] = files[t]
    BY <1>6, <1>7 DEF TypeInv, Catalogs
  <2> QED
    BY <1>1, <1>5, <2>1, SameRows DEF SoundInv
<1>9. CatalogInv'
  BY <1>5 DEF CatalogInv
<1>10. RegistryInv'
  BY <1>1, <1>5, <1>6, <1>7 DEF SoundInv, RegistryInv
<1>11. FilesInv'
  BY <1>1, <1>2, <1>5 DEF SoundInv, FilesInv
<1>12. DistinctInv' /\ RegisterInv'
  <2>1. \A t \in Tables : files'[t] # 0 => files'[t] = files[t]
    BY <1>2
  <2> QED
    BY <1>5, <2>1 DEF SoundInv, DistinctInv, RegisterInv
<1> QED
  BY <1>5, <1>8, <1>9, <1>10, <1>11, <1>12 DEF SoundInv

\* A writer's step leaves the tables in hand as they are.
LEMMA WriterLeavesDdl ==
    ASSUME TypeInv, NEW p \in Writers, NEW s, Goto(p, s)
    PROVE  /\ proc'[p] = s
           /\ \A q \in Writers \ {p} : proc'[q] = proc[q]
           /\ \A q \in DdlProcs : proc'[q] = proc[q]
           /\ Opening' = Opening /\ Closing' = Closing /\ Deleting' = Deleting
<1>1. p \in Procs /\ p \notin DdlProcs
  BY DdlAssumption DEF Procs
<1>2. proc'[p] = s /\ \A q \in Procs \ {p} : proc'[q] = proc[q]
  BY <1>1 DEF Goto, TypeInv
<1>3. /\ \A q \in Writers \ {p} : proc'[q] = proc[q]
      /\ \A q \in DdlProcs : proc'[q] = proc[q]
  BY <1>1, <1>2 DEF Procs
<1> QED
  BY <1>2, <1>3 DEF Opening, Closing, Deleting

\* A writer that looks up a table gets the store of its last creation.
LEMMA LookupSound ==
    ASSUME TypeInv, ProcInv, SoundInv, NEW p \in Writers, NEW t \in Tables, Lookup(p, t)
    PROVE  SoundInv'
<1> DEFINE s == [Idle EXCEPT !.pc = "write", !.table = t, !.file = registry[t],
                             !.made = Completed(t)]
<1>1. /\ registry[t] # 0 /\ Goto(p, s)
      /\ UNCHANGED <<sys_log, catalog, registry, files, rows, created, acked, failed, unopened>>
  BY DEF Lookup, history
<1>2. t \in (catalog.tables \ Opening) \cup Closing /\ files[t] = registry[t] /\ t \notin Opening
  BY <1>1 DEF SoundInv, RegistryInv, CatalogInv
<1>3. Completed(t) = created[t]
  <2>1. \A q \in DdlProcs : ~(proc[q].pc \in {"open", "register"} /\ proc[q].table = t)
    BY <1>2 DEF Opening, OpeningBy
  <2>2. { q \in DdlProcs : proc[q].pc \in {"open", "register"} /\ proc[q].table = t } = {}
    BY <2>1
  <2>3. Completed(t) = created[t] - Cardinality({})
    BY <2>2, Zenon DEF Completed
  <2> QED
    BY <2>3, FS_EmptySet DEF TypeInv
<1>4. s.pc = "write" /\ s.table = t /\ s.file = registry[t] /\ s.made = created[t]
  <2>1. PICK c : c = Completed(t)
    OBVIOUS
  <2>2. LET n == [Idle EXCEPT !.pc = "write", !.table = t, !.file = registry[t], !.made = c]
        IN  n.pc = "write" /\ n.table = t /\ n.file = registry[t] /\ n.made = c
    BY DEF Idle
  <2> QED
    BY <1>3, <2>1, <2>2
<1> HIDE DEF s
<1>5. /\ proc'[p] = s
      /\ \A q \in Writers \ {p} : proc'[q] = proc[q]
      /\ \A q \in DdlProcs : proc'[q] = proc[q]
      /\ Opening' = Opening /\ Closing' = Closing /\ Deleting' = Deleting
  BY <1>1, WriterLeavesDdl
<1>6. Recoverable' = Recoverable
  BY <1>1 DEF Recoverable
<1>7. \A u, n, f : Holds(u, n, f) => Holds(u, n, f)'
  BY <1>1, <1>6 DEF Holds
<1>8. Holds(t, created[t], registry[t])'
  <2>1. created[t] \in Nat /\ created[t] <= created[t]
    BY DEF TypeInv
  <2>2. t \in Recoverable => t \in catalog.tables
    BY <1>2 DEF SoundInv, CatalogInv
  <2> QED
    BY <1>1, <1>2, <1>6, <2>1, <2>2 DEF Holds
<1>9. RowsInv'
  <2>1. ASSUME NEW a \in acked' PROVE Holds(a.table, a.created, a.file)'
    BY <1>1, <1>7 DEF SoundInv, RowsInv
  <2>2. ASSUME NEW w \in Writers, proc'[w].pc = "write"
        PROVE  Holds(proc[w].table, proc[w].made, proc[w].file)'
    <3>1. CASE w = p
      BY <1>1, <1>4, <1>5, <1>8, <3>1 DEF Holds
    <3>2. CASE w # p
      <4>1. proc'[w] = proc[w] /\ Holds(proc[w].table, proc[w].made, proc[w].file)
        BY <1>5, <2>2, <3>2 DEF SoundInv, RowsInv
      <4> QED
        BY <1>1, <1>6, <4>1 DEF Holds
    <3> QED
      BY <3>1, <3>2
  <2> QED
    BY <2>1, <2>2 DEF RowsInv
<1>10. RegisterInv'
  <2>1. ASSUME NEW q \in DdlProcs, proc[q].pc = "register" PROVE registry[t] # proc[q].file
    <3>1. proc[q].table \in Opening /\ proc[q].table \in Tables
      BY <2>1 DEF Opening, OpeningBy, ProcInv
    <3> QED
      BY <1>1, <1>2, <2>1, <3>1 DEF SoundInv, RegisterInv, DistinctInv
  <2> QED
    BY <1>1, <1>4, <1>5, <2>1 DEF SoundInv, RegisterInv
<1>11. AloneInv' /\ CatalogInv' /\ RegistryInv' /\ FilesInv' /\ DistinctInv'
  BY <1>1, <1>5, <1>6 DEF SoundInv, AloneInv, CatalogInv, RegistryInv, FilesInv, DistinctInv
<1> QED
  BY <1>9, <1>10, <1>11 DEF SoundInv

\* Its write goes to that file, and moves none unless it is a late flush.
LEMMA WriteSound ==
    ASSUME TypeInv, ProcInv, SoundInv, disturbed' = {},
           NEW p \in Writers, NEW flush \in BOOLEAN, WriteRow(p, flush)
    PROVE  SoundInv'
<1> DEFINE t == proc[p].table
           f == proc[p].file
           a0 == [table |-> t, created |-> proc[p].made, file |-> f]
<1>1. /\ proc[p].pc = "write" /\ Goto(p, Idle)
      /\ t \in Tables /\ f # 0 /\ f \in 1 .. Len(rows)
      /\ UNCHANGED <<sys_log, catalog, registry, created, failed, unopened>>
      /\ rows' = [rows EXCEPT ![f] = @ + 1]
      /\ acked' \subseteq acked \cup {a0}
  <2>1. proc[p].pc = "write" /\ Goto(p, Idle)
        /\ UNCHANGED <<sys_log, catalog, registry, created, failed, unopened>>
        /\ rows' = [rows EXCEPT ![f] = @ + 1]
    BY DEF WriteRow, counters
  <2>2. acked' \subseteq acked \cup {a0}
    BY DEF WriteRow
  <2>3. t \in Tables /\ f # 0 /\ f \in 1 .. Len(rows)
    BY <2>1 DEF ProcInv, Numbers, TypeInv
  <2> QED
    BY <2>1, <2>2, <2>3
<1>2. files' = files
  <2>1. flush => files[t] = f
    BY DEF WriteRow
  <2>2. [files EXCEPT ![t] = files[t]] = files
    BY <1>1 DEF TypeInv
  <2> QED
    BY <2>1, <2>2 DEF WriteRow
<1>3. /\ proc'[p] = Idle /\ Idle.pc = "idle"
      /\ \A q \in Writers \ {p} : proc'[q] = proc[q]
      /\ \A q \in DdlProcs : proc'[q] = proc[q]
      /\ Opening' = Opening /\ Closing' = Closing /\ Deleting' = Deleting
  BY <1>1, WriterLeavesDdl, IdleType
<1>4. Recoverable' = Recoverable
  BY <1>1 DEF Recoverable
<1>5. \A u, n, g : Holds(u, n, g) => Holds(u, n, g)'
  BY <1>1, <1>2, <1>4 DEF Holds
<1>6. RowsInv'
  <2>1. Holds(t, proc[p].made, f)
    BY <1>1 DEF SoundInv, RowsInv
  <2>2. a0.table = t /\ a0.created = proc[p].made /\ a0.file = f
    OBVIOUS
  <2> HIDE DEF a0
  <2>3. ASSUME NEW a \in acked' PROVE Holds(a.table, a.created, a.file)
    BY <1>1, <2>1, <2>2 DEF SoundInv, RowsInv
  <2>4. ASSUME NEW w \in Writers, proc'[w].pc = "write"
        PROVE  proc'[w] = proc[w] /\ Holds(proc[w].table, proc[w].made, proc[w].file)
    BY <1>3, <2>4 DEF SoundInv, RowsInv
  <2> QED
    BY <1>1, <1>2, <1>4, <2>3, <2>4 DEF RowsInv, Holds
<1>7. RegisterInv'
  <2>1. ASSUME NEW q \in DdlProcs, proc[q].pc = "register", "delete" \notin failed
        PROVE  rows'[proc[q].file] = 0
    <3>1. rows[proc[q].file] = 0 /\ proc[q].file # f /\ proc[q].file \in 1 .. Len(rows)
      BY <1>1, <2>1 DEF SoundInv, RegisterInv, ProcInv, Numbers, TypeInv
    <3> QED
      BY <1>1, <3>1 DEF TypeInv
  <2> QED
    BY <1>1, <1>2, <1>3, <2>1 DEF SoundInv, RegisterInv
<1>8. AloneInv' /\ CatalogInv' /\ RegistryInv' /\ FilesInv' /\ DistinctInv'
  BY <1>1, <1>2, <1>3, <1>4
     DEF SoundInv, AloneInv, CatalogInv, RegistryInv, FilesInv, DistinctInv
<1> QED
  BY <1>6, <1>7, <1>8 DEF SoundInv

\* A restart brings everything in line with the log.
LEMMA RestartSound ==
    ASSUME TypeInv, ProcInv, SoundInv, Restart
    PROVE  SoundInv'
<1> DEFINE cat == Replay(sys_log)
<1>1. /\ cat.ok /\ catalog' = cat
      /\ UNCHANGED <<sys_log, created, acked, failed>> /\ unopened' = {}
      /\ proc' = [p \in Procs |-> Idle]
      /\ \A t \in cat.tables :
            /\ files'[t] # 0 /\ registry'[t] = files'[t]
            /\ files[t] # 0 => files'[t] = files[t]
            /\ files[t] = 0 => files'[t] > Len(rows)
      /\ \A t \in Tables \ cat.tables : files'[t] = 0 /\ registry'[t] = 0
      /\ \A t, u \in cat.tables :
            files[t] = 0 /\ files[u] = 0 /\ files'[t] = files'[u] => t = u
  BY RestartEffect, Zenon
<1>2. cat.tables \subseteq Tables /\ Recoverable' = cat.tables /\ Recoverable = cat.tables
  BY <1>1 DEF TypeInv, Catalogs, Recoverable
<1> HIDE DEF cat
<1>3. \A p \in Procs : proc'[p].pc = "idle"
  BY <1>1, IdleType
<1>4. Opening' = {} /\ Closing' = {} /\ Deleting' = {}
  BY <1>3 DEF Opening, Closing, Deleting, OpeningBy, ClosingBy, DeletingBy, Procs
<1>5. AloneInv' /\ CatalogInv' /\ RegisterInv'
  BY <1>3, <1>4 DEF AloneInv, CatalogInv, RegisterInv, Procs
<1>6. RegistryInv'
  BY <1>1, <1>2, <1>4 DEF RegistryInv
<1>7. FilesInv'
  BY <1>1, <1>2, <1>3 DEF FilesInv, Procs
<1>8. DistinctInv'
  <2>1. \A t \in Tables : files[t] \in Nat /\ files[t] <= Len(rows) /\ Len(rows) \in Nat
    BY DEF TypeInv, Numbers
  <2>2. ASSUME NEW t \in Tables, NEW u \in Tables, files'[t] = files'[u], files'[t] # 0
        PROVE  t = u
    <3>1. t \in cat.tables /\ u \in cat.tables
      BY <1>1, <2>2
    <3>2. CASE files[t] = 0 /\ files[u] = 0
      BY <1>1, <2>2, <3>1, <3>2
    <3>3. CASE files[t] # 0 /\ files[u] # 0
      BY <1>1, <2>2, <3>1, <3>3 DEF SoundInv, DistinctInv
    <3>4. CASE files[t] # 0 /\ files[u] = 0
      <4>1. files'[t] <= Len(rows) /\ files'[u] > Len(rows)
        BY <1>1, <2>1, <3>1, <3>4
      <4> QED
        BY <2>1, <2>2, <4>1, <1>1, <3>1, <3>4
    <3>5. CASE files[t] = 0 /\ files[u] # 0
      <4>1. files'[u] <= Len(rows) /\ files'[t] > Len(rows)
        BY <1>1, <2>1, <3>1, <3>5
      <4> QED
        BY <2>1, <2>2, <4>1, <1>1, <3>1, <3>5
    <3> QED
      BY <3>2, <3>3, <3>4, <3>5
  <2> QED
    BY <2>2 DEF DistinctInv
<1>9. RowsInv'
  <2>1. ASSUME NEW a \in acked PROVE Holds(a.table, a.created, a.file)'
    <3>1. Holds(a.table, a.created, a.file) /\ a.file # 0
      BY DEF SoundInv, RowsInv, ProcInv
    <3> QED
      BY <1>1, <1>2, <3>1 DEF Holds
  <2> QED
    BY <1>1, <1>3, <2>1 DEF RowsInv, Procs
<1> QED
  BY <1>5, <1>6, <1>7, <1>8, <1>9 DEF SoundInv

\* As long as catalog changes have run one at a time and no store has flushed
\* after its table was dropped, catalog, registry, files and log fit together.
THEOREM DdlSound == Spec => [](disturbed = {} => SoundInv)
<1> DEFINE Inv == TypeInv /\ ProcInv
           Sound == disturbed = {} => SoundInv
<1>1. Init => Sound
  <2> SUFFICES ASSUME Init PROVE SoundInv
    OBVIOUS
  <2>1. \A p \in Procs : proc[p].pc = "idle"
    BY IdleType DEF Init
  <2>2. catalog.tables = {} /\ acked = {}
    BY DEF Init, Empty
  <2>3. Opening = {} /\ Closing = {} /\ Deleting = {}
    BY <2>1 DEF Opening, Closing, Deleting, OpeningBy, ClosingBy, DeletingBy, Procs
  <2>4. AloneInv /\ CatalogInv /\ RegisterInv /\ RowsInv
    BY <2>1, <2>2, <2>3 DEF AloneInv, CatalogInv, RegisterInv, RowsInv, Procs
  <2>5. RegistryInv /\ FilesInv /\ DistinctInv
    BY <2>1, <2>2, <2>3 DEF Init, RegistryInv, FilesInv, DistinctInv, Procs
  <2> QED
    BY <2>4, <2>5 DEF SoundInv
<1>2. Inv /\ Sound /\ [Next]_vars => Sound'
  <2> SUFFICES ASSUME TypeInv, ProcInv, Sound, [Next]_vars, disturbed' = {} PROVE SoundInv'
    BY Zenon
  <2>1. ASSUME NEW p \in DdlProcs, Ddl(p) PROVE SoundInv'
    <3>1. disturbed = {} /\ OthersIdle(p)
      BY <2>1 DEF Ddl, OthersIdle
    <3>2. SoundInv
      BY <3>1
    <3> QED
      BY <2>1, <3>1, <3>2, CommitsSound, OpenSound, RegisterSound, ListSound,
         UnregisterSound, DeleteSound, Zenon DEF Ddl
  <2>2. ASSUME NEW p \in Writers, Write(p) PROVE SoundInv'
    <3>1. disturbed = {}
      BY <2>2 DEF Write, Lookup, WriteRow
    <3>2. SoundInv
      BY <3>1
    <3> QED
      BY <2>2, <3>2, LookupSound, WriteSound DEF Write
  <2>3. CASE Restart
    <3>1. disturbed = {}
      BY <2>3 DEF Restart
    <3> QED
      BY <2>3, <3>1, RestartSound
  <2>4. CASE UNCHANGED vars
    <3>1. SoundInv
      BY <2>4 DEF vars
    <3>2. UNCHANGED <<Opening, Closing, Deleting, Recoverable>>
      BY <2>4 DEF vars, Opening, Closing, Deleting, Recoverable
    <3> QED
      BY <2>4, <3>1, <3>2 DEF vars, SoundInv, AloneInv, CatalogInv, RegistryInv, FilesInv,
                              DistinctInv, RegisterInv, RowsInv, Holds
  <2> QED
    BY <2>1, <2>2, <2>3, <2>4 DEF Next
<1> QED
  BY <1>1, <1>2, DdlTypeCorrect, PTL DEF Spec

\* Between catalog changes exactly the catalog's tables have an open store and
\* files, and the store holds the files at the table's path: Engine::open
\* repairs what a crash in the middle of a create or a drop left behind.  A
\* table whose store failed to open after its creation was logged stays in the
\* catalog without a store, until it is dropped or the engine restarts.
THEOREM QuietIsSettled == Spec => []SettledWhenQuiet
<1>1. TypeInv /\ ProcInv /\ (disturbed = {} => SoundInv) => SettledWhenQuiet
  <2> SUFFICES ASSUME SoundInv, "delete" \notin failed, \A p \in DdlProcs : proc[p].pc = "idle",
                      NEW t \in Tables
               PROVE  IF t \in unopened
                      THEN t \in catalog.tables /\ registry[t] = 0
                      ELSE /\ t \in catalog.tables <=> registry[t] # 0
                           /\ registry[t] = files[t]
    BY DEF SettledWhenQuiet
  <2>1. Opening = {} /\ Closing = {} /\ Deleting = {}
    BY DEF Opening, Closing, Deleting, OpeningBy, ClosingBy, DeletingBy
  <2> QED
    BY <2>1 DEF SoundInv, RegistryInv, FilesInv
<1> QED
  BY <1>1, DdlSound, DdlTypeCorrect, PTL

\* An acknowledged row is in its table's files until the table is dropped,
\* whatever else is created, dropped or cut short by a restart.
THEOREM AckedRowsKept == Spec => []NoAckedRowLost
<1>1. TypeInv /\ ProcInv /\ (disturbed = {} => SoundInv) => NoAckedRowLost
  BY DEF NoAckedRowLost, SoundInv, RowsInv, Holds
<1> QED
  BY <1>1, DdlSound, DdlTypeCorrect, PTL

\* A created table starts empty ("Recreating it gives an empty table, not the
\* old rows"), unless a deletion failed.
THEOREM NewTablesAreEmpty == Spec => []NewTableIsEmpty
<1>1. (disturbed = {} => SoundInv) => NewTableIsEmpty
  BY DEF NewTableIsEmpty, SoundInv, RegisterInv
<1> QED
  BY <1>1, DdlSound, PTL

=============================================================================
