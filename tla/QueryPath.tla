----------------------------- MODULE QueryPath ------------------------------
(***************************************************************************)
(* One query from its request to its answer (adb-engine Engine::query and  *)
(* run_plan; adb-exec lib.rs, scan.rs, budget.rs): a question is           *)
(* translated, the plan request is lowered, validated and built into a     *)
(* pipeline, the partitions are scanned by concurrent threads that share   *)
(* one budget, and the coordinator merges, sorts and cuts what they found. *)
(*                                                                         *)
(* The snapshots of the partitions are taken once, and stay as they are    *)
(* (module TableReads): what can change under a scan is that a file of it  *)
(* is deleted, so that a read fails.  The clock is an action that ends the *)
(* time budget at any moment.                                              *)
(***************************************************************************)
EXTENDS Execution, Questions, QueryMeaning

CONSTANTS
    Stores,     \* contents of the table: name -> a snapshot for each partition
    Inputs      \* [source, limits, store]: what the run asks, of which content

(* A snapshot is a sequence of segments as write_segment made them, each   *)
(* of some columns of the table, and of memtable batches.                  *)
IsSegment(s) ==
    /\ DOMAIN s.stats \subseteq Names(Table)
    /\ s.rows \in Seq([DOMAIN s.stats -> Scalars])
    /\ \A i \in DOMAIN s.rows, c \in DOMAIN s.stats :
          s.rows[i][c] = Null \/ s.rows[i][c][1] = Stored(Column(Table, c).type)
    /\ s.stats = [c \in DOMAIN s.stats |-> ColumnStats(Column(Table, c), s.rows)]
    /\ s.bytes \in Nat
IsSnapshot(s) ==
    /\ IsSequence(s.segments) /\ \A segment \in ToSet(s.segments) : IsSegment(segment)
    /\ IsSequence(s.memtable) /\ \A batch \in ToSet(s.memtable) : batch.bytes \in Nat

ASSUME TableIsSchema ==
    /\ IsSequence(Table) /\ \A c \in ToSet(Table) : c.type \in DataTypes
    /\ \A i, j \in DOMAIN Table : Table[i].name = Table[j].name => i = j
ASSUME StoresAreSnapshots ==
    \A name \in DOMAIN Stores : IsSequence(Stores[name]) /\ \A s \in ToSet(Stores[name]) : IsSnapshot(s)
ASSUME InputsAreRequests ==
    \A i \in Inputs :
        /\ i.store \in DOMAIN Stores
        /\ i.limits.max_rows \in Nat /\ i.limits.max_bytes \in Nat
        /\ i.source.kind \in {"plan", "query", "question"}
        /\ i.source.kind = "plan" => IsRequest(i.source.request)
        /\ i.source.kind = "query" => IsQuery(i.source.query)
        /\ i.source.kind = "question" => IsSequence(i.source.words)

VARIABLES
    input,      \* the source of the query, its limits, and the snapshots
    phase,      \* where query and run_plan are
    request,    \* the plan request, when there is one
    ir, plan,   \* the lowered query, then validated; the physical plan
    scan,       \* partition -> its thread
    budget,     \* Budget's counters
    late,       \* the time budget is over
    combined,   \* the coordinator's batch
    outcome,    \* the answer, or the kind of the error
    pruned,     \* history: the segments skipped on statistics
    read        \* history: bytes of the sources that were read

vars == <<input, phase, request, ir, plan, scan, budget, late, combined, outcome, pruned, read>>

store == Stores[input.store]
limits == input.limits
Partitions == DOMAIN store

(* The sources of a partition in arrival order: segments, then memtable    *)
(* batches with the ordinal their first row has in the memtable.           *)
RowsOf(batches) == FoldLeft(LAMBDA n, b : n + Len(b.rows), 0, batches)
Sources(snapshot) ==
    [i \in DOMAIN snapshot.segments |->
        [kind |-> "segment", file |-> snapshot.segments[i], offset |-> 0,
         suppressed |-> snapshot.segments[i].suppressed]] \o
    [i \in DOMAIN snapshot.memtable |->
        [kind |-> "memtable", file |-> snapshot.memtable[i],
         offset |-> RowsOf(SubSeq(snapshot.memtable, 1, i - 1)),
         suppressed |-> snapshot.memtable_suppressed]]

visible_rows(snapshot) ==
    LET segment(s) == Len(s.rows) - Cardinality(s.suppressed)
    IN  RowsOf(snapshot.memtable) - Cardinality(snapshot.memtable_suppressed)
          + FoldLeft(LAMBDA n, s : n + segment(s), 0, snapshot.segments)

(* Thread states: visiting source number at, or reading it after its bytes *)
(* were charged; then done or failed.                                      *)
Idle == [state |-> "visit", at |-> 1, rows |-> <<>>, groups |-> <<>>]

Init ==
    /\ input \in Inputs
    /\ phase = IF input.source.kind = "question" THEN "translate" ELSE "lower"
    /\ request = IF input.source.kind = "plan" THEN input.source.request ELSE <<>>
    /\ ir = <<>> /\ plan = <<>> /\ scan = <<>> /\ combined = <<>>
    /\ budget = [bytes |-> 0, truncated |-> FALSE]
    /\ late = FALSE
    /\ outcome = [kind |-> "none"]
    /\ pruned = {} /\ read = 0

End(result) == phase' = "done" /\ outcome' = result
Answer(rows) == [kind |-> "answer", rows |-> rows]
Error(kind) == [kind |-> kind]

(* query: a question is translated first.                                  *)
Translate ==
    /\ phase = "translate"
    /\ LET t == translate(input.source.words, input.source.now, input.source.tables)
       IN  IF t.ok THEN request' = t.request /\ phase' = "lower" /\ UNCHANGED outcome
           ELSE End(Error("refused")) /\ UNCHANGED request
    /\ UNCHANGED <<input, ir, plan, scan, budget, late, combined, pruned, read>>

(* A plan request is lowered; a plan handed to the planner's own interface *)
(* comes as it is.                                                         *)
Lower ==
    /\ phase = "lower"
    /\ LET lowered == IF input.source.kind = "query" THEN [ok |-> TRUE, query |-> input.source.query]
                      ELSE to_ir(request)
       IN  IF lowered.ok
           THEN ir' = lowered.query /\ phase' = "validate" /\ UNCHANGED outcome
           ELSE End(Error("refused")) /\ UNCHANGED ir
    /\ UNCHANGED <<input, request, plan, scan, budget, late, combined, pruned, read>>

Validate ==
    /\ phase = "validate"
    /\ LET v == validate(ir, Table, limits.max_rows)
       IN  IF v.ok THEN ir' = v /\ phase' = "build" /\ UNCHANGED outcome
           ELSE End(Error("refused")) /\ UNCHANGED ir
    /\ UNCHANGED <<input, request, plan, scan, budget, late, combined, pruned, read>>

Build ==
    /\ phase = "build"
    /\ LET p == build(ir)
       IN  IF p.ok THEN plan' = p /\ phase' = "execute" /\ UNCHANGED outcome
           ELSE End(Error("refused")) /\ UNCHANGED plan
    /\ UNCHANGED <<input, request, ir, scan, budget, late, combined, pruned, read>>

(* try_metadata_count: count( * ) alone is answered from the metadata.     *)
is_metadata_count ==
    /\ plan.aggregate /= NoAggregate
    /\ plan.filter = NoFilter /\ plan.aggregate.group_by = <<>>
    /\ Len(plan.aggregate.aggregates) = 1
    /\ plan.aggregate.aggregates[1].func = "count"
    /\ plan.aggregate.aggregates[1].column = Star

MetadataCount ==
    /\ phase = "execute" /\ is_metadata_count
    /\ LET total == FoldLeft(LAMBDA n, s : n + visible_rows(s), 0, store)
       IN  End(Answer(<<[c \in {plan.aggregate.aggregates[1].alias} |-> Int64(total)]>>))
    /\ UNCHANGED <<input, request, ir, plan, scan, budget, late, combined, pruned, read>>

(* run_per_partition: a thread for each snapshot.                          *)
Spawn ==
    /\ phase = "execute" /\ ~is_metadata_count
    /\ phase' = "scan"
    /\ scan' = [p \in Partitions |-> Idle]
    /\ UNCHANGED <<input, request, ir, plan, budget, late, combined, outcome, pruned, read>>

types == [c \in ToSet(plan.projection) |-> Column(Table, c).type]
SourceAt(p) == Sources(store[p])[scan[p].at]
Running(p) == phase = "scan" /\ scan[p].state \in {"visit", "read"}
Failed(kind) == [state |-> "failed", kind |-> kind]

(* Mutant: each source is compared with the budget on its own.             *)
OverBudgetAlone(bytes) == bytes > limits.max_bytes

(* Budget::charge_bytes: one fetch_add, whose total every thread sees.     *)
OverBudget(bytes) == budget.bytes + bytes > limits.max_bytes

(* scan_partition, before a source is read: the deadline, the statistics   *)
(* of a segment, and the charge of the bytes to come.                      *)
Visit(p) ==
    /\ Running(p) /\ scan[p].state = "visit"
    /\ scan[p].at <= Len(Sources(store[p]))
    /\ LET source == SourceAt(p)
       IN  IF late
           THEN scan' = [scan EXCEPT ![p] = Failed("limit")] /\ UNCHANGED <<budget, pruned>>
           ELSE IF source.kind = "segment" /\ can_skip(source.file, plan.pruning)
           THEN /\ scan' = [scan EXCEPT ![p].at = @ + 1]
                /\ pruned' = pruned \cup {<<p, scan[p].at>>}
                /\ UNCHANGED budget
           ELSE /\ budget' = [budget EXCEPT !.bytes = @ + source.file.bytes]
                /\ scan' = [scan EXCEPT ![p] = IF OverBudget(source.file.bytes) THEN Failed("limit")
                                               ELSE [@ EXCEPT !.state = "read"]]
                /\ UNCHANGED pruned
    /\ UNCHANGED <<input, request, phase, ir, plan, late, combined, outcome, read>>

(* emit and the sink: rows are collected, or folded into the partition's   *)
(* groups; an unsorted limit ends the scan of the partition early.         *)
Used == (IF plan.filter = NoFilter THEN {} ELSE referenced_columns(plan.filter)) \cup
        (IF plan.aggregate = NoAggregate THEN {}
         ELSE ToSet(plan.aggregate.group_by) \cup
              ({a.column : a \in ToSet(plan.aggregate.aggregates)} \ {Star}))
Resolves == Used \subseteq ToSet(plan.projection)
Evaluates == plan.filter = NoFilter \/ ~NoBoolean(plan.filter)

(* Mutant: the scan stays at the source it has just emitted.               *)
EmitAgain(thread, rows) == [thread EXCEPT !.state = "visit"]

Emit(thread, rows) ==
    LET collected == thread.rows \o rows
        enough == is_streaming_limit(plan) /\ rows /= <<>> /\ Len(collected) >= fetch_rows(plan)
        next == [thread EXCEPT !.state = IF enough THEN "done" ELSE "visit", !.at = @ + 1]
    IN  IF plan.aggregate = NoAggregate THEN [next EXCEPT !.rows = collected]
        ELSE [next EXCEPT !.groups = update_batch(plan.aggregate, types, @, rows)]

Read(p) ==
    /\ Running(p) /\ scan[p].state = "read"
    /\ LET source == SourceAt(p)
           batch == project_with_backfill(source.file.rows, plan.projection)
           live == drop_suppressed(batch, source.suppressed, source.offset)
       IN  /\ scan' = [scan EXCEPT ![p] = IF live /= <<>> /\ ~(Resolves /\ Evaluates) THEN Failed("internal")
                                          ELSE Emit(@, matching(plan, live))]
           /\ read' = read + source.file.bytes
    /\ UNCHANGED <<input, request, phase, ir, plan, budget, late, combined, outcome, pruned>>

(* The file of a segment cannot be read: a compaction deleted it.          *)
ReadFails(p) ==
    /\ Running(p) /\ scan[p].state = "read" /\ SourceAt(p).kind = "segment"
    /\ scan' = [scan EXCEPT ![p] = Failed("storage")]
    /\ UNCHANGED <<input, request, phase, ir, plan, budget, late, combined, outcome, pruned, read>>

ScanEnds(p) ==
    /\ Running(p) /\ scan[p].state = "visit"
    /\ scan[p].at > Len(Sources(store[p]))
    /\ scan' = [scan EXCEPT ![p].state = "done"]
    /\ UNCHANGED <<input, request, phase, ir, plan, budget, late, combined, outcome, pruned, read>>

(* Join every thread.  The error of the first partition that failed is the *)
(* query's; otherwise the batches are concatenated, or the partial groups  *)
(* merged, in the order of the partitions, the deadline checked first.     *)
Collected(result) ==
    IF result.ok THEN combined' = result.rows /\ phase' = "finish" /\ UNCHANGED outcome
    ELSE End(Error("internal")) /\ UNCHANGED combined
Collect ==
    /\ phase = "scan" /\ \A p \in Partitions : scan[p].state \in {"done", "failed"}
    /\ LET failed == SelectSeq(scan, LAMBDA t : t.state = "failed")
           groups == FoldLeft(LAMBDA acc, t : merge(acc, t.groups), <<>>, scan)
       IN  IF failed /= <<>> THEN End(Error(failed[1].kind)) /\ UNCHANGED combined
           ELSE IF late THEN End(Error("limit")) /\ UNCHANGED combined
           ELSE IF plan.aggregate = NoAggregate
           THEN Collected([ok |-> TRUE, rows |-> FlattenSeq([p \in Partitions |-> scan[p].rows])])
           ELSE Collected(finish(plan.aggregate, types, groups, plan.output))
    /\ UNCHANGED <<input, request, ir, plan, scan, budget, late, pruned, read>>

(* The columns of the coordinator's batch, before and after the renaming.  *)
(* Renaming, sort and alignment look columns up in it by name, unless it   *)
(* is empty: then it has the columns of the output.                        *)
BatchColumns == IF plan.aggregate = NoAggregate THEN ToSet(plan.projection) ELSE Names(plan.output)
RenamedColumns == IF plan.renamed THEN Aliases(plan.rename) ELSE BatchColumns
Aligns == /\ plan.renamed => {plan.rename[i][1] : i \in DOMAIN plan.rename} \subseteq BatchColumns
          /\ SortColumns(plan) \cup Names(plan.output) \subseteq RenamedColumns

(* Rename, check the deadline once more, sort, cut, and align with the     *)
(* output schema.                                                          *)
Finish ==
    /\ phase = "finish"
    /\ LET renamed == apply_rename(plan, combined)
           short == cuts_short(plan, renamed, limits.max_rows)
       IN  IF combined /= <<>> /\ ~Aligns
           THEN End(Error("internal")) /\ UNCHANGED budget
           ELSE IF late THEN End(Error("limit")) /\ UNCHANGED budget
           ELSE \E sorted \in sort_batch(renamed, plan.sort, fetch_rows(plan)) :
                  /\ End(Answer(apply_offset_limit(plan, sorted, limits.max_rows)))
                  /\ budget' = [budget EXCEPT !.truncated = @ \/ short]
    /\ UNCHANGED <<input, request, ir, plan, scan, late, combined, pruned, read>>

(* check_deadline reads a clock; limits without a time have no deadline.   *)
Clock ==
    /\ phase \in {"scan", "finish"} /\ limits.timed /\ ~late
    /\ late' = TRUE
    /\ UNCHANGED <<input, request, phase, ir, plan, scan, budget, combined, outcome, pruned, read>>

Ended == phase = "done" /\ UNCHANGED vars

Coordinator == Translate \/ Lower \/ Validate \/ Build \/ MetadataCount \/ Spawn \/ Collect \/ Finish
Thread(p) == Visit(p) \/ Read(p) \/ ScanEnds(p)

Next ==
    \/ Coordinator
    \/ \E p \in DOMAIN scan : Thread(p) \/ ReadFails(p)
    \/ Clock
    \/ Ended

Spec == Init /\ [][Next]_vars

(* ------------------------------ properties ----------------------------- *)

Answered == outcome.kind = "answer"

(* The rows a reader of the snapshots sees, in arrival order.              *)
Visible ==
    LET row(r) == [c \in Names(Table) |-> IF c \in DOMAIN r THEN r[c] ELSE Null]
        kept(source) == SelectSeq([i \in DOMAIN source.file.rows |-> i],
                                  LAMBDA i : source.offset + i - 1 \notin source.suppressed)
        live(source) == [k \in DOMAIN kept(source) |-> row(source.file.rows[kept(source)[k]])]
        of(snapshot) == FlattenSeq([i \in DOMAIN Sources(snapshot) |-> live(Sources(snapshot)[i])])
    IN  FlattenSeq([p \in Partitions |-> of(store[p])])

(* A count from the metadata is one row whatever the limit and offset say. *)
CountIgnoresCut == is_metadata_count /\ (plan.offset > 0 \/ plan.limit = 0)

(* Lowering adds the offsets of nested limits and takes the smaller limit, *)
(* which is not the inner window once the outer limit has an offset.  No   *)
(* plan request nests limits.                                              *)
NestedOffset == LET cuts == SelectSeq(ir.query, LAMBDA node : node.n = "limit")
                IN  Len(cuts) > 1 /\ \E i \in 2..Len(cuts) : cuts[i].offset > 0

(* What a question asks (input.source.asked): conditions as filters, and   *)
(* calendar windows as a unit and how many of them back.  The index of the *)
(* unit an instant lies in is the reference for calendar_window.           *)
MonthIndex(t) == LET near == ((t \div DayMicros) * 12) \div 365 IN CHOOSE m \in (near - 1)..(near + 1) :
    /\ Midnight(1970 + m \div 12, (m % 12) + 1, 1) <= t
    /\ t < Midnight(1970 + (m + 1) \div 12, ((m + 1) % 12) + 1, 1)
UnitIndex(unit, t) ==
    CASE unit = "day" -> t \div DayMicros
      [] unit = "week" -> (t \div DayMicros + 3) \div 7      \* 1970-01-01 was a Thursday
      [] unit = "month" -> MonthIndex(t)
      [] unit = "quarter" -> MonthIndex(t) \div 3
      [] unit = "year" -> MonthIndex(t) \div 12
InWindow(w, t) == UnitIndex(w.unit, t) = UnitIndex(w.unit, Instant(input.source.now)) - w.back
Bounds(f, t) == LET at == parse_timestamp_micros(f.value[1])
                IN  CASE f.op = "gte" -> t >= at [] f.op = "lt" -> t < at [] OTHER -> FALSE
(* Around every change of month of three years, and around now.            *)
Probes == LET edges == {Midnight(1970 + m \div 12, (m % 12) + 1, 1) : m \in -12..30}
                       \cup {Instant(input.source.now) + d * DayMicros : d \in -8..8}
          IN  {e + d : e \in edges, d \in {-1, 0, 1}}

(* A question that is made of the phrases the translator documents asks    *)
(* for what they say, in whatever order they stand, or it is refused: no   *)
(* pass takes the words of another, and a calendar window holds exactly    *)
(* the instants of its day, week, month, quarter or year ("a refusal is    *)
(* strictly better than a plausible-looking wrong query", rule.rs).        *)
QuestionIsUnderstood ==
    input.source.kind = "question" /\ phase = "lower" =>
        LET asked == input.source.asked
            rest == ToSet(request.filters) \ asked.filters
        IN  /\ asked.filters \subseteq ToSet(request.filters)
            /\ asked.windows = {} => rest = {}
            /\ asked.windows /= {} => \A t \in Probes :
                  (\A f \in rest : Bounds(f, t)) <=> (\A w \in asked.windows : InWindow(w, t))
            /\ request.group_by = asked.group_by /\ request.metrics = asked.metrics
            /\ request.order_by = asked.order_by /\ request.limit = asked.limit

(* A query that is answered gets the answer of its validated plan over the *)
(* visible rows, whatever was pruned, whichever thread was faster, and     *)
(* wherever the partial results were cut.                                  *)
AnswerIsReference ==
    Answered /\ ~CountIgnoresCut /\ ~NestedOffset =>
        Answers(ir.query, Visible, Table, limits.max_rows, outcome.rows)

(* A segment is skipped only when none of its live rows satisfies the      *)
(* filter (prune.rs: can_skip may only return true when the segment        *)
(* provably contains no matching row).                                     *)
PruningIsSound ==
    \A s \in pruned :
        LET segment == store[s[1]].segments[s[2]]
            all == [i \in DOMAIN Table |-> Table[i].name]
            rows == project_with_backfill(segment.rows, all)
        IN  \A i \in DOMAIN rows :
                i - 1 \in segment.suppressed \/ ~IsTrue(plan.filter, rows[i])

(* However the threads interleave, what is read stays within the budget.   *)
ReadsWithinBudget == read <= limits.max_bytes

(* The columns of an aggregation are projected otherwise than in order and *)
(* under their own names: the aggregator then puts them under the columns  *)
(* of the output by position, and the renaming does not find its sources.  *)
(* No front end makes such a plan.                                         *)
ProjectedGroups ==
    LET columns == plan.aggregate.group_by \o
                   [i \in DOMAIN plan.aggregate.aggregates |-> plan.aggregate.aggregates[i].alias]
    IN  /\ plan.aggregate /= NoAggregate /\ plan.renamed
        /\ plan.rename /= [i \in DOMAIN columns |-> <<columns[i], columns[i]>>]

(* The validator is the only door into the executor: a plan that came      *)
(* through it does not fail inside for a name or a type, unless it is one  *)
(* of two kinds that no front end makes: groups that are projected, and a  *)
(* NULL that no column gives a type (Evaluates).                           *)
NoInternalError == outcome.kind = "internal" => ProjectedGroups \/ ~Evaluates

(* A cut that the caller did not ask for is reported.                      *)
TruncationIsReported ==
    Answered /\ ir.query[Len(ir.query)].n /= "limit" /\ ~is_metadata_count =>
        (budget.truncated <=> Len(outcome.rows) < Len(Relation(ir.query, Visible, Table).rows))

(* Every step uses up some of a finite amount of work, so that a query is  *)
(* over after a bounded number of steps however the threads are scheduled; *)
(* that it is never stuck before is TLC's deadlock check.                  *)
Rank == [translate |-> 7, lower |-> 6, validate |-> 5, build |-> 4, execute |-> 3, scan |-> 2, finish |-> 1, done |-> 0]
Left(p) == LET visits == 2 * (Len(Sources(store[p])) + 1 - scan[p].at) + 2
           IN  CASE scan[p].state = "visit" -> visits + 1
                 [] scan[p].state = "read" -> visits
                 [] OTHER -> 0
Nothing_grows == /\ late => late'
                 /\ \A p \in DOMAIN scan : Left(p)' <= Left(p)
Something_shrinks == (late' /\ ~late) \/ \E p \in DOMAIN scan : Left(p)' < Left(p)
WorkRunsOut == [][\/ Rank[phase'] < Rank[phase]
                  \/ /\ Rank[phase'] = Rank[phase] /\ DOMAIN scan' = DOMAIN scan
                     /\ Nothing_grows /\ Something_shrinks]_vars

=============================================================================
