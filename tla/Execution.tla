----------------------------- MODULE Execution -----------------------------
(***************************************************************************)
(* The executor's algorithms (adb-exec eval.rs, prune.rs, scan.rs,         *)
(* aggregate.rs, sort.rs; segment statistics of adb-storage segment.rs and *)
(* bloom.rs).  A row is a function from column names to values, a batch a  *)
(* sequence of rows.  Arithmetic operators are left out: no plan request   *)
(* contains one.                                                           *)
(***************************************************************************)
EXTENDS Lowering

(* ---------------------------- eval.rs ---------------------------------- *)

(* Arrow's Kleene logic over {TRUE, FALSE, NULL}, encoded as bool values.  *)
T == Bool(TRUE)
F == Bool(FALSE)
and_kleene(a, b) == IF F \in {a, b} THEN F ELSE IF Null \in {a, b} THEN Null ELSE T
or_kleene(a, b) == IF T \in {a, b} THEN T ELSE IF Null \in {a, b} THEN Null ELSE F
not_kleene(a) == IF a = Null THEN Null ELSE Bool(a = F)

cmp(op, a, b) ==
    IF Null \in {a, b} THEN Null
    ELSE Bool(CASE op = "eq" -> Magnitude(a) = Magnitude(b)
                [] op = "ne" -> Magnitude(a) /= Magnitude(b)
                [] op = "lt" -> Precedes(a, b)
                [] op = "lte" -> ~Precedes(b, a)
                [] op = "gt" -> Precedes(b, a)
                [] op = "gte" -> ~Precedes(a, b)
                [] op = "like" -> <<a[2], b[2]>> \in LikePairs)

negate(negated, mask) == IF negated THEN not_kleene(mask) ELSE mask

(* An operator applied to the values of its operands.                      *)
eval_unary(x, target) ==
    CASE x.e = "not" -> not_kleene(target)
      [] x.e = "isnull" -> Bool(target = Null)
      [] x.e = "isnotnull" -> Bool(target /= Null)
      [] x.e = "in" ->
           negate(x.negated, FoldLeft(LAMBDA m, v : or_kleene(m, cmp("eq", target, v)), F, x.list))
      [] x.e = "between" ->
           negate(x.negated, and_kleene(cmp("gte", target, x.low), cmp("lte", target, x.high)))
eval_binary(x, l, r) == CASE x.op = "and" -> and_kleene(l, r)
                          [] x.op = "or" -> or_kleene(l, r)
                          [] OTHER -> cmp(x.op, l, r)
eval(x, row) ==
    LET parts == Parts(x)
        value[n \in 0..MaxDepth] == [y \in parts |->
            CASE y.e = "column" -> row[y.name]
              [] y.e = "literal" -> y.value
              [] n = 0 -> Null
              [] y.e = "binary" -> eval_binary(y, value[n - 1][y.left], value[n - 1][y.right])
              [] OTHER -> eval_unary(y, value[n - 1][y.arg])]
    IN  value[MaxDepth][x]

(* A NULL literal of its own has Arrow's Null type: literal_array gives no *)
(* other literal that type, and eval_bool takes it for no boolean.         *)
Untypable(y) ==
    CASE y.e = "not" -> y.arg = Lit(Null)
      [] y.e = "binary" /\ y.op \in logical -> Lit(Null) \in {y.left, y.right}
      [] y.e = "binary" -> y.left = Lit(Null) /\ y.right.e = "literal" /\ y.right /= Lit(Null)
      [] y.e = "in" -> y.arg = Lit(Null) /\ ToSet(y.list) /= {Null}
      [] y.e = "between" -> y.arg = Lit(Null) /\ {y.low, y.high} /= {Null}
      [] OTHER -> FALSE
NoBoolean(x) == x = Lit(Null) \/ \E y \in Parts(x) : Untypable(y)

(* filter_batch: a row whose predicate is unknown is not returned.         *)
filter_batch(x, batch) == SelectSeq(batch, LAMBDA row : eval(x, row) = T)

(* --------------------- statistics and pruning -------------------------- *)

(* The bits a value sets in a filter of a few bits: h1 + i * h2.           *)
BloomBits == 7
probes(v) == {(v[2] + i * (2 * v[2] + 1)) % BloomBits : i \in 0..1}

wants_bloom_filter(c) == c.semantic \in {"id", "category", "country", "email"} \/ c.type = "uuid"
is_filterable(t) == t \notin {"float64", "json"}

(* compute_stats, of one column.                                           *)
ColumnStats(c, rows) ==
    LET values == {rows[i][c.name] : i \in DOMAIN rows} \ {Null}
        kept == IF c.type = "json" THEN {} ELSE values
        least == CHOOSE v \in kept : \A w \in kept : ~Precedes(w, v)
        greatest == CHOOSE v \in kept : \A w \in kept : ~Precedes(v, w)
        bloom == wants_bloom_filter(c) /\ is_filterable(c.type) /\ rows /= <<>>
    IN  [min |-> IF kept = {} THEN Null ELSE least,
         max |-> IF kept = {} THEN Null ELSE greatest,
         null_count |-> Cardinality({i \in DOMAIN rows : rows[i][c.name] = Null}),
         has_bloom |-> bloom,
         bloom |-> IF bloom THEN UNION {probes(v) : v \in values} ELSE {}]

(* write_segment: the file with the statistics of the columns it has.      *)
write_segment(columns, rows, suppressed, bytes) ==
    [rows |-> rows, suppressed |-> suppressed, bytes |-> bytes,
     stats |-> [n \in Names(columns) |-> ColumnStats(Column(columns, n), rows)]]

bloom_allows(stats, v) == ~stats.has_bloom \/ v = Null \/ probes(v) \subseteq stats.bloom
all_null(stats) == stats.min = Null

atom_excludes_segment(seg, atom) ==
    /\ atom.column \in DOMAIN seg.stats
    /\ LET stats == seg.stats[atom.column]
           outside(v) == Precedes(v, stats.min) \/ Precedes(stats.max, v) \/ ~bloom_allows(stats, v)
           v1 == atom.values[1]
       IN  CASE atom.op = "isnull" -> stats.null_count = 0
             [] atom.op = "isnotnull" -> stats.null_count = Len(seg.rows)
             [] OTHER -> all_null(stats) \/
           CASE atom.op = "eq" -> outside(v1)
             [] atom.op = "lt" -> ~Precedes(stats.min, v1)
             [] atom.op = "lte" -> Precedes(v1, stats.min)
             [] atom.op = "gt" -> ~Precedes(v1, stats.max)
             [] atom.op = "gte" -> Precedes(stats.max, v1)
             [] atom.op = "in" -> \A i \in DOMAIN atom.values : outside(atom.values[i])

can_skip(seg, atoms) ==
    seg.rows = <<>> \/ \E i \in DOMAIN atoms : atom_excludes_segment(seg, atoms[i])

(* ------------------------------ scan.rs -------------------------------- *)

(* project_with_backfill: a column the file predates reads as NULL.        *)
project_with_backfill(batch, columns) ==
    [i \in DOMAIN batch |-> [n \in ToSet(columns) |->
        IF n \in DOMAIN batch[i] THEN batch[i][n] ELSE Null]]

(* Mutant: the ordinals of a batch are taken for those of the memtable.    *)
drop_suppressed_local(batch, suppressed, offset) ==
    LET keep == SetToSortSeq({i \in DOMAIN batch : i - 1 \notin suppressed}, <)
    IN  [k \in DOMAIN keep |-> batch[keep[k]]]

(* drop_suppressed: ordinals are global over the memtable's batches.       *)
drop_suppressed(batch, suppressed, offset) ==
    LET keep == SetToSortSeq({i \in DOMAIN batch : offset + i - 1 \notin suppressed}, <)
    IN  [k \in DOMAIN keep |-> batch[keep[k]]]

matching(plan, batch) == IF plan.filter = NoFilter THEN batch ELSE filter_batch(plan.filter, batch)

(* ---------------------------- aggregate.rs ----------------------------- *)

(* AggState: one accumulator shape per function.                           *)
fresh(agg, argument_type) ==
    CASE agg.func = "count" -> [s |-> "count", n |-> 0]
      [] agg.func = "sum" -> [s |-> IF argument_type = "int64" THEN "sumint" ELSE "sumfloat",
                              acc |-> 0, any |-> FALSE]
      [] agg.func = "avg" -> [s |-> "avg", sum |-> 0, count |-> 0]
      [] OTHER -> [s |-> agg.func, value |-> Null]

(* update with one value; the value of count( * ) is never NULL.           *)
update(state, v) ==
    IF v = Null THEN state ELSE
    CASE state.s = "count" -> [state EXCEPT !.n = @ + 1]
      [] state.s = "sumint" -> [state EXCEPT !.acc = @ + v[2], !.any = TRUE]
      [] state.s = "sumfloat" -> [state EXCEPT !.acc = @ + Magnitude(v), !.any = TRUE]
      [] state.s = "avg" -> [state EXCEPT !.sum = @ + Magnitude(v), !.count = @ + 1]
      [] state.s = "min" -> IF state.value = Null \/ Precedes(v, state.value)
                            THEN [state EXCEPT !.value = v] ELSE state
      [] state.s = "max" -> IF state.value = Null \/ Precedes(state.value, v)
                            THEN [state EXCEPT !.value = v] ELSE state

merge_state(a, b) ==
    CASE a.s = "count" -> [a EXCEPT !.n = @ + b.n]
      [] a.s \in {"sumint", "sumfloat"} -> [a EXCEPT !.acc = @ + b.acc, !.any = @ \/ b.any]
      [] a.s = "avg" -> [a EXCEPT !.sum = @ + b.sum, !.count = @ + b.count]
      [] OTHER -> update(a, b.value)

finish_state(state) ==
    CASE state.s = "count" -> Int64(state.n)
      [] state.s = "sumint" -> IF state.any THEN Int64(state.acc) ELSE Null
      [] state.s = "sumfloat" -> IF state.any THEN Float64(state.acc) ELSE Null
      [] state.s = "avg" -> IF state.count = 0 THEN Null ELSE Float64(state.sum \div state.count)
      [] OTHER -> state.value

(* Aggregator: groups in the order of their first row, as <<key, states>>. *)
fresh_states(spec, types) ==
    [i \in DOMAIN spec.aggregates |->
        fresh(spec.aggregates[i], IF spec.aggregates[i].column = Star THEN "int64"
                                  ELSE types[spec.aggregates[i].column])]
KeyOf(spec, row) == [i \in DOMAIN spec.group_by |-> row[spec.group_by[i]]]
IndexOfKey(groups, key) == {i \in DOMAIN groups : groups[i][1] = key}

update_row(spec, types, groups, row) ==
    LET key == KeyOf(spec, row)
        argument(agg) == IF agg.column = Star THEN T ELSE row[agg.column]
        fold(states) == [i \in DOMAIN states |-> update(states[i], argument(spec.aggregates[i]))]
        at == IndexOfKey(groups, key)
    IN  IF at = {} THEN Append(groups, <<key, fold(fresh_states(spec, types))>>)
        ELSE [groups EXCEPT ![CHOOSE i \in at : TRUE] = <<key, fold(@[2])>>]

(* accumulate_column: a whole column at once, where there is one group.    *)
accumulate_column(state, batch, column) ==
    LET cells == [i \in DOMAIN batch |-> IF column = Star THEN T ELSE batch[i][column]]
        values == SelectSeq(cells, LAMBDA v : v /= Null)
        sum == FoldLeft(LAMBDA n, v : n + Magnitude(v), 0, values)
    IN  CASE state.s = "count" -> [state EXCEPT !.n = @ + Len(values)]
          [] state.s = "sumint" -> [state EXCEPT !.acc = @ + sum \div One, !.any = @ \/ values /= <<>>]
          [] state.s = "sumfloat" -> [state EXCEPT !.acc = @ + sum, !.any = @ \/ values /= <<>>]
          [] state.s = "avg" -> [state EXCEPT !.sum = @ + sum, !.count = @ + Len(values)]
          [] OTHER -> FoldLeft(update, state, values)

update_batch(spec, types, groups, batch) ==
    LET states == IF groups = <<>> THEN fresh_states(spec, types) ELSE groups[1][2]
        folded(i) == accumulate_column(states[i], batch, spec.aggregates[i].column)
    IN  IF batch = <<>> THEN groups
        ELSE IF spec.group_by = <<>> THEN << << <<>>, [i \in DOMAIN states |-> folded(i)] >> >>
        ELSE FoldLeft(LAMBDA g, row : update_row(spec, types, g, row), groups, batch)

merge(acc, other) ==
    LET add(groups, g) ==
            LET at == IndexOfKey(groups, g[1])
            IN  IF at = {} THEN Append(groups, g)
                ELSE [groups EXCEPT ![CHOOSE i \in at : TRUE] =
                        <<g[1], [i \in DOMAIN g[2] |-> merge_state(@[2][i], g[2][i])]>>]
    IN  FoldLeft(add, acc, other)

(* build_array: what a value becomes in a column declared as t.            *)
build_value(v, t) ==
    CASE v = Null \/ v[1] = Stored(t) -> v
      [] t = "float64" /\ v[1] = "int64" -> Float64(Magnitude(v))
      [] t \in Epochs /\ v[1] \in Epochs -> <<t, v[2]>>
      [] OTHER -> Mismatch

(* finish: the keys, then the aggregates, are put under the columns of the *)
(* plan's output by their positions; an ungrouped aggregation over no rows *)
(* is still one row.  What a column holds of itself needs no conversion.   *)
Kinds(spec, types) ==
    [i \in DOMAIN spec.group_by |-> types[spec.group_by[i]]] \o
    [i \in DOMAIN spec.aggregates |->
        LET agg == spec.aggregates[i]
        IN  output_type(agg.func, IF agg.column = Star THEN "int64" ELSE types[agg.column])]
finish(spec, types, groups, output) ==
    LET all == IF groups = <<>> /\ spec.group_by = <<>> THEN <<<< <<>>, fresh_states(spec, types)>>>> ELSE groups
        keys == Len(spec.group_by)
        value(g, i) == IF i <= keys THEN g[1][i] ELSE finish_state(g[2][i - keys])
        kinds == Kinds(spec, types)
        kept(i) == kinds[i] = output[i].type
        built(g, i) == IF kept(i) THEN value(g, i) ELSE build_value(value(g, i), output[i].type)
    IN  IF /\ Len(output) = Len(kinds)
           /\ \A i \in DOMAIN output : kept(i) \/ \A k \in DOMAIN all : built(all[k], i) /= Mismatch
        THEN [ok |-> TRUE, rows |-> [k \in DOMAIN all |-> [c \in Names(output) |->
                                        built(all[k], CHOOSE i \in DOMAIN output : output[i].name = c)]]]
        ELSE Refused

(* --------------------- sort, offset and limit -------------------------- *)

apply_rename(plan, batch) ==
    IF ~plan.renamed THEN batch
    ELSE [i \in DOMAIN batch |-> [a \in Aliases(plan.rename) |-> batch[i][SourceOf(plan.rename, a)]]]

(* lexsort_to_indices' order of two values under one key.                  *)
KeyBefore(key, v, w) ==
    IF Null \in {v, w} THEN v /= w /\ (v = Null <=> key.nulls_first)
    ELSE IF key.ascending THEN Precedes(v, w) ELSE Precedes(w, v)
RowBefore(keys, r, s) ==
    \E i \in DOMAIN keys :
        /\ KeyBefore(keys[i], r[keys[i].column], s[keys[i].column])
        /\ \A j \in 1..(i - 1) : r[keys[j].column] = s[keys[j].column]

(* sort_batch: the first n rows (None: all) in an order of the keys;       *)
(* lexsort is not stable, so rows that tie come in any order.  Index       *)
(* sequences over rows, drawn from the indexes left.                       *)
Sortings(keys, rows, n) ==
    LET left(s) == DOMAIN rows \ ToSet(s)
        first(s) == {i \in left(s) : \A j \in left(s) : ~RowBefore(keys, rows[j], rows[i])}
        some[k \in 0..n] == IF k = 0 THEN {<<>>}
                            ELSE UNION {{Append(s, i) : i \in first(s)} : s \in some[k - 1]}
    IN  some[n]

sort_batch(rows, keys, fetch) ==
    IF keys = <<>> THEN {IF fetch = None THEN rows ELSE SubSeq(rows, 1, min(fetch, Len(rows)))}
    ELSE {[k \in DOMAIN s |-> rows[s[k]]] : s \in Sortings(keys, rows, IF fetch = None THEN Len(rows) ELSE min(fetch, Len(rows)))}

(* apply_offset_limit: an explicit limit wins; otherwise the row budget.   *)
Slice(rows, offset, n) == SubSeq(rows, offset + 1, min(Len(rows), offset + n))
apply_offset_limit(plan, rows, max_rows) ==
    Slice(rows, plan.offset, IF plan.limit /= None THEN plan.limit ELSE max_rows)

(* Mutant: a result that just fits is reported as cut.                     *)
cuts_short_early(plan, rows, max_rows) == plan.limit = None /\ Len(rows) - plan.offset >= max_rows

cuts_short(plan, rows, max_rows) == plan.limit = None /\ Len(rows) - plan.offset > max_rows

=============================================================================
