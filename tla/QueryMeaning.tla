---------------------------- MODULE QueryMeaning ----------------------------
(***************************************************************************)
(* What a validated query asks for, said without statistics, partitions,   *)
(* partial states or an execution order: the reference the executor's      *)
(* answers are compared with.  Truth and falsehood of a predicate are two  *)
(* recursive definitions (unknown is neither), where the code carries      *)
(* masks with nulls.                                                       *)
(***************************************************************************)
EXTENDS Plans

ValueOf(x, row) == IF x.e = "column" THEN row[x.name] ELSE x.value

Compares(op, a, b) ==
    LET m == Magnitude(a)
        n == Magnitude(b)
    IN  CASE op = "eq" -> m = n   [] op = "ne" -> m /= n
          [] op = "lt" -> m < n   [] op = "lte" -> m <= n
          [] op = "gt" -> m > n   [] op = "gte" -> m >= n
          [] op = "like" -> <<m, n>> \in LikePairs

Known(x, row) == Null \notin {ValueOf(x.left, row), ValueOf(x.right, row)}
Member(v, list) == v /= Null /\ \E i \in DOMAIN list : v = list[i]
NoMember(v, list) == v /= Null /\ \A i \in DOMAIN list : list[i] /= Null /\ v /= list[i]
Inside(v, low, high) == Null \notin {v, low, high} /\ Compares("lte", low, v) /\ Compares("lte", v, high)
Outside(v, low, high) ==
    /\ v /= Null
    /\ \/ low /= Null /\ Compares("lt", v, low)
       \/ high /= Null /\ Compares("gt", v, high)

(* What is true, and what false, of a test of one or two operands.         *)
Belongs(x, v, negated) == IF negated THEN NoMember(v, x.list) ELSE Member(v, x.list)
Lies(x, v, negated) == IF negated THEN Outside(v, x.low, x.high) ELSE Inside(v, x.low, x.high)
Holds(x, row) ==
    CASE x.e \in {"column", "literal"} -> ValueOf(x, row) = Bool(TRUE)
      [] x.e = "isnull" -> ValueOf(x.arg, row) = Null
      [] x.e = "isnotnull" -> ValueOf(x.arg, row) /= Null
      [] x.e = "in" -> Belongs(x, ValueOf(x.arg, row), x.negated)
      [] x.e = "between" -> Lies(x, ValueOf(x.arg, row), x.negated)
      [] OTHER -> Known(x, row) /\ Compares(x.op, ValueOf(x.left, row), ValueOf(x.right, row))
Fails(x, row) ==
    CASE x.e \in {"column", "literal"} -> ValueOf(x, row) = Bool(FALSE)
      [] x.e = "isnull" -> ValueOf(x.arg, row) /= Null
      [] x.e = "isnotnull" -> ValueOf(x.arg, row) = Null
      [] x.e = "in" -> Belongs(x, ValueOf(x.arg, row), ~x.negated)
      [] x.e = "between" -> Lies(x, ValueOf(x.arg, row), ~x.negated)
      [] OTHER -> Known(x, row) /\ ~Compares(x.op, ValueOf(x.left, row), ValueOf(x.right, row))

(* A predicate by its parts: whether it is true (yes) and false (no).      *)
IsTrue(x, row) ==
    LET parts == Parts(x)
        truth[n \in 0..MaxDepth] == [y \in parts |->
            CASE y.e = "not" /\ n > 0 ->
                   [yes |-> truth[n - 1][y.arg].no, no |-> truth[n - 1][y.arg].yes]
              [] y.e = "binary" /\ y.op = "and" /\ n > 0 ->
                   [yes |-> truth[n - 1][y.left].yes /\ truth[n - 1][y.right].yes,
                    no |-> truth[n - 1][y.left].no \/ truth[n - 1][y.right].no]
              [] y.e = "binary" /\ y.op = "or" /\ n > 0 ->
                   [yes |-> truth[n - 1][y.left].yes \/ truth[n - 1][y.right].yes,
                    no |-> truth[n - 1][y.left].no /\ truth[n - 1][y.right].no]
              [] OTHER -> [yes |-> Holds(y, row), no |-> Fails(y, row)]]
    IN  truth[MaxDepth][x].yes

(* One aggregate over the rows with the indexes of a group.                *)
AggregateOf(agg, rows, group, schema) ==
    LET with == {i \in group : agg.column = Star \/ rows[i][agg.column] /= Null}
        sum == MapThenSumSet(LAMBDA i : Magnitude(rows[i][agg.column]), with)
        least == CHOOSE i \in with : \A j \in with :
                    Magnitude(rows[i][agg.column]) <= Magnitude(rows[j][agg.column])
        greatest == CHOOSE i \in with : \A j \in with :
                    Magnitude(rows[i][agg.column]) >= Magnitude(rows[j][agg.column])
    IN  IF agg.func = "count" THEN Int64(Cardinality(with))
        ELSE IF with = {} THEN Null
        ELSE CASE agg.func = "sum" -> IF Column(schema, agg.column).type = "int64"
                                      THEN Int64(sum \div One) ELSE Float64(sum)
               [] agg.func = "avg" -> Float64(sum \div Cardinality(with))
               [] agg.func = "min" -> rows[least][agg.column]
               [] agg.func = "max" -> rows[greatest][agg.column]

Grouped(node, rows, schema) ==
    LET key(i) == [k \in ToSet(node.group_by) |-> rows[i][k]]
        keys == IF node.group_by = <<>> THEN {<<>>} ELSE {key(i) : i \in DOMAIN rows}
        members(k) == IF node.group_by = <<>> THEN DOMAIN rows ELSE {i \in DOMAIN rows : key(i) = k}
        aliases == {a.alias : a \in ToSet(node.aggregates)}
        agg(c) == CHOOSE a \in ToSet(node.aggregates) : a.alias = c
        row(k) == [c \in ToSet(node.group_by) \cup aliases |->
                     IF c \in aliases THEN AggregateOf(agg(c), rows, members(k), schema) ELSE k[c]]
    IN  SetToSeq({row(k) : k \in keys})

(* The relation below the sort and the limit: its rows, and whether their  *)
(* order is that of arrival.                                               *)
Relation(query, rows, schema) ==
    LET source(node, a) == node.exprs[CHOOSE j \in DOMAIN node.exprs : node.exprs[j][2] = a][1].name
        step(acc, node) ==
            CASE node.n = "scan" ->
                   [acc EXCEPT !.rows = [i \in DOMAIN @ |-> [c \in ToSet(node.columns) |-> @[i][c]]]]
              [] node.n = "filter" ->
                   [acc EXCEPT !.rows = SelectSeq(@, LAMBDA r : IsTrue(node.predicate, r))]
              [] node.n = "project" ->
                   [acc EXCEPT !.rows = [i \in DOMAIN @ |->
                      [a \in {node.exprs[j][2] : j \in DOMAIN node.exprs} |-> @[i][source(node, a)]]]]
              [] node.n = "aggregate" ->
                   [rows |-> Grouped(node, acc.rows, schema), arrival |-> FALSE]
              [] OTHER -> acc
    IN  FoldLeft(step, [rows |-> rows, arrival |-> TRUE], query)

(* The order of a sort: by the first key that tells two rows apart, nulls  *)
(* last in both directions.                                                *)
Comes(keys, r, s) ==
    LET differ == {i \in DOMAIN keys : r[keys[i].column] /= s[keys[i].column]}
        first == Min(differ)
        v == r[keys[first].column]
        w == s[keys[first].column]
    IN  /\ differ /= {}
        /\ v /= Null
        /\ w = Null \/ IF keys[first].ascending THEN Magnitude(v) < Magnitude(w)
                                                 ELSE Magnitude(v) > Magnitude(w)

KeysOf(keys, row) == [i \in DOMAIN keys |-> row[keys[i].column]]
Times(row, rows) == Cardinality({i \in DOMAIN rows : rows[i] = row})
Nodes(query, kind) == SelectSeq(query, LAMBDA node : node.n = kind)

(* rows answers query over the visible rows (in arrival order) under a     *)
(* budget of max_rows: its length, its content, and its order as far as    *)
(* the query or the arrival of the rows fixes it.                          *)
Answers(query, visible, schema, max_rows, rows) ==
    LET relation == Relation(query, visible, schema)
        all == relation.rows
        sorts == Nodes(query, "sort")
        limits == Nodes(query, "limit")
        inner(w, node) == [from |-> w.from + node.offset,
                           n |-> Min({Max({0, w.n - node.offset}), node.limit})]
        window == FoldLeft(inner, [from |-> 0, n |-> IF limits = <<>> THEN max_rows ELSE Len(all)], limits)
        keys == IF sorts = <<>> THEN <<>> ELSE sorts[1].keys
        sorted == SortSeq(all, LAMBDA r, s : Comes(keys, r, s))
    IN  /\ Len(rows) = Max({0, Min({window.n, Len(all) - window.from})})
        /\ \A i \in DOMAIN rows : Times(rows[i], rows) <= Times(rows[i], all)
        /\ \A i \in DOMAIN rows :
              IF keys = <<>> THEN relation.arrival => rows[i] = all[window.from + i]
              ELSE KeysOf(keys, rows[i]) = KeysOf(keys, sorted[window.from + i])

=============================================================================
