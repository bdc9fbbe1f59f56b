-------------------------------- MODULE Plans --------------------------------
(***************************************************************************)
(* The query IR, the lowering of a plan request into it, and the validator *)
(* (adb-planner expr.rs, ir.rs, validate.rs; adb-query plan.rs).           *)
(*                                                                         *)
(* A query is the sequence of its nodes from the scan upwards: a tree of   *)
(* one branch, since the validator refuses joins.  An expression is a      *)
(* record tagged by the field "e".  An error is a result whose ok is       *)
(* FALSE; its wording is left out.                                         *)
(***************************************************************************)
EXTENDS Values, Sequences, FiniteSets, SequencesExt

CONSTANTS
    LikePairs,  \* external: the <<string, pattern>> pairs arrow's like accepts
    MaxDepth    \* bound: how many operators of an expression lie above one another

ASSUME DepthIsBound == MaxDepth \in Nat

(* ------------------------------ expressions ---------------------------- *)

Col(name) == [e |-> "column", name |-> name]
Lit(v) == [e |-> "literal", value |-> v]
Binary(op, l, r) == [e |-> "binary", op |-> op, left |-> l, right |-> r]
Not(x) == [e |-> "not", arg |-> x]
IsNull(x) == [e |-> "isnull", arg |-> x]
IsNotNull(x) == [e |-> "isnotnull", arg |-> x]
InList(x, list, negated) == [e |-> "in", arg |-> x, list |-> list, negated |-> negated]
Between(x, low, high, negated) ==
    [e |-> "between", arg |-> x, low |-> low, high |-> high, negated |-> negated]

(* What is said of an expression by recursion is said of its parts, as far *)
(* as MaxDepth operators lie above one another.  about[n][y] speaks of the *)
(* part y, of which n levels are looked at.                                *)
Operands(x) == CASE x.e \in {"column", "literal", "none"} -> {}
                 [] x.e = "binary" -> {x.left, x.right}
                 [] OTHER -> {x.arg}
Beneath(S) == UNION {Operands(y) : y \in S}
Parts(x) ==
    LET layer[n \in 0..MaxDepth] == IF n = 0 THEN {x} ELSE Beneath(layer[n - 1])
    IN  UNION {layer[n] : n \in 0..MaxDepth}

IsSequence(s) == s \in Seq(ToSet(s))

(* What the parts of an expression are: Expr's variants over values.       *)
IsPart(y) ==
    CASE y.e = "column" -> y = Col(y.name)
      [] y.e = "literal" -> y = Lit(y.value) /\ y.value \in Scalars
      [] y.e = "binary" -> y = Binary(y.op, y.left, y.right)
      [] y.e = "not" -> y = Not(y.arg)
      [] y.e = "isnull" -> y = IsNull(y.arg)
      [] y.e = "isnotnull" -> y = IsNotNull(y.arg)
      [] y.e = "in" -> y = InList(y.arg, y.list, y.negated) /\ y.list \in Seq(Scalars)
      [] y.e = "between" -> y = Between(y.arg, y.low, y.high, y.negated) /\ {y.low, y.high} \subseteq Scalars
      [] OTHER -> FALSE
IsPredicate(x) == \A y \in Parts(x) : IsPart(y)

comparison == {"eq", "ne", "lt", "lte", "gt", "gte"}
logical == {"and", "or"}

(* Mutant: a comparison keeps its operator when its operands change sides. *)
unflipped == [op \in comparison |-> op]

flipped == [eq |-> "eq", ne |-> "ne", lt |-> "gt", lte |-> "gte", gt |-> "lt", gte |-> "lte"]

conjuncts(x) ==
    LET parts == Parts(x)
        of[n \in 0..MaxDepth] ==
            [y \in parts |-> IF n > 0 /\ y.e = "binary" /\ y.op = "and"
                             THEN of[n - 1][y.left] \o of[n - 1][y.right] ELSE <<y>>]
    IN  of[MaxDepth][x]

referenced_columns(x) == {y.name : y \in {z \in Parts(x) : z.e = "column"}}

rewrite_operands(x, of) ==
    IF x.e = "binary" THEN [x EXCEPT !.left = of[@], !.right = of[@]] ELSE [x EXCEPT !.arg = of[@]]
(* rewrite_columns with an alias -> source map that is defined on every    *)
(* column of x (the validator has resolved them).                          *)
rewrite_columns(x, source) ==
    LET parts == Parts(x)
        rewritten[n \in 0..MaxDepth] == [y \in parts |->
            CASE y.e = "column" -> Col(source[y.name])
              [] y.e = "literal" -> y
              [] OTHER -> IF n = 0 THEN Lit(Null) ELSE rewrite_operands(y, rewritten[n - 1])]
    IN  rewritten[MaxDepth][x]

(* ----------------------------- query nodes ----------------------------- *)

All == <<>>      \* Scan.columns = None: every column that is not sensitive
Star == "*"      \* AggregateExpr.column = None
Scan(columns) == [n |-> "scan", columns |-> columns]
Filter(x) == [n |-> "filter", predicate |-> x]
Project(exprs) == [n |-> "project", exprs |-> exprs]      \* <<expr, alias>> pairs
Aggregate(group_by, aggs) == [n |-> "aggregate", group_by |-> group_by, aggregates |-> aggs]
Sort(keys) == [n |-> "sort", keys |-> keys]
Limit(limit, offset) == [n |-> "limit", limit |-> limit, offset |-> offset]

(* What a node of a query is; a kind the validator refuses may be anything. *)
IsNode(node) ==
    CASE node.n = "scan" -> node = Scan(node.columns) /\ IsSequence(node.columns)
      [] node.n = "filter" -> node = Filter(node.predicate) /\ IsPredicate(node.predicate)
      [] node.n = "project" -> node = Project(node.exprs) /\ IsSequence(node.exprs)
      [] node.n = "aggregate" -> /\ node = Aggregate(node.group_by, node.aggregates)
                                 /\ IsSequence(node.group_by) /\ IsSequence(node.aggregates)
      [] node.n = "sort" -> node = Sort(node.keys) /\ IsSequence(node.keys)
      [] node.n = "limit" -> node = Limit(node.limit, node.offset)
      [] OTHER -> TRUE
IsQuery(query) == IsSequence(query) /\ \A node \in ToSet(query) : IsNode(node)

AggregateExpr(func, column, alias) == [func |-> func, column |-> column, alias |-> alias]
SortExpr(column, ascending) == [column |-> column, ascending |-> ascending, nulls_first |-> FALSE]

default_alias(func, column) == IF column = Star THEN "count" ELSE func \o "_" \o column
output_type(func, t) ==
    CASE func = "count" -> "int64"
      [] func = "avg" -> "float64"
      [] func = "sum" -> IF t = "int64" THEN "int64" ELSE "float64"
      [] OTHER -> t

Refused == [ok |-> FALSE]

(* --------------------------- PlanRequest::to_ir ------------------------ *)

None == -1      \* an absent limit or offset

IsRequest(r) == /\ IsSequence(r.filters) /\ \A f \in ToSet(r.filters) : IsSequence(f.values)
                /\ IsSequence(r.columns) /\ IsSequence(r.group_by)
                /\ IsSequence(r.metrics) /\ IsSequence(r.order_by)

(* A filter: column, op, value (a sequence of at most one) and values.     *)
FilterLowers(f) ==
    CASE f.op \in {"is_null", "is_not_null"} -> TRUE
      [] f.op \in {"in", "not_in"} -> f.values /= <<>> /\ \A i \in DOMAIN f.values : f.values[i] \in JsonScalars
      [] f.op = "between" -> Len(f.values) = 2 /\ \A i \in 1..2 : f.values[i] \in JsonScalars
      [] OTHER -> Len(f.value) = 1 /\ f.value[1] \in JsonScalars

filter_to_expr(f) ==
    CASE f.op = "is_null" -> IsNull(Col(f.column))
      [] f.op = "is_not_null" -> IsNotNull(Col(f.column))
      [] f.op \in {"in", "not_in"} -> InList(Col(f.column), f.values, f.op = "not_in")
      [] f.op = "between" -> Between(Col(f.column), f.values[1], f.values[2], FALSE)
      [] OTHER -> Binary(f.op, Col(f.column), Lit(f.value[1]))

(* Expr::all: the filters of a request, joined by AND from the left.       *)
predicate(filters) ==
    LET all[i \in 1..Len(filters)] ==
            IF i = 1 THEN filter_to_expr(filters[1])
            ELSE Binary("and", all[i - 1], filter_to_expr(filters[i]))
    IN  all[Len(filters)]

to_ir(r) ==
    LET aggregates == r.operation = "aggregate"
        scan == Scan(IF aggregates THEN All ELSE r.columns)
        filter == IF r.filters = <<>> THEN <<>> ELSE <<Filter(predicate(r.filters))>>
        metric(m) == AggregateExpr(m.function, m.column,
                        IF m.alias = "" THEN default_alias(m.function, m.column) ELSE m.alias)
        aggregate == IF aggregates
                     THEN <<Aggregate(r.group_by, [i \in DOMAIN r.metrics |-> metric(r.metrics[i])])>>
                     ELSE <<>>
        sort == IF r.order_by = <<>> THEN <<>>
                ELSE <<Sort([i \in DOMAIN r.order_by |->
                         SortExpr(r.order_by[i].column, r.order_by[i].direction = "asc")])>>
        limit == IF r.limit = None THEN <<>>
                 ELSE <<Limit(r.limit, IF r.offset = None THEN 0 ELSE r.offset)>>
    IN  IF /\ \A i \in DOMAIN r.filters : FilterLowers(r.filters[i])
           /\ IF aggregates THEN r.metrics /= <<>> ELSE r.metrics = <<>> /\ r.group_by = <<>>
           /\ r.limit /= None \/ r.offset <= 0
        THEN [ok |-> TRUE, query |-> <<scan>> \o filter \o aggregate \o sort \o limit]
        ELSE Refused

(* ------------------------------- validate ------------------------------ *)

(* A schema is a sequence of columns with at least name and type; a table  *)
(* schema's columns also carry semantic and sensitive.                     *)
Names(schema) == {schema[i].name : i \in DOMAIN schema}
Column(schema, name) == CHOOSE c \in ToSet(schema) : c.name = name
Distinct(s) == Cardinality(ToSet(s)) = Len(s)

BoolLike == {"bool", Untyped}
Checked(ok, x, t) == [ok |-> ok, expr |-> x, type |-> t]

(* A comparison of operands one of which was coerced to the other's type.  *)
check_comparison(op, l, r) ==
    LET typed == Untyped \notin {l.type, r.type}
    IN  Checked(/\ l.ok /\ r.ok
                /\ typed => /\ l.type = r.type \/ (is_numeric(l.type) /\ is_numeric(r.type))
                            /\ is_ordered(l.type) \/ op \in {"eq", "ne"},
                Binary(op, l.expr, r.expr), "bool")

coerces(a, b) == b.expr.e = "literal" /\ a.type /= Untyped
Coercion(a, b, v) == Checked(b.ok /\ v /= Mismatch, Lit(v), a.type)
coerced(a, b) == Coercion(a, b, coerce_literal(b.expr.value, a.type))

(* check_binary, of the checked operands l and r: a literal is coerced to  *)
(* the type of the other side.                                             *)
check_binary(op, l, r) ==
    CASE op \in logical ->
           Checked({l.type, r.type} \subseteq BoolLike, Binary(op, l.expr, r.expr), "bool")
      [] op = "like" ->
           Checked(l.type \in {"utf8", "uuid", Untyped} /\ r.expr.e = "literal" /\ r.type = "utf8",
                   Binary(op, l.expr, r.expr), "bool")
      [] OTHER ->
           IF coerces(l, r) THEN check_comparison(op, l, coerced(l, r))
           ELSE check_comparison(op, IF coerces(r, l) THEN coerced(r, l) ELSE l, r)

(* A negation or a null test, a list and a range, of the checked argument. *)
check_unary(x, inner) ==
    Checked(inner.ok /\ (x.e = "not" => inner.type \in BoolLike), [x EXCEPT !.arg = inner.expr], "bool")
check_list(x, inner, list) ==
    Checked(inner.ok /\ list /= <<>> /\ Mismatch \notin ToSet(list),
            [x EXCEPT !.arg = inner.expr, !.list = list], "bool")
check_between(x, inner, low, high) ==
    Checked(inner.ok /\ Mismatch \notin {low, high} /\ ~Precedes(high, low),
            [x EXCEPT !.arg = inner.expr, !.low = low, !.high = high], "bool")
check_operands(x, l, r) ==
    IF l.ok /\ r.ok THEN check_binary(x.op, l, r) ELSE Checked(FALSE, x, "bool")

(* check_expr: the expression with its literals coerced, and its type.     *)
check_column(x, schema) ==
    IF x.name \in Names(schema) THEN Checked(TRUE, x, Column(schema, x.name).type)
    ELSE Checked(FALSE, x, Untyped)
check_literal(x) == Checked(TRUE, x, IF x.value = Null THEN Untyped ELSE x.value[1])
check_operator(x, of) ==
    CASE x.e \in {"not", "isnull", "isnotnull"} -> check_unary(x, of[x.arg])
      [] x.e = "in" -> check_list(x, of[x.arg], [i \in DOMAIN x.list |-> coerce_literal(x.list[i], of[x.arg].type)])
      [] x.e = "between" -> check_between(x, of[x.arg], coerce_literal(x.low, of[x.arg].type),
                                                       coerce_literal(x.high, of[x.arg].type))
      [] OTHER -> check_operands(x, of[x.left], of[x.right])
check_expr(x, schema) ==
    LET parts == Parts(x)
        checked[n \in 0..MaxDepth] == [y \in parts |->
            CASE y.e = "column" -> check_column(y, schema)
              [] y.e = "literal" -> check_literal(y)
              [] OTHER -> IF n = 0 THEN Checked(FALSE, y, "bool") ELSE check_operator(y, checked[n - 1])]
    IN  checked[MaxDepth][x]

hostile == {"id", "email", "url", "json"}

check_aggregate(agg, schema, table) ==
    IF agg.column = Star THEN agg.func = "count"
    ELSE /\ agg.column \in Names(schema)
         /\ LET t == Column(schema, agg.column).type
            IN  CASE agg.func = "count" -> TRUE
                  [] agg.func \in {"sum", "avg"} ->
                       /\ is_numeric(t)
                       /\ agg.column \in Names(table)
                            => Column(table, agg.column).semantic \notin hostile
                  [] OTHER -> is_ordered(t)

default_projection(table) ==
    LET shown == SelectSeq(table, LAMBDA c : ~c.sensitive)
    IN  [i \in DOMAIN shown |-> shown[i].name]

Shape(schema, names) == [i \in DOMAIN names |-> [name |-> names[i], type |-> Column(schema, names[i]).type]]

Accepted(node, schema) == [ok |-> TRUE, node |-> node, schema |-> schema]

(* walk, one node over the output schema of the nodes below it.            *)
WalkScan(node, table) ==
    LET names == IF node.columns = All THEN default_projection(table) ELSE node.columns
    IN  IF ToSet(names) \subseteq Names(table) /\ Distinct(names)
        THEN Accepted(Scan(names), Shape(table, names))
        ELSE Refused

Filtering(c, schema) ==
    IF c.ok /\ c.type \in BoolLike THEN Accepted(Filter(c.expr), schema) ELSE Refused
WalkFilter(node, schema) == Filtering(check_expr(node.predicate, schema), schema)

WalkProject(node, schema) ==
    LET sources == [i \in DOMAIN node.exprs |-> node.exprs[i][1]]
        aliases == [i \in DOMAIN node.exprs |-> node.exprs[i][2]]
    IN  IF /\ node.exprs /= <<>> /\ Distinct(aliases)
           /\ \A i \in DOMAIN sources : sources[i].e = "column" /\ sources[i].name \in Names(schema)
        THEN Accepted(node, [i \in DOMAIN aliases |->
                [name |-> aliases[i], type |-> Column(schema, sources[i].name).type]])
        ELSE Refused

WalkAggregate(node, schema, table) ==
    LET aggs == [i \in DOMAIN node.aggregates |->
            LET a == node.aggregates[i]
            IN  IF a.alias = "" THEN [a EXCEPT !.alias = default_alias(a.func, a.column)] ELSE a]
        outputs == node.group_by \o [i \in DOMAIN aggs |-> aggs[i].alias]
        argument(a) == IF a.column = Star THEN "int64" ELSE Column(schema, a.column).type
    IN  IF /\ aggs /= <<>> /\ Distinct(outputs)
           /\ \A k \in ToSet(node.group_by) :
                 k \in Names(schema) /\ is_ordered(Column(schema, k).type)
           /\ \A a \in ToSet(aggs) : check_aggregate(a, schema, table)
        THEN Accepted([node EXCEPT !.aggregates = aggs],
                      Shape(schema, node.group_by) \o
                      [i \in DOMAIN aggs |-> [name |-> aggs[i].alias,
                          type |-> output_type(aggs[i].func, argument(aggs[i]))]])
        ELSE Refused

WalkSort(node, schema) ==
    IF /\ node.keys /= <<>>
       /\ \A k \in ToSet(node.keys) :
             k.column \in Names(schema) /\ is_ordered(Column(schema, k.column).type)
    THEN Accepted(node, schema)
    ELSE Refused

walk(node, schema, table, max_rows) ==
    CASE node.n = "scan" -> WalkScan(node, table)
      [] node.n = "filter" -> WalkFilter(node, schema)
      [] node.n = "project" -> WalkProject(node, schema)
      [] node.n = "aggregate" -> WalkAggregate(node, schema, table)
      [] node.n = "sort" -> WalkSort(node, schema)
      [] node.n = "limit" ->
           Accepted([node EXCEPT !.limit = IF @ > max_rows THEN max_rows ELSE @], schema)
      [] OTHER -> Refused      \* a join

(* validate: the canonical query and its output schema.                    *)
Extended(acc, w) ==
    IF w.ok THEN [ok |-> TRUE, query |-> Append(acc.query, w.node), schema |-> w.schema] ELSE Refused
NotEmpty(all) == IF all.ok /\ all.schema /= <<>> THEN all ELSE Refused
Walked(acc, node, table, max_rows) ==
    IF acc.ok THEN Extended(acc, walk(node, acc.schema, table, max_rows)) ELSE Refused
validate(query, table, max_rows) ==
    LET upto[k \in 0..Len(query)] ==
            IF k = 0 THEN [ok |-> TRUE, query |-> <<>>, schema |-> <<>>]
            ELSE Walked(upto[k - 1], query[k], table, max_rows)
    IN  NotEmpty(upto[Len(query)])

=============================================================================
