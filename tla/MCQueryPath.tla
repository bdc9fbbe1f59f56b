----------------------------- MODULE MCQueryPath -----------------------------
(***************************************************************************)
(* Model-checking instance of QueryPath: one table of seven columns, three *)
(* contents of it, and the requests that reach every branch of the         *)
(* lowering, the validator, the planner and the executor.                  *)
(***************************************************************************)
EXTENDS MCQuestions

C(name, type, semantic, sensitive) ==
    [name |-> name, type |-> type, semantic |-> semantic, sensitive |-> sensitive,
     aggregation |-> IF semantic = "currency" THEN "sum" ELSE ""]
MCTable == <<C("id", "int64", "id", FALSE), C("cat", "utf8", "category", FALSE),
             C("amt", "float64", "currency", FALSE), C("qty", "int64", "quantity", FALSE),
             C("created_at", "timestamp", "timestamp", FALSE), C("doc", "json", "json", FALSE),
             C("pin", "utf8", "", TRUE)>>
MCLikePairs == {<<1, 9>>, <<2, 9>>, <<2, 8>>}

Row(id, cat, amt, qty, at, doc) ==
    [id |-> Int64(id), cat |-> cat, amt |-> IF amt = 0 THEN Null ELSE Float64(amt * One),
     qty |-> qty, created_at |-> Timestamp(at * DayMicros), doc |-> doc, pin |-> Str(id)]
(* A row of a segment written before the column qty was added.             *)
OldRow(id, cat, amt, at) ==
    [c \in {"id", "cat", "amt", "created_at", "doc", "pin"} |-> Row(id, cat, amt, Null, at, Null)[c]]
OldTable == SelectSeq(MCTable, LAMBDA c : c.name /= "qty")

Segment(columns, rows, suppressed) == write_segment(columns, rows, suppressed, 2)
Batch(rows) == [rows |-> rows, bytes |-> 1]
Snapshot(segments, memtable, suppressed) ==
    [segments |-> segments, memtable |-> memtable, memtable_suppressed |-> suppressed]

TwoPartitions == <<
    Snapshot(<<Segment(OldTable, <<OldRow(1, Str(1), 4, 1), OldRow(2, Null, 8, 2)>>, {0}),
               Segment(MCTable, <<Row(3, Str(2), 0, Int64(3), 3, Str(5))>>, {})>>,
             <<Batch(<<Row(1, Str(1), 6, Int64(2), 1, Null)>>),
               Batch(<<Row(4, Str(1), 6, Null, 4, Str(5)), Row(5, Str(2), 2, Int64(7), 2, Null)>>)>>,
             {2}),
    Snapshot(<<Segment(MCTable, <<Row(6, Null, 8, Int64(1), 2, Str(6)),
                                  Row(7, Null, 0, Null, 3, Null)>>, {})>>,
             <<>>, {}) >>
OnePartition == << Snapshot(<<Segment(MCTable, <<Row(2, Str(2), 4, Int64(2), 1, Null)>>, {0})>>,
                            <<Batch(<<Row(2, Str(3), 8, Int64(2), 4, Str(5))>>)>>, {}) >>
NoRows == << Snapshot(<<>>, <<>>, {}), Snapshot(<<>>, <<>>, {}) >>

MCStores == [two |-> TwoPartitions, one |-> OnePartition, none |-> NoRows]

(* ------------------------------- requests ------------------------------ *)

F1(column, op, value) == [column |-> column, op |-> op, value |-> <<value>>, values |-> <<>>]
Fn(column, op, values) == [column |-> column, op |-> op, value |-> <<>>, values |-> values]
By(column, direction) == [column |-> column, direction |-> direction]
M(function, column, alias) == [function |-> function, column |-> column, alias |-> alias]

Filters == {
    <<>>,
    <<F1("cat", "eq", Str(1))>>, <<F1("cat", "ne", Str(1))>>, <<F1("cat", "like", Str(9))>>,
    <<F1("amt", "gt", Int64(4))>>, <<F1("amt", "lte", Float64(48))>>, <<F1("amt", "gte", Int64(8))>>,
    <<F1("created_at", "gte", InstantText(2 * DayMicros))>>, <<F1("created_at", "lt", Int64(15))>>, <<F1("id", "eq", Float64(24))>>,
    <<Fn("cat", "in", <<Str(2), Str(3)>>)>>, <<Fn("cat", "not_in", <<Str(2)>>)>>,
    <<Fn("cat", "not_in", <<Str(2), Null>>)>>, <<Fn("cat", "in", <<Str(1), Null>>)>>,
    <<Fn("qty", "between", <<Int64(2), Int64(3)>>)>>, <<Fn("qty", "between", <<Null, Int64(3)>>)>>,
    <<Fn("cat", "is_null", <<>>)>>, <<Fn("qty", "is_not_null", <<>>)>>, <<Fn("doc", "is_not_null", <<>>)>>,
    <<F1("amt", "lt", Int64(8)), Fn("cat", "is_not_null", <<>>), F1("id", "gt", Int64(1))>> }
BadFilters == {
    <<F1("id", "eq", Float64(18))>>, <<F1("cat", "lt", Int64(1))>>, <<F1("amt", "like", Str(9))>>,
    <<F1("cat", "eq", NotScalar)>>, <<Fn("cat", "eq", <<>>)>>, <<Fn("qty", "between", <<Int64(3), Int64(2)>>)>>,
    <<Fn("cat", "in", <<>>)>>, <<F1("doc", "gt", Str(5))>>, <<F1("pin", "eq", Str(1))>>, <<F1("created_at", "eq", Str(1))>> }
JsonFilters == { <<F1("doc", "eq", Str(5))>>, <<Fn("doc", "in", <<Str(5), Str(6)>>)>> }

Select(columns, order, limit, offset) ==
    [operation |-> "select", columns |-> columns, filters |-> <<>>, group_by |-> <<>>, metrics |-> <<>>,
     order_by |-> order, limit |-> limit, offset |-> offset]
Group(keys, metrics, order, limit) ==
    [operation |-> "aggregate", columns |-> <<>>, filters |-> <<>>, group_by |-> keys, metrics |-> metrics,
     order_by |-> order, limit |-> limit, offset |-> None]

Shapes == {
    Select(<<>>, <<>>, None, None),
    Select(<<>>, <<>>, 2, 1),
    Select(<<"cat", "amt", "qty", "created_at", "doc", "id">>, <<By("amt", "desc"), By("id", "asc")>>, 3, None),
    Select(<<>>, <<By("cat", "asc")>>, 2, 1),
    Group(<<>>, <<M("count", Star, "")>>, <<>>, None),
    Group(<<>>, <<M("count", "cat", ""), M("sum", "qty", ""), M("avg", "amt", "mean"),
                  M("min", "amt", ""), M("max", "created_at", "")>>, <<>>, None),
    Group(<<"cat">>, <<M("count", Star, ""), M("sum", "amt", "total"), M("max", "qty", "")>>, <<>>, None),
    Group(<<"cat">>, <<M("count", Star, "n")>>, <<By("n", "desc")>>, 1) }
BadShapes == {
    Group(<<>>, <<M("sum", "id", "")>>, <<>>, None), Group(<<"doc">>, <<M("count", Star, "")>>, <<>>, None),
    Group(<<"cat">>, <<>>, <<>>, None), Group(<<>>, <<M("min", "doc", "")>>, <<>>, None),
    Group(<<>>, <<M("sum", Star, "")>>, <<>>, None), Group(<<>>, <<M("avg", "cat", "")>>, <<>>, None),
    Group(<<"cat">>, <<M("count", Star, "cat")>>, <<>>, None),
    Select(<<"id", "id">>, <<>>, None, None), Select(<<"nope">>, <<>>, None, None),
    Select(<<"id">>, <<By("amt", "asc")>>, None, None), Select(<<>>, <<By("doc", "asc")>>, None, None),
    Select(<<>>, <<>>, None, 1),
    [Select(<<>>, <<>>, None, None) EXCEPT !.group_by = <<"cat">>] }
OddShapes == {
    Select(<<"pin", "id">>, <<>>, 0, None),
    [Group(<<>>, <<M("count", Star, "")>>, <<>>, 1) EXCEPT !.offset = 1] }

With(shape, filters) == [shape EXCEPT !.filters = filters]
Plan(r) == [kind |-> "plan", request |-> r]

(* Plans that only a caller of the planner itself can give: projections,   *)
(* filters above them, disjunctions and negations.                         *)
Is(c, v) == Binary("eq", Col(c), Lit(v))
MyScan == Scan(<<"id", "cat", "amt">>)
ByCat == Aggregate(<<"cat">>, <<AggregateExpr("count", Star, "n")>>)
Direct(q) == [kind |-> "query", query |-> q]
DirectPlans == {
    Direct(<<MyScan, Project(<<<<Col("cat"), "kind">>, <<Col("id"), "cat">>>>),
             Filter(Binary("or", Is("kind", Str(1)), Binary("gt", Lit(Int64(6)), Col("cat")))),
             Sort(<<SortExpr("cat", FALSE)>>), Limit(3, 0)>>),
    Direct(<<MyScan, Filter(Not(Binary("and", Is("cat", Str(2)), IsNull(Col("amt"))))),
             Project(<<<<Col("id"), "a">>, <<Col("cat"), "b">>>>), Project(<<<<Col("b"), "a">>>>),
             Filter(IsNotNull(Col("a"))), Limit(2, 0)>>),
    Direct(<<Scan(All), Project(<<<<Col("cat"), "cat">>, <<Col("qty"), "qty">>>>),
             Filter(InList(Col("cat"), <<Str(1), Str(2)>>, TRUE)),
             Aggregate(<<"cat">>, <<AggregateExpr("sum", "qty", "")>>)>>),
    Direct(<<MyScan, Filter(Between(Col("amt"), Int64(3), Int64(6), TRUE)), Filter(Not(Is("cat", Str(1))))>>),
    Direct(<<MyScan, Project(<<<<Col("amt"), "x">>>>), Aggregate(<<>>, <<AggregateExpr("max", "x", "")>>)>>),
    Direct(<<MyScan, Limit(2, 0), Filter(Is("cat", Str(1)))>>),
    Direct(<<MyScan, Sort(<<SortExpr("id", TRUE)>>), Project(<<<<Col("id"), "x">>>>)>>),
    Direct(<<MyScan, ByCat, Filter(Is("n", Int64(1)))>>),
    Direct(<<MyScan, ByCat, Project(<<<<Col("cat"), "cat">>, <<Col("n"), "n">>>>)>>),
    Direct(<<MyScan, Project(<<>>)>>),
    Direct(<<MyScan, Filter(Binary("gt", Lit(Int64(6)), Col("id")))>>),
    Direct(<<MyScan, Limit(4, 1), Limit(2, 0)>>),
    Direct(<<MyScan, Limit(3, 0), Limit(3, 1)>>) }

Limits(max_rows, max_bytes, timed) == [max_rows |-> max_rows, max_bytes |-> max_bytes, timed |-> timed]
Ample == Limits(50, 100, FALSE)
Input(source, lim, data) == [source |-> source, limits |-> lim, store |-> data]

(* Groups that are renamed, without a column, or in another order, and     *)
(* predicates with a NULL that no column gives a type.                     *)
ProjectedPlans ==
    {Direct(<<MyScan, ByCat, Project(exprs)>>) :
        exprs \in {<<<<Col("cat"), "kind">>, <<Col("n"), "n">>>>, <<<<Col("n"), "n">>>>,
                   <<<<Col("n"), "n">>, <<Col("cat"), "cat">>>>}}
UntypedPlans ==
    {Direct(<<MyScan, Filter(x)>>) :
        x \in {Lit(Null), Not(Lit(Null)), Binary("eq", Lit(Null), Lit(Int64(1)))}}

MCInputs ==
    {Input(Plan(With(s, f)), Ample, d) : s \in Shapes, f \in Filters, d \in {"two", "one"}}
    \cup {Input(Plan(With(s, f)), l, "two") :
            s \in Shapes, f \in {<<>>, <<F1("cat", "eq", Str(1))>>},
            l \in {Limits(2, 100, TRUE), Limits(50, 5, FALSE), Limits(50, 7, TRUE)}}
    \cup {Input(Plan(s), Ample, d) : s \in Shapes \cup BadShapes \cup OddShapes, d \in {"none", "one"}}
    \cup {Input(Plan(With(s, f)), Ample, "one") :
            s \in {Select(<<>>, <<>>, None, None), Group(<<>>, <<M("count", Star, "")>>, <<>>, None)},
            f \in BadFilters}
    \cup {Input(q, Ample, "two") : q \in DirectPlans \cup ProjectedPlans \cup UntypedPlans}
    \cup {Input(q, Ample, "one") : q \in MCQuestionSet}

(* Equality filters on the JSON column.                                    *)
MCJsonInputs == {Input(Plan(With(s, f)), Ample, "two") : s \in Shapes, f \in JsonFilters}

=============================================================================
