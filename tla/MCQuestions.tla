---------------------------- MODULE MCQuestions -----------------------------
(***************************************************************************)
(* The questions of the instance: each is put together from phrases, in    *)
(* every order, and carries what these phrases ask for.                    *)
(***************************************************************************)
EXTENDS QueryPath

Lexical(exact, loose, prefix, described) ==
    [exact |-> exact, loose |-> loose, prefix |-> prefix, described |-> described, contains |-> {}]
MCLexicon ==
    [columns |->
        [id         |-> Lexical({<<"id">>}, {<<"ids">>}, {}, {}),
         cat        |-> Lexical({<<"cat">>}, {<<"cats">>}, {}, {<<"label">>, <<"shown">>}),
         amt        |-> Lexical({<<"amt">>}, {}, {}, {<<"worth">>, <<"shown">>}),
         qty        |-> Lexical({<<"qty">>}, {}, {}, {<<"pieces">>}),
         created_at |-> Lexical({<<"created_at">>, <<"created", "at">>}, {<<"createdat">>},
                                {<<"created">>}, {}),
         doc        |-> Lexical({<<"doc">>}, {<<"docs">>}, {}, {}),
         pin        |-> Lexical({<<"pin">>}, {<<"pins">>}, {}, {})],
     integers |-> "2" :> 2 @@ "3" :> 3 @@ "4" :> 4 @@ "-1" :> -1 @@ "1970" :> 1970,
     numbers  |-> "2" :> Int64(2) @@ "3" :> Int64(3) @@ "4" :> Int64(4) @@ "-1" :> Int64(-1) @@
                  "2.5" :> Float64(30) @@ "1970" :> Int64(1970),
     text     |-> "red" :> Str(1) @@ "blue" :> Str(2) @@ "4" :> Str(4) @@
                  "1970-01-02" :> InstantText(DayMicros) @@ "1970-01-04" :> InstantText(3 * DayMicros)]

Orders == {"orders", "order"}
Customers == {"customers", "customer"}

Date4(y, m, d, minute) == [year |-> y, month |-> m, day |-> d, minute |-> minute]
\* A Sunday in the first month, the last minute of a year, a leap day, a Monday.
Nows == {Date4(1970, 1, 4, 720), Date4(1970, 12, 31, 1439), Date4(1972, 2, 29, 0), Date4(1971, 3, 1, 600)}
Early == Date4(1970, 1, 4, 720)

Cond(column, op, value) == [column |-> column, op |-> op, value |-> value, values |-> <<>>]

\* A phrase: its words, the conditions it states and the calendar windows.
Says(words, filters) == [words |-> words, filters |-> filters, windows |-> {}]
Within(words, unit, back) == [words |-> words, filters |-> {}, windows |-> {[unit |-> unit, back |-> back]}]

Conditions == {
    Says(<<"where", "amt", "is", "greater", "than", "4">>, {Cond("amt", "gt", <<Int64(4)>>)}),
    Says(<<"with", "qty", "at", "least", "2">>, {Cond("qty", "gte", <<Int64(2)>>)}),
    Says(<<"worth", "under", "2.5">>, {Cond("amt", "lt", <<Float64(30)>>)}),
    Says(<<"cat", "is", "not", "null">>, {Cond("cat", "is_not_null", <<>>)}),
    Says(<<"label", "is", "red">>, {Cond("cat", "eq", <<Str(1)>>)}),
    Says(<<"kind", "is", "not", "blue">>, {Cond("cat", "ne", <<Str(2)>>)}),
    Says(<<"qty", "=", "3">>, {Cond("qty", "eq", <<Int64(3)>>)}),
    Says(<<"since", "1970-01-02">>, {Cond("created_at", "gte", <<InstantText(DayMicros)>>)}),
    Says(<<"created", "before", "1970-01-04">>, {Cond("created_at", "lt", <<InstantText(3 * DayMicros)>>)}) }
\* With Early as the time of asking.
Recent == {
    Says(<<"in", "the", "last", "2", "days">>, {Cond("created_at", "gte", <<InstantText(Instant(Early) - 2 * DayMicros)>>)}),
    Says(<<"past", "3", "hours">>, {Cond("created_at", "gte", <<InstantText(Instant(Early) - 180)>>)}),
    Within(<<"in", "1970">>, "year", 0), Within(<<"this", "week">>, "week", 0) }
Windows ==
    {Within(<<"this", u>>, u, 0) : u \in {"day", "week", "month", "quarter", "year"}}
    \cup {Within(<<w, u>>, u, 1) : w \in {"last", "recent"}, u \in {"day", "week", "month", "quarter", "year"}}

\* A shape: the words the question begins with, phrases that may stand
\* anywhere, and what they ask for.
Wanted(group_by, metrics, order_by, limit) ==
    [group_by |-> group_by, metrics |-> metrics, order_by |-> order_by, limit |-> limit]
Form(opening, phrases, wanted) ==
    [opening |-> opening, phrases |-> {Says(words, {}) : words \in phrases}, wanted |-> wanted]
Count == MetricSpec("count", Star)
Forms == {
    Form(<<"show", "all", "orders">>, {}, Wanted(<<>>, <<>>, <<>>, None)),
    Form(<<"orders">>, {<<"sorted", "by", "qty", "desc", "limit", "2">>},
         Wanted(<<>>, <<>>, <<OrderSpec("qty", FALSE)>>, 2)),
    Form(<<"how", "many", "orders">>, {<<"per", "cat">>}, Wanted(<<"cat">>, <<Count>>, <<>>, None)),
    Form(<<>>, {<<"total", "amount">>, <<"by", "cat">>},
         Wanted(<<"cat">>, <<MetricSpec("sum", "amt")>>, <<>>, None)),
    Form(<<"orders">>, {<<"top", "2", "cats", "by", "revenue">>},
         Wanted(<<"cat">>, <<MetricSpec("sum", "amt")>>, <<OrderSpec("sum_amt", FALSE)>>, 2)),
    Form(<<"which", "cats">>, {<<"average", "qty">>},
         Wanted(<<"cat">>, <<MetricSpec("avg", "qty")>>, <<OrderSpec("avg_qty", FALSE)>>, DEFAULT_RANKING_LIMIT)) }

Question(words, now, tables, asked) ==
    [kind |-> "question", words |-> words, now |-> now, tables |-> tables, asked |-> asked]
Asked(form, phrases) ==
    form.wanted @@ [filters |-> UNION {x.filters : x \in phrases}, windows |-> UNION {x.windows : x \in phrases}]
AskedOf(form, phrases, now) ==
    {Question(form.opening \o FlattenSeq([i \in DOMAIN order |-> order[i].words]), now,
              <<Orders>>, Asked(form, phrases)) : order \in SetToSeqs(form.phrases \cup phrases)}

\* Two conditions, or a time and a condition, in every order with the shape.
Pairs == {S \in SUBSET (Conditions \cup Recent) : Cardinality(S) = 2 /\ Cardinality(S \cap Recent) < 2}
Understood ==
    UNION {AskedOf(form, S, Early) : form \in Forms, S \in Pairs}
    \cup UNION {AskedOf(form, {w}, now) : form \in Forms, w \in Windows, now \in Nows}

\* Questions with defaults, and questions that are refused.
Nothing == Wanted(<<>>, <<>>, <<>>, None)
Ask(words, tables, wanted) == Question(words, Early, tables, wanted @@ [filters |-> {}, windows |-> {}])
Others == {
    Ask(<<"total", "orders">>, <<Orders>>, Wanted(<<>>, <<MetricSpec("sum", "amt")>>, <<>>, None)),
    Ask(<<"orders", "worth">>, <<Orders>>, Wanted(<<>>, <<MetricSpec("sum", "amt")>>, <<>>, None)),
    Ask(<<"orders", "by", "kind">>, <<Orders, Customers>>, Wanted(<<"cat">>, <<Count>>, <<>>, None)),
    Ask(<<"bottom", "2", "orders", "by", "qty">>, <<Orders>>, Wanted(<<>>, <<>>, <<OrderSpec("qty", TRUE)>>, 2)),
    Ask(<<"first", "3", "orders">>, <<Orders>>, Wanted(<<>>, <<>>, <<>>, 3)),
    Ask(<<>>, <<Orders>>, Nothing), Ask(<<"list", "orders">>, <<>>, Nothing),
    Ask(<<"how", "many", "are", "there">>, <<Orders, Customers>>, Nothing),
    Ask(<<"count", "orders", "and", "customers">>, <<Orders, Customers>>, Nothing),
    Ask(<<"show", "orders", "without", "docs">>, <<Orders>>, Nothing),
    Ask(<<"wibble", "the", "orders">>, <<Orders>>, Nothing),
    Ask(<<"total", "id">>, <<Orders>>, Nothing), Ask(<<"top", "-1", "orders">>, <<Orders>>, Nothing) }

MCQuestionSet == Understood \cup Others
=============================================================================
