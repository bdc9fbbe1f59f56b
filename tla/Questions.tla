------------------------------ MODULE Questions ------------------------------
(***************************************************************************)
(* The translator of questions (adb-query rule.rs): a question is a        *)
(* sequence of words; each pass looks for its phrases among the words no   *)
(* earlier pass has used, adds to the plan request and marks what it used. *)
(*                                                                         *)
(* What matching and parsing strings finds is given by the Lexicon: the    *)
(* phrases that are the name of a column or a loose form of it, the words  *)
(* that are numbers, and so on.  Time is in minutes; the day is a civil    *)
(* date.  The notes for the interpretation are left out.                   *)
(***************************************************************************)
EXTENDS Plans, TLC

CONSTANTS
    Table,      \* the columns of the table that is asked about, in order
    Lexicon     \* external: [columns, integers, numbers, text], see below

(* Lexicon.columns[c]: the phrases that are c's name (exact), that are it  *)
(* up to underscores and plural (loose), that begin it (prefix), that its  *)
(* description contains (described), and the words its name contains.      *)
(* integers, numbers and text map words to what parse::<i64>, parse_number *)
(* and json! make of them.                                                 *)
Text(word) == IF word \in DOMAIN Lexicon.text THEN Lexicon.text[word] ELSE Str(0)
IsInteger(word) == word \in DOMAIN Lexicon.integers
IsNumber(word) == word \in DOMAIN Lexicon.numbers

STOPWORDS == {"the", "of", "a", "an", "all", "each", "every", "me", "my", "our", "their", "in",
              "for", "with", "and", "that", "which", "was"}

(* ------------------------------ the calendar --------------------------- *)

(* External (chrono): days since 1970-01-01 of a civil date.               *)
Days(year, month, day) ==
    LET y == IF month <= 2 THEN year - 1 ELSE year
        m == (month + 9) % 12
    IN  365 * y + (y \div 4) - (y \div 100) + (y \div 400) + ((153 * m + 2) \div 5) + day - 719469
Midnight(year, month, day) == Days(year, month, day) * DayMicros
weekday(now) == (Days(now.year, now.month, now.day) + 3) % 7      \* from Monday
Instant(now) == Midnight(now.year, now.month, now.day) + now.minute

(* The trailing s of a unit is trimmed.                                    *)
trimmed == [day |-> "day", days |-> "day", today |-> "today", week |-> "week", weeks |-> "week",
            month |-> "month", months |-> "month", quarter |-> "quarter", quarters |-> "quarter",
            year |-> "year", years |-> "year", hour |-> "hour", hours |-> "hour",
            minute |-> "minute", minutes |-> "minute"]
Unit(word) == IF word \in DOMAIN trimmed THEN trimmed[word] ELSE ""

duration_of == [day |-> DayMicros, week |-> 7 * DayMicros, month |-> 30 * DayMicros,
                quarter |-> 91 * DayMicros, year |-> 365 * DayMicros, hour |-> 60, minute |-> 1]

(* The windows: from a day or a week on, the month numbered from 1 of a    *)
(* year, its quarter numbered from 0, and a year.                          *)
Lasting(start, span) == <<start, start + span>>
MonthOf(year, month) ==
    <<Midnight(year, month, 1), IF month = 12 THEN Midnight(year + 1, 1, 1) ELSE Midnight(year, month + 1, 1)>>
QuarterOf(year, quarter) ==
    <<Midnight(year, quarter * 3 + 1, 1),
      IF quarter = 3 THEN Midnight(year + 1, 1, 1) ELSE Midnight(year, quarter * 3 + 4, 1)>>
YearOf(year) == <<Midnight(year, 1, 1), Midnight(year + 1, 1, 1)>>

NoWindow == <<>>
this_window(unit, now) ==
    CASE unit \in {"day", "today"} -> Lasting(Midnight(now.year, now.month, now.day), DayMicros)
      [] unit = "week" ->
           Lasting(Midnight(now.year, now.month, now.day) - weekday(now) * DayMicros, 7 * DayMicros)
      [] unit = "month" -> MonthOf(now.year, now.month)
      [] unit = "quarter" -> QuarterOf(now.year, (now.month - 1) \div 3)
      [] unit = "year" -> YearOf(now.year)
      [] OTHER -> NoWindow
previous_window(unit, now) ==
    CASE unit \in {"day", "today"} -> Lasting(Midnight(now.year, now.month, now.day) - DayMicros, DayMicros)
      [] unit = "week" ->
           Lasting(Midnight(now.year, now.month, now.day) - (weekday(now) + 7) * DayMicros, 7 * DayMicros)
      [] unit = "month" -> IF now.month = 1 THEN MonthOf(now.year - 1, 12) ELSE MonthOf(now.year, now.month - 1)
      [] unit = "quarter" -> IF now.month <= 3 THEN QuarterOf(now.year - 1, 3)
                             ELSE QuarterOf(now.year, (now.month - 1) \div 3 - 1)
      [] unit = "year" -> YearOf(now.year - 1)
      [] OTHER -> NoWindow
calendar_window(word, previous, now) ==
    IF previous THEN previous_window(Unit(word), now) ELSE this_window(Unit(word), now)

(* ---------------------------- resolving columns ------------------------ *)

NoColumn == ""
TimeTypes == {"timestamp", "date"}

(* The first column of a sequence, the only one, and a second choice.      *)
Leading(columns) == IF columns = <<>> THEN NoColumn ELSE columns[1].name
Sole(columns) == IF Len(columns) = 1 THEN columns[1].name ELSE NoColumn
Else(column, other) == IF column = NoColumn THEN other ELSE column

temporal == SelectSeq(Table, LAMBDA c : c.type \in TimeTypes)
primary_time_column ==
    Else(Sole(temporal),
         Else(Leading(SelectSeq(temporal, LAMBDA c : c.semantic = "timestamp")),
              Leading(SelectSeq(temporal, LAMBDA c : "created" \in Lexicon.columns[c.name].contains))))

synonyms ==
    [w \in {"revenue", "sales", "amount", "spend", "value", "money", "price", "cost"} |-> "currency"] @@
    [w \in {"country", "market", "region", "nation"} |-> "country"] @@
    [w \in {"date", "time", "when", "day", "timestamp"} |-> "timestamp"] @@
    [w \in {"category", "kind", "type", "segment", "status"} |-> "category"] @@
    [w \in {"email", "e-mail"} |-> "email"]

(* resolve_column: the name, then loose forms, then semantics where they   *)
(* are unambiguous.                                                        *)
Having(phrase, fact) == SelectSeq(Table, LAMBDA c : phrase \in Lexicon.columns[c.name][fact])
Meant(semantic) == SelectSeq(Table, LAMBDA c : c.semantic = semantic)
BySemantic(phrase, semantic) ==
    IF semantic = "timestamp" /\ Len(Meant(semantic)) /= 1 THEN primary_time_column
    ELSE Else(Sole(Meant(semantic)),
              Else(Sole(Having(phrase, "prefix")), Sole(Having(phrase, "described"))))
resolve(phrase) ==
    Else(Leading(Having(phrase, "exact")),
         Else(Leading(Having(phrase, "loose")),
              BySemantic(phrase, IF Len(phrase) = 1 /\ phrase[1] \in DOMAIN synonyms
                                 THEN synonyms[phrase[1]] ELSE "none")))

(* ------------------------------ the parser ----------------------------- *)

(* Parser, with used as a set of positions; error is the kind of Err.      *)
Parser(words, now) ==
    [words |-> words, now |-> now, used |-> {}, filters |-> <<>>, group_by |-> <<>>,
     metrics |-> <<>>, order_by |-> <<>>, limit |-> None, error |-> ""]

Get(p, i) == IF i \in DOMAIN p.words THEN p.words[i] ELSE ""
Use(p, positions) == [p EXCEPT !.used = @ \cup (positions \cap DOMAIN p.words)]
Fail(p) == [p EXCEPT !.error = "refused"]
PushFilter(p, column, op, value) ==
    [p EXCEPT !.filters = Append(@, [column |-> column, op |-> op, value |-> value, values |-> <<>>])]
push_time_filter(p, column, op, t) == PushFilter(p, column, op, <<InstantText(t)>>)
OrderSpec(column, ascending) == [column |-> column, direction |-> IF ascending THEN "asc" ELSE "desc"]
MetricSpec(func, column) == [function |-> func, column |-> column, alias |-> ""]
metric_alias(m) == default_alias(m.function, m.column)

filler == {"is", "are", "was", "were", "be", "been", "the", "a", "an", "of", "="}
Nowhere == [column |-> NoColumn, from |-> 0, to |-> 0]

(* A phrase and the column it names.                                       *)
Span(words, from, to) == [column |-> resolve(SubSeq(words, from, to)), from |-> from, to |-> to]
Named(spans) == {s \in spans : s.column /= NoColumn}
First(found) == IF found = {} THEN 0 ELSE Min(found)

(* The shortest phrase of up to three words before at, fillers skipped.    *)
Shortest(spans) == IF spans = {} THEN Nowhere ELSE CHOOSE s \in spans : \A t \in spans : s.from >= t.from
column_before(p, at) ==
    LET end == Max({0} \cup {j \in 1..(at - 1) : p.words[j] \notin filler})
    IN  Shortest(Named({Span(p.words, start, end) : start \in Max({1, end - 2})..end}))

(* The longest phrase that starts soonest, at most two words after at.     *)
Soonest(spans) ==
    IF spans = {} THEN Nowhere
    ELSE CHOOSE s \in spans : \A t \in spans : s.from < t.from \/ (s.from = t.from /\ s.to >= t.to)
column_after(p, at) ==
    LET size == Len(p.words)
    IN  Soonest(Named({Span(p.words, start, Min({start + n, size})) :
                           start \in at..Min({at + 2, size}), n \in 0..2}))

time_column_near(p, at) ==
    LET timed(near) == IF near /= NoColumn /\ Column(Table, near).type \in TimeTypes
                       THEN near ELSE primary_time_column
    IN  timed(column_before(p, at).column)

(* ---------------------------- the passes: filters ---------------------- *)

pick_table(words, tables) == \/ \E i \in DOMAIN tables : ToSet(words) \cap tables[i] /= {}
                             \/ Len(tables) = 1

(* Words that begin with a marker of a missing row.                        *)
anti_join == {"haven't", "hasn't", "didn't", "never", "without"}
reject_multi_table(words, tables) ==
    \/ Cardinality({i \in DOMAIN tables : ToSet(words) \cap tables[i] /= {}}) > 1
    \/ ToSet(words) \cap anti_join /= {}

parse_relative_time(p, i, column) ==
    LET next == Get(p, i + 1)
        unit == Unit(Get(p, i + 2))
        counted == IsInteger(next) /\ unit \in DOMAIN duration_of
        window == calendar_window(next, Get(p, i) /= "this", p.now)
        since == Instant(p.now) - duration_of[unit] * Lexicon.integers[next]
    IN  CASE i \in p.used \/ Get(p, i) \notin {"last", "past", "previous", "this", "recent"} -> p
          [] ~counted /\ window = NoWindow -> p
          [] column = NoColumn -> Fail(p)
          [] counted -> Use(push_time_filter(p, column, "gte", since), i..(i + 2))
          [] OTHER -> Use(push_time_filter(push_time_filter(p, column, "gte", window[1]),
                                           column, "lt", window[2]), i..(i + 1))

time_op == [since |-> "gte", from |-> "gte", after |-> "gt", before |-> "lt", until |-> "lt"]
parse_absolute_time(p, i, column) ==
    LET next == Get(p, i + 1)
    IN  CASE i \in p.used \/ Get(p, i) \notin DOMAIN time_op \/ ~IsDateText(Text(next)) -> p
          [] column = NoColumn -> Fail(p)
          [] OTHER -> Use(PushFilter(p, column, time_op[Get(p, i)], <<Text(next)>>), i..(i + 1))
parse_bare_year(p, i, column) ==
    LET year == Lexicon.integers[Get(p, i)]
    IN  CASE i \in p.used \/ ~IsInteger(Get(p, i)) -> p
          [] year \notin 1970..2200 \/ Get(p, i - 1) \notin {"in", "during", "for"} -> p
          [] column = NoColumn -> Fail(p)
          [] OTHER -> Use(push_time_filter(push_time_filter(p, column, "gte", Midnight(year, 1, 1)),
                                           column, "lt", Midnight(year + 1, 1, 1)), {i})

parse_null_checks(p, i, at) ==
    LET next == Get(p, i + 1)
        null == next \in {"null", "empty", "missing"}
        not_null == next = "not" /\ Get(p, i + 2) \in {"null", "empty"}
    IN  IF i \notin p.used /\ Get(p, i) = "is" /\ (null \/ not_null) /\ at /= Nowhere
        THEN Use(PushFilter(p, at.column, IF null THEN "is_null" ELSE "is_not_null", <<>>),
                 at.from..(IF null THEN i + 1 ELSE i + 2))
        ELSE p

comparison_phrases ==
    {<< <<"greater", "than">>, "gt">>, << <<"more", "than">>, "gt">>, << <<"less", "than">>, "lt">>,
     << <<"fewer", "than">>, "lt">>, << <<"at", "least">>, "gte">>, << <<"at", "most">>, "lte">>,
     << <<"over">>, "gt">>, << <<"under">>, "lt">>}
parse_comparisons(p, i, at) ==
    LET here == {c \in comparison_phrases :
                    /\ SubSeq(p.words, i, Min({i + Len(c[1]) - 1, Len(p.words)})) = c[1]
                    /\ IsNumber(Get(p, i + Len(c[1])))}
        c == CHOOSE c \in here : TRUE
        value_at == i + Len(c[1])
    IN  IF i \notin p.used /\ here /= {} /\ at /= Nowhere
        THEN Use(PushFilter(p, at.column, c[2], <<Lexicon.numbers[Get(p, value_at)]>>),
                 at.from..value_at)
        ELSE p

parse_equalities(p, i, at) ==
    LET negated == Get(p, i + 1) = "not"
        value_at == IF negated THEN i + 2 ELSE i + 1
        raw == Get(p, value_at)
        value == IF is_numeric(Column(Table, at.column).type) /\ IsNumber(raw)
                 THEN Lexicon.numbers[raw] ELSE Text(raw)
    IN  IF /\ i \notin p.used /\ Get(p, i) \in {"is", "equals", "=", "=="}
           /\ value_at \in DOMAIN p.words \ p.used /\ raw \notin STOPWORDS
           /\ at /= Nowhere
        THEN Use(PushFilter(p, at.column, IF negated THEN "ne" ELSE "eq", <<value>>),
                 at.from..value_at)
        ELSE p

(* ---------------------------- the passes: shape ------------------------ *)

(* Mutant: the words of an ordering may be used again.                     *)
OrderWithoutUse(p, i, at) ==
    IF Get(p, i) \in {"sorted", "ordered", "order"} /\ Get(p, i + 1) = "by" /\ at /= Nowhere
    THEN [p EXCEPT !.order_by = Append(@, OrderSpec(at.column, TRUE))]
    ELSE p

parse_explicit_order(p, i, at) ==
    LET descending == Get(p, at.to + 1) \in {"desc", "descending", "highest", "down"}
    IN  IF /\ Get(p, i) \in {"sorted", "ordered", "order"} /\ Get(p, i + 1) = "by"
           /\ at /= Nowhere
        THEN Use([p EXCEPT !.order_by = Append(@, OrderSpec(at.column, ~descending))],
                 i..(IF descending THEN at.to + 1 ELSE at.to))
        ELSE p

default_metric_for(column) ==
    LET func == IF column.aggregation /= "" THEN column.aggregation
                ELSE IF is_numeric(column.type) THEN "sum" ELSE "count"
    IN  IF func = "count" THEN MetricSpec("count", Star) ELSE MetricSpec(func, column.name)

(* The sort column after "by" and, when what stands before it names a      *)
(* column, the grouping.                                                   *)
RankBy(p, from, by, at, ascending) ==
    LET group == resolve(SelectSeq(SubSeq(p.words, from, by - 1), LAMBDA w : w \notin STOPWORDS))
        metric == default_metric_for(Column(Table, at.column))
    IN  IF by = 0 \/ at = Nowhere THEN p
        ELSE Use(IF group /= NoColumn
                 THEN [p EXCEPT !.group_by = Append(@, group), !.metrics = Append(@, metric),
                                !.order_by = Append(@, OrderSpec(metric_alias(metric), ascending))]
                 ELSE [p EXCEPT !.order_by = Append(@, OrderSpec(at.column, ascending))],
                 from..at.to)

bottom == {"bottom", "lowest", "smallest", "cheapest"}
top == {"top", "highest", "largest", "biggest", "best"}
neutral == {"first", "limit", "any"}
parse_top_n(p, i) ==
    LET next == Get(p, i + 1)
        by == First({j \in DOMAIN p.words : j >= i + 2 /\ p.words[j] = "by"})
    IN  IF /\ i \notin p.used /\ Get(p, i) \in bottom \cup top \cup neutral
           /\ IsInteger(next) /\ Lexicon.integers[next] >= 0
        THEN RankBy(Use([p EXCEPT !.limit = Lexicon.integers[next]], {i, i + 1}),
                    i + 2, by, column_after(p, by + 1), Get(p, i) \in bottom)
        ELSE p

ranking_words == {"which", "what", "who"}
parse_subject(p, at) ==
    LET c == Column(Table, at.column)
        groupable == \/ c.semantic \in {"category", "country", "id", "email"}
                     \/ c.type = "utf8" /\ c.aggregation = ""
    IN  IF /\ p.group_by = <<>> /\ Get(p, 1) \in ranking_words
           /\ Get(p, 2) \notin {"is", "are", "was", "were"}
           /\ at /= Nowhere /\ groupable
        THEN Use([p EXCEPT !.group_by = <<at.column>>], at.from..at.to)
        ELSE p

parse_group_by(p, i, at) ==
    IF /\ i \notin p.used /\ p.group_by = <<>>
       /\ Get(p, i) \in {"by", "per", "across", "each"} /\ at /= Nowhere
    THEN Use([p EXCEPT !.group_by = <<at.column>>], {i} \cup at.from..at.to)
    ELSE p

aggregate_word ==
    [w \in {"total", "sum", "summed", "revenue", "spend"} |-> "sum"] @@
    [w \in {"average", "avg", "mean"} |-> "avg"] @@
    [w \in {"minimum", "min", "earliest"} |-> "min"] @@
    [w \in {"maximum", "max", "latest"} |-> "max"]

metric_is_possible(func, c) ==
    CASE func = "count" -> TRUE
      [] func \in {"sum", "avg"} -> is_numeric(c.type) /\ c.semantic \notin hostile
      [] OTHER -> is_ordered(c.type)

(* The only column that declares the function, the only currency, or the   *)
(* only number.                                                            *)
default_measure(func) ==
    LET declared == SelectSeq(Table, LAMBDA c : c.aggregation = func)
        currency == SelectSeq(Table, LAMBDA c : c.semantic = "currency")
        numeric == SelectSeq(Table, LAMBDA c : is_numeric(c.type) /\ c.semantic \notin hostile)
    IN  CASE Len(declared) = 1 -> declared[1].name
          [] Len(currency) = 1 -> currency[1].name
          [] Len(numeric) = 1 -> numeric[1].name
          [] OTHER -> NoColumn

PushMetric(p, func, column, positions) ==
    Use([p EXCEPT !.metrics = Append(@, MetricSpec(func, column))], positions)

(* A count, else the first function word with its column, else the first   *)
(* column that says how it is aggregated.                                  *)
NamedMetric(p, i, func, column, at) ==
    IF column = NoColumn \/ ~metric_is_possible(func, Column(Table, column)) THEN Fail(p)
    ELSE PushMetric(p, func, column, {i} \cup (IF at = Nowhere THEN {} ELSE at.from..at.to))
MetricOf(p, count, named, func, at, implied, measure) ==
    CASE count > 0 -> PushMetric(p, "count", Star, {count})
      [] named > 0 -> NamedMetric(p, named, func, IF at = Nowhere THEN default_measure(func) ELSE at.column, at)
      [] implied > 0 -> PushMetric(p, Column(Table, measure).aggregation, measure, {implied})
      [] OTHER -> p
parse_metrics(p) ==
    LET free == DOMAIN p.words \ p.used
        counts(i) == \/ Get(p, i) \in {"count", "counts"}
                     \/ Get(p, i) = "how" /\ Get(p, i + 1) = "many"
                     \/ Get(p, i) = "number" /\ Get(p, i + 1) = "of"
        named == First({i \in free : Get(p, i) \in DOMAIN aggregate_word})
        declares(c) == c /= NoColumn /\ Column(Table, c).aggregation /= ""
        implied == First({i \in free : Get(p, i) \notin STOPWORDS /\ declares(resolve(<<Get(p, i)>>))})
    IN  MetricOf(p, First({i \in free : counts(i)}), named, aggregate_word[Get(p, named)],
                 column_after(p, named + 1), implied, resolve(<<Get(p, implied)>>))

(* ------------------------------- the result ---------------------------- *)

DEFAULT_RANKING_LIMIT == 10
listing == {"show", "list", "find", "get", "select", "fetch", "display", "give"}

(* A ranking or a limit over groups orders them by their first metric.     *)
Finished(p, aggregating, ranking, metrics) ==
    IF /\ ~aggregating /\ p.filters = <<>> /\ p.limit = None /\ p.order_by = <<>>
       /\ ToSet(p.words) \cap listing = {}
    THEN Refused
    ELSE [ok |-> TRUE, request |->
            [operation |-> IF aggregating THEN "aggregate" ELSE "select",
             columns |-> <<>>, filters |-> p.filters, group_by |-> p.group_by, metrics |-> metrics,
             order_by |-> IF p.order_by = <<>> /\ aggregating /\ (p.limit /= None \/ ranking)
                          THEN <<OrderSpec(metric_alias(metrics[1]), FALSE)>> ELSE p.order_by,
             limit |-> IF ranking /\ p.limit = None THEN DEFAULT_RANKING_LIMIT ELSE p.limit,
             offset |-> None]]
finish_request(p) ==
    IF p.error /= "" THEN Refused
    ELSE Finished(p, p.metrics /= <<>> \/ p.group_by /= <<>>, Get(p, 1) \in ranking_words /\ p.group_by /= <<>>,
                  IF p.group_by /= <<>> /\ p.metrics = <<>> THEN <<MetricSpec("count", Star)>> ELSE p.metrics)

(* The passes in the order of translate; each looks at every word in turn  *)
(* but the last ones, which run once.  An error ends the translation.      *)
passes == <<"relative time", "absolute time", "bare year", "null checks", "comparisons", "equalities",
            "explicit order", "top n", "subject", "group by", "metrics">>
Step(pass, p, i) ==
    CASE p.error /= "" -> p
      [] pass = "relative time" -> parse_relative_time(p, i, time_column_near(p, i))
      [] pass = "absolute time" -> parse_absolute_time(p, i, time_column_near(p, i))
      [] pass = "bare year" -> parse_bare_year(p, i, time_column_near(p, i))
      [] pass = "null checks" -> parse_null_checks(p, i, column_before(p, i))
      [] pass = "comparisons" -> parse_comparisons(p, i, column_before(p, i))
      [] pass = "equalities" -> parse_equalities(p, i, column_before(p, i))
      [] pass = "explicit order" -> parse_explicit_order(p, i, column_after(p, i + 2))
      [] pass = "top n" -> parse_top_n(p, i)
      [] pass = "group by" -> parse_group_by(p, i, column_after(p, i + 1))
      [] pass = "subject" /\ i = 1 -> parse_subject(p, column_after(p, 2))
      [] pass = "metrics" /\ i = 1 -> parse_metrics(p)
      [] OTHER -> p
Pass(pass, p) ==
    LET after[i \in 0..Len(p.words)] == IF i = 0 THEN p ELSE Step(pass, after[i - 1], i)
    IN  IF p.error = "" THEN after[Len(p.words)] ELSE p
parsed(words, now) ==
    LET after[k \in 0..Len(passes)] ==
            IF k = 0 THEN Parser(words, now) ELSE Pass(passes[k], after[k - 1])
    IN  after[Len(passes)]

(* translate: the tables are given by the words that match their names.    *)
translate(words, now, tables) ==
    IF \/ tables = <<>> \/ words = <<>>
       \/ ~pick_table(words, tables) \/ reject_multi_table(words, tables)
    THEN Refused
    ELSE finish_request(parsed(words, now))

=============================================================================
