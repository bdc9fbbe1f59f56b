------------------------------ MODULE Lowering ------------------------------
(***************************************************************************)
(* From a validated query to the linear pipeline the executor runs         *)
(* (adb-planner physical.rs), and the pruning atoms of its filter          *)
(* (optimize.rs).                                                          *)
(***************************************************************************)
EXTENDS Plans

(* ------------------------------ pruning atoms -------------------------- *)

Atom(column, op, values) == [column |-> column, op |-> op, values |-> values]
pruning_ops == comparison \ {"ne"}

(* The atoms of one conjunct: comparisons of a column with a non-null      *)
(* constant, in either order; everything else gives none.                  *)
AtomsOf(x) ==
    LET on_column(a, b) == a.e = "column" /\ b.e = "literal" /\ b.value /= Null
    IN  CASE x.e = "binary" /\ x.op \in pruning_ops ->
               IF on_column(x.left, x.right)
               THEN <<Atom(x.left.name, x.op, <<x.right.value>>)>>
               ELSE IF on_column(x.right, x.left)
                    THEN <<Atom(x.right.name, flipped[x.op], <<x.left.value>>)>>
                    ELSE <<>>
          [] x.e = "between" /\ ~x.negated /\ x.arg.e = "column" ->
               <<Atom(x.arg.name, "gte", <<x.low>>), Atom(x.arg.name, "lte", <<x.high>>)>>
          [] x.e = "in" /\ ~x.negated /\ x.arg.e = "column" /\ Null \notin ToSet(x.list) ->
               <<Atom(x.arg.name, "in", x.list)>>
          [] x.e \in {"isnull", "isnotnull"} /\ x.arg.e = "column" ->
               <<Atom(x.arg.name, x.e, <<>>)>>
          [] OTHER -> <<>>

extract_prune_atoms(x) == LET parts == conjuncts(x)
                          IN  FlattenSeq([i \in DOMAIN parts |-> AtomsOf(parts[i])])

(* -------------------------------- build -------------------------------- *)

Stage == [scan |-> 0, filter |-> 1, aggregate |-> 2, project |-> 3, sort |-> 4, limit |-> 5]
NoFilter == [e |-> "none"]
NoAggregate == [n |-> "none"]

Empty == [ok |-> TRUE, stage |-> 0, scan_columns |-> <<>>, filter |-> NoFilter,
          aggregate |-> NoAggregate, renamed |-> FALSE, rename |-> <<>>,
          sort |-> <<>>, limit |-> None, offset |-> 0]

(* rename is a sequence of <<source, alias>>; the first match of an alias. *)
SourceOf(rename, alias) == rename[CHOOSE i \in DOMAIN rename :
    rename[i][2] = alias /\ \A j \in 1..(i - 1) : rename[j][2] /= alias][1]
Aliases(rename) == {rename[i][2] : i \in DOMAIN rename}

(* The only two nodes that may come after a later stage.                   *)
equivalent(p, node) ==
    /\ p.stage = Stage.project
    /\ \/ node.n = "filter" /\ p.aggregate = NoAggregate
       \/ node.n = "aggregate"

min(a, b) == IF a < b THEN a ELSE b

(* Put one node into the pipeline p.                                       *)
place(p, node) ==
    LET in_order == Stage[node.n] >= p.stage \/ equivalent(p, node)
        q == [p EXCEPT !.stage = IF Stage[node.n] > @ THEN Stage[node.n] ELSE @]
        base == [a \in Aliases(p.rename) |-> SourceOf(p.rename, a)]
    IN  IF ~p.ok \/ ~in_order THEN Refused
        ELSE CASE node.n = "scan" -> [q EXCEPT !.scan_columns = node.columns]
               [] node.n = "filter" ->
                    LET x == IF p.renamed THEN rewrite_columns(node.predicate, base) ELSE node.predicate
                    IN  [q EXCEPT !.filter = IF @ = NoFilter THEN x ELSE Binary("and", @, x)]
               [] node.n = "aggregate" ->
                    IF \/ p.aggregate /= NoAggregate
                       \/ p.renamed /\ \E i \in DOMAIN p.rename : p.rename[i][1] /= p.rename[i][2]
                    THEN Refused
                    ELSE [q EXCEPT !.aggregate = node, !.renamed = FALSE, !.rename = <<>>]
               [] node.n = "project" ->
                    [q EXCEPT !.renamed = TRUE, !.rename = [i \in DOMAIN node.exprs |->
                        LET source == node.exprs[i][1].name
                        IN  <<IF source \in DOMAIN base THEN base[source] ELSE source, node.exprs[i][2]>>]]
               [] node.n = "sort" -> IF p.sort /= <<>> THEN Refused ELSE [q EXCEPT !.sort = node.keys]
               [] node.n = "limit" ->
                    [q EXCEPT !.limit = IF @ = None THEN node.limit ELSE min(@, node.limit),
                              !.offset = @ + node.offset]

(* Projection pushdown: the columns the pipeline touches.                  *)
SortColumns(p) == {p.sort[i].column : i \in DOMAIN p.sort}

(* Mutant: the columns of the filter are forgotten.                        *)
needed_by_output(p) ==
    IF p.aggregate /= NoAggregate
    THEN ToSet(p.aggregate.group_by) \cup
         ({p.aggregate.aggregates[i].column : i \in DOMAIN p.aggregate.aggregates} \ {Star})
    ELSE IF p.renamed THEN {p.rename[i][1] : i \in DOMAIN p.rename} ELSE ToSet(p.scan_columns)

needed(p) ==
    (IF p.filter = NoFilter THEN {} ELSE referenced_columns(p.filter)) \cup
    IF p.aggregate /= NoAggregate
    THEN ToSet(p.aggregate.group_by) \cup
         ({p.aggregate.aggregates[i].column : i \in DOMAIN p.aggregate.aggregates} \ {Star})
    ELSE (IF p.renamed THEN {p.rename[i][1] : i \in DOMAIN p.rename} ELSE ToSet(p.scan_columns))
         \cup {IF p.renamed THEN SourceOf(p.rename, c) ELSE c : c \in SortColumns(p)}

projection_of(p) ==
    LET wanted == SelectSeq(p.scan_columns, LAMBDA c : c \in needed(p))
    IN  IF wanted = <<>> THEN SubSeq(p.scan_columns, 1, 1) ELSE wanted

(* build: the physical plan, or a refusal (a shape the pipeline cannot     *)
(* run, a sort by a column the projection removed, nothing to read).       *)
build(validated) ==
    LET placed[k \in 0..Len(validated.query)] ==
            IF k = 0 THEN Empty ELSE place(placed[k - 1], validated.query[k])
        p == placed[Len(validated.query)]
        projection == projection_of(p)
        lost_key == p.aggregate = NoAggregate /\ p.renamed /\ ~SortColumns(p) \subseteq Aliases(p.rename)
    IN  IF ~p.ok THEN Refused
        ELSE IF lost_key \/ projection = <<>> THEN Refused
        ELSE [ok |-> TRUE, projection |-> projection,
              pruning |-> IF p.filter = NoFilter THEN <<>> ELSE extract_prune_atoms(p.filter),
              filter |-> p.filter, aggregate |-> p.aggregate,
              renamed |-> p.renamed, rename |-> p.rename,
              sort |-> p.sort, limit |-> p.limit, offset |-> p.offset,
              output |-> validated.schema]

is_streaming_limit(plan) == plan.limit /= None /\ plan.sort = <<>> /\ plan.aggregate = NoAggregate
fetch_rows(plan) == IF plan.limit = None THEN None ELSE plan.limit + plan.offset

=============================================================================
