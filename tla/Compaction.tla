----------------------------- MODULE Compaction -----------------------------
(***************************************************************************)
(* The compaction policy of adb-storage (compaction.rs): which segments of *)
(* a partition one merge takes.  It is only the decision; the merge itself *)
(* is in module Partition.  A fact is what the policy knows of a segment:  *)
(* its id, its row count, its size and how many of its rows are            *)
(* suppressed.                                                             *)
(*                                                                         *)
(* The f64 ratio of the code is the fraction RatioNum / RatioDen.          *)
(***************************************************************************)
EXTENDS Integers, FiniteSets, FiniteSetsExt

CONSTANTS
    MinSegments,     \* merge small segments once there are this many
    MaxInputBytes,   \* never feed more than this into one merge
    MaxInputs,       \* nor more than this many segments
    RatioNum,        \* rewrite a segment when at least this
    RatioDen         \*   fraction of its rows is suppressed

ASSUME PolicyAssumption ==
    /\ {MinSegments, MaxInputBytes, MaxInputs, RatioNum} \subseteq Nat
    /\ RatioDen \in Nat \ {0}

\* Mutant: the live fraction is compared instead of the dead one.
IsAlive(f) ==
    IF f.rows = 0 THEN RatioNum <= RatioDen
                  ELSE (f.rows - f.suppressed) * RatioDen >= RatioNum * f.rows

\* dead_ratio >= suppressed_ratio, where an empty segment counts as all dead.
IsDead(f) ==
    IF f.rows = 0 THEN RatioNum <= RatioDen
                  ELSE f.suppressed * RatioDen >= RatioNum * f.rows

\* The facts ahead of each: in age order, and in size order.
ByAge(facts) == [f \in facts |-> { g \in facts : g.id < f.id }]

BySize(facts) ==
    [f \in facts |-> { g \in facts : g.bytes < f.bytes \/ (g.bytes = f.bytes /\ g.id < f.id) }]

Bytes(f) == f.bytes

\* Mutant: one input too many.
TakeOneMore(ahead) ==
    { f \in DOMAIN ahead :
        /\ Cardinality(ahead[f]) <= MaxInputs
        /\ MapThenSumSet(Bytes, ahead[f] \cup {f}) <= MaxInputBytes }

\* The loop that takes facts in order until the next one breaks the input cap
\* or the byte budget: a prefix of the order, stopped at the first misfit.
TakeWhileAffordable(ahead) ==
    { f \in DOMAIN ahead :
        /\ Cardinality(ahead[f]) < MaxInputs
        /\ MapThenSumSet(Bytes, ahead[f] \cup {f}) <= MaxInputBytes }

\* The ids one merge takes, {} for none: mostly-dead segments first, oldest
\* first; otherwise, once there are enough segments, the smallest ones, and
\* then at least two.
select(facts) ==
    LET dead   == TakeWhileAffordable(ByAge({f \in facts : IsDead(f)}))
        small  == TakeWhileAffordable(BySize(facts))
        chosen == IF dead # {} THEN dead
                  ELSE IF Cardinality(facts) < MinSegments \/ Cardinality(small) < 2
                       THEN {} ELSE small
    IN  { f.id : f \in chosen }

=============================================================================
