----------------------------- MODULE SegmentSet -----------------------------
(***************************************************************************)
(* The segments of a partition as the compaction policy sees them, over a  *)
(* long run of flushes, suppressions and compactions (table.rs,            *)
(* compaction.rs).  Module Partition has the crash-safe mechanics with few *)
(* segments; here only the facts the policy decides on are kept, so that   *)
(* many segments and several rounds of the policy fit.                     *)
(*                                                                         *)
(* A file's size stands for its row count: suppression does not shrink it. *)
(***************************************************************************)
EXTENDS Compaction

CONSTANTS
    FlushRows,     \* row counts a flush may produce
    MaxFlushes     \* bound on the exploration

ASSUME SegmentSetAssumption ==
    /\ FlushRows \subseteq Nat \ {0}
    /\ MaxFlushes \in Nat
    /\ RatioNum > 0

VARIABLES
    facts,             \* one fact per segment
    next_segment_id,
    flushes

vars == <<facts, next_segment_id, flushes>>

Segment(id, rows) == [id |-> id, rows |-> rows, bytes |-> rows, suppressed |-> 0]

Init ==
    /\ facts = {}
    /\ next_segment_id = 1
    /\ flushes = 0

\* flush_locked adds one segment with nothing suppressed.
Flush(rows) ==
    /\ flushes < MaxFlushes
    /\ flushes' = flushes + 1
    /\ facts' = facts \cup {Segment(next_segment_id, rows)}
    /\ next_segment_id' = next_segment_id + 1

\* suppress: an update or a delete displaces one more row of a segment.
Suppress(f) ==
    /\ f.suppressed < f.rows
    /\ facts' = (facts \ {f}) \cup {[f EXCEPT !.suppressed = @ + 1]}
    /\ UNCHANGED <<next_segment_id, flushes>>

Live(f) == f.rows - f.suppressed

\* compact_locked: the chosen segments become one, or none when no row of
\* theirs survives.
Compact ==
    LET chosen == { f \in facts : f.id \in select(facts) }
        kept   == MapThenSumSet(Live, chosen)
    IN  /\ chosen # {}
        /\ facts' = (facts \ chosen)
                      \cup (IF kept = 0 THEN {} ELSE {Segment(next_segment_id, kept)})
        /\ next_segment_id' = next_segment_id + 1
        /\ UNCHANGED flushes

Next ==
    \/ \E n \in FlushRows : Flush(n)
    \/ \E f \in facts : Suppress(f)
    \/ Compact

Spec == Init /\ [][Next]_vars

-----------------------------------------------------------------------------
(* Properties.                                                             *)

\* Types, and that no segment has more suppressed rows than rows: a bitmap
\* counts each displaced row once (set_suppressed, dead_ratio).
TypeOK ==
    /\ facts \subseteq [id : Nat, rows : Nat, bytes : Nat, suppressed : Nat]
    /\ \A f \in facts : f.suppressed <= f.rows /\ f.id < next_segment_id
    /\ next_segment_id \in Nat /\ flushes \in Nat

Suppressed(f) == f.suppressed

\* What there is left for compaction to gain.
Work == Cardinality(facts) + MapThenSumSet(Suppressed, facts)

\* Compaction converges: every merge leaves fewer segments or fewer suppressed
\* rows, so asking the policy again and again comes to rest instead of
\* rewriting the same live rows for ever.
Converges == [][Compact => Work' < Work]_vars

\* No merge reads more than max_input_bytes, takes more than max_inputs
\* segments, or rewrites a single segment that is not mostly dead.
MergesAreBounded ==
    LET chosen == { f \in facts : f.id \in select(facts) }
    IN  /\ MapThenSumSet(Bytes, chosen) <= MaxInputBytes
        /\ Cardinality(chosen) <= MaxInputs
        /\ Cardinality(chosen) = 1 => \A f \in chosen : IsDead(f)

=============================================================================
