----------------------------- MODULE KeyedStore -----------------------------
(***************************************************************************)
(* What one partition promises its callers: a map from primary keys to     *)
(* rows, changed by one write at a time.  A write that was acknowledged    *)
(* survives a restart, unless the log was already damaged when it was      *)
(* acknowledged and no checkpoint covered it since: then a restart falls   *)
(* back to what it would have found before.  A write that was not          *)
(* acknowledged may still surface, as a whole, when the process restarts,  *)
(* unless a later write of the key or a checkpoint has superseded it.      *)
(*                                                                         *)
(* There is no log, memtable, segment or compaction here: module Partition *)
(* implements this specification with them.                                *)
(***************************************************************************)
CONSTANTS Keys, Values, None

VARIABLES
    store,     \* key -> value, or None
    current,   \* the write in progress: key -> new value (None: deleted)
    doubt,     \* writes that failed and may surface: key -> value
    damaged,   \* what is written to the log now, a restart does not find
    exposed    \* writes a restart loses: key -> what it finds instead

Change == UNION { [K -> Values \cup {None}] : K \in (SUBSET Keys) \ {{}} }

Without(f, K) == [k \in DOMAIN f \ K |-> f[k]]

\* g, overridden by f where f is defined.
Over(f, g) == [k \in DOMAIN f \cup DOMAIN g |-> IF k \in DOMAIN f THEN f[k] ELSE g[k]]

\* What a restart finds, the write in progress left aside.
Fallback == Over(exposed, Over(doubt, store))

Init ==
    /\ store = [k \in Keys |-> None]
    /\ current = <<>> /\ doubt = <<>>
    /\ damaged = FALSE /\ exposed = <<>>

Begin ==
    /\ current = <<>>
    /\ current' \in Change
    /\ UNCHANGED <<store, doubt, damaged, exposed>>

\* The write takes effect.  It supersedes whatever was in doubt on its keys; on
\* a damaged log it supersedes nothing there.
Acknowledge ==
    /\ current # <<>>
    /\ store' = Over(current, store)
    /\ current' = <<>>
    /\ IF damaged
       THEN /\ exposed' = [k \in DOMAIN exposed \cup DOMAIN current |-> Fallback[k]]
            /\ UNCHANGED doubt
       ELSE /\ doubt' = Without(doubt, DOMAIN current)
            /\ UNCHANGED exposed
    /\ UNCHANGED damaged

\* The caller gets an error, and the write may or may not surface later.
Fail ==
    /\ \E c \in Change : doubt' = Over(c, doubt)
    /\ UNCHANGED <<store, current, damaged, exposed>>

Damage ==
    /\ damaged' = TRUE
    /\ UNCHANGED <<store, current, doubt, exposed>>

\* The log is replaced only when a checkpoint has covered every exposed write.
Repair ==
    /\ exposed = <<>>
    /\ damaged' = FALSE
    /\ UNCHANGED <<store, current, doubt, exposed>>

\* A checkpoint covers failed writes, which can no longer surface, and exposed
\* ones, which are safe from then on.  Of an exposed write it does not cover it
\* may save that the old row is gone.
Checkpoint ==
    /\ \E K \in SUBSET DOMAIN doubt : doubt' = Without(doubt, K)
    /\ \E K \in SUBSET DOMAIN exposed : exposed' \in [K -> Values \cup {None}]
    /\ \A k \in DOMAIN exposed' : exposed'[k] \in {exposed[k], None}
    /\ UNCHANGED <<store, current, damaged>>

\* The process dies: everything that reached the disk counts.
Restart ==
    /\ store' = IF damaged THEN Fallback ELSE Over(current, Fallback)
    /\ current' = <<>> /\ doubt' = <<>> /\ exposed' = <<>>
    /\ UNCHANGED damaged

Next == Begin \/ Acknowledge \/ Fail \/ Damage \/ Repair \/ Checkpoint \/ Restart

Spec == Init /\ [][Next]_<<store, current, doubt, damaged, exposed>>

=============================================================================
