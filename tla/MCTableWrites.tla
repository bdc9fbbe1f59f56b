--------------------------- MODULE MCTableWrites ----------------------------
(* Model-checking instance of TableWrites: two keys in two partitions.      *)
EXTENDS TableWrites

CONSTANTS k1, k2

MCRoute == [k \in {k1, k2} |-> IF k = k1 THEN 1 ELSE 2]

=============================================================================
