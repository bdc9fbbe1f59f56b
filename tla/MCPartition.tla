---------------------------- MODULE MCPartition -----------------------------
(* Model-checking instance of Partition: two keys, two values, batches that *)
(* repeat a key and batches that touch both.                                *)
EXTENDS Partition, TLC

CONSTANTS k1, k2, v1, v2

R(k, v) == [key |-> k, val |-> v]

MCBatches == { <<R(k1, v1)>>, <<R(k2, v1)>>, <<R(k1, v1), R(k2, v1), R(k1, v2)>> }

=============================================================================
