SPECIFICATION Spec
CONSTANTS
    k1 = k1  k2 = k2
    Keys = {k1, k2}
    Partitions = {1, 2}
    Route <- MCRoute
    Writers = {w1, w2}
    Evolvers = {e1}
    Faults = {"flush", "manifest"}
    MaxOps = 2
    MaxVersion = 3
    MaxRestarts = 1
    MaxFaults = 1
INVARIANTS AckedIsComplete NoBatchStraddles
PROPERTY InsertNeverReplaces
CHECK_DEADLOCK FALSE
