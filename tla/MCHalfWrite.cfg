SPECIFICATION Spec
CONSTANTS
    k1 = k1  k2 = k2
    Keys = {k1, k2}
    Partitions = {1, 2}
    Route <- MCRoute
    Writers = {w1}
    Evolvers = {}
    Faults = {}
    MaxOps = 1
    MaxVersion = 2
    MaxRestarts = 1
    MaxFaults = 0
INVARIANT AllOrNothing
CHECK_DEADLOCK FALSE
