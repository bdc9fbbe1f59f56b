SPECIFICATION Spec
CONSTANTS
    Keys = {k1, k2}
    Values = {v1, v2}
    None = None
    Readers = {r1}
    MaxWrites = 4
    MaxFlushes = 2
    MaxCompactions = 1
    MaxReads = 1
INVARIANTS ScanIsSnapshot GetIsCurrentIfUndisturbed GetIsRightUnlessFlushed
CHECK_DEADLOCK FALSE
