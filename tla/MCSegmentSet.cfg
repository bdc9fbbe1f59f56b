SPECIFICATION Spec
CONSTANTS
    MinSegments = 3
    MaxInputBytes = 5
    MaxInputs = 3
    RatioNum = 1
    RatioDen = 2
    FlushRows = {1, 3}
    MaxFlushes = 4
INVARIANT MergesAreBounded
PROPERTY Converges
CHECK_DEADLOCK FALSE
