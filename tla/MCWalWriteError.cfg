SPECIFICATION Spec
CONSTANTS
    FrameHeader = 1
    PayloadLens = {1, 3}
    MaxRecord = 3
    LenMod = 8
    Faults = {"write"}
    MaxLsn = 5
    MaxCrashes = 2
INVARIANT NeverSilentlySkipped
CHECK_DEADLOCK FALSE
