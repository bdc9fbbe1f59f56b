SPECIFICATION Spec
CONSTANTS
    FrameHeader = 2
    PayloadLens = {1, 2, 4}
    MaxRecord = 3
    LenMod = 8
    Faults = {"write", "sync", "reopen"}
    MaxLsn = 5
    MaxCrashes = 2
INVARIANT AckedSurvive
PROPERTY AckedLsnNotReused
CHECK_DEADLOCK FALSE
