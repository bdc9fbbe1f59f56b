SPECIFICATION Spec
CONSTANTS
    Tables = {t1, t2}
    DdlProcs = {d1, d2}
    Writers = {w1}
    FlushingWrites = TRUE
    Faults = {"sync", "delete", "open"}
    MaxLog = 4
    MaxWrites = 2
    MaxRestarts = 1
INVARIANTS LogIsCatalog SettledWhenQuiet NoAckedRowLost NewTableIsEmpty
CHECK_DEADLOCK FALSE
