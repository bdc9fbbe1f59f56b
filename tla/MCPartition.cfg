SPECIFICATION FairSpec
CONSTANTS
    k1 = k1  k2 = k2  v1 = v1  v2 = v2
    None = None
    Keys = {k1, k2}
    Values = {v1, v2}
    Batches <- MCBatches
    MemtableMaxRows = 3
    AutoCompact = TRUE
    MinSegments = 2
    MaxInputBytes = 10
    MaxInputs = 3
    RatioNum = 1
    RatioDen = 2
    Faults = {"write", "sync", "segment", "manifest", "truncate", "reopen", "delete"}
    MaxLsn = 3
    MaxCrashes = 2
    MaxFaults = 1
INVARIANTS TypeOK Durable IndexExact ServesTruth ManifestComplete NoOrphans
PROPERTIES FreshLsn ImmutableSegments ImplementsKeyedStore LockReleased
CHECK_DEADLOCK FALSE
