SPECIFICATION StoreSpec
CONSTANTS
    SyncEvery = 1
    PendingLimit = 100
    Lens = {1, 2}
    DATA_PAGE = 2
    SLOTS_PER_PAGE = 1
    MAX_STAGED_WRITES = 1
    VersionMod = 3
    CounterMod = 5
    InOrder = FALSE
    CrashKinds = {"kill"}
    MaxOps = 4
    MaxIds = 3
    MaxCell = 7
    MaxCrashes = 1
    RebuildLimit = 2
    MaxLosses = 1
    MaxDamage = 1
INVARIANTS StaysOpenable
PROPERTIES RebuildComplete
