SPECIFICATION FairSpec
CONSTANTS
    SyncEvery = 1
    PendingLimit = 100
    Lens = {1, 2}
    DATA_PAGE = 2
    SLOTS_PER_PAGE = 2
    MAX_STAGED_WRITES = 2
    VersionMod = 8
    CounterMod = 5
    InOrder = FALSE
    CrashKinds = {"kill"}
    MaxOps = 4
    MaxIds = 3
    MaxCell = 7
    MaxCrashes = 2
INVARIANTS TypeOK IndexNeverAheadOfData
PROPERTIES Contract CallsReturn
