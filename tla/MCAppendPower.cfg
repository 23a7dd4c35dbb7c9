SPECIFICATION Spec
CONSTANTS
    SyncEvery = 1
    PendingLimit = 100
    Lens = {1, 2}
    DATA_PAGE = 2
    SLOTS_PER_PAGE = 2
    MAX_STAGED_WRITES = 2
    VersionMod = 8
    CounterMod = 5
    InOrder = TRUE
    CrashKinds = {"power"}
    MaxOps = 3
    MaxIds = 3
    MaxCell = 8
    MaxCrashes = 2
INVARIANTS IndexNeverAheadOfData
