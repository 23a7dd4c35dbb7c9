SPECIFICATION Spec
CONSTANTS
    SyncEvery = 2
    PendingLimit = 5
    Lens = {1, 2}
    DATA_PAGE = 2
    SLOTS_PER_PAGE = 2
    MAX_STAGED_WRITES = 1
    VersionMod = 2
    CounterMod = 3
    InOrder = TRUE
    CrashKinds = {"kill"}
    MaxOps = 4
    MaxIds = 3
    MaxCell = 8
    MaxCrashes = 2
INVARIANTS SyncWindow AllocatorFresh
PROPERTIES NoStaleValue
