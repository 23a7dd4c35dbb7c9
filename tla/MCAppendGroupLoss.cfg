SPECIFICATION Spec
CONSTANTS
    SyncEvery = 2
    PendingLimit = 100
    Lens = {1, 2}
    DATA_PAGE = 2
    SLOTS_PER_PAGE = 2
    MAX_STAGED_WRITES = 2
    VersionMod = 8
    CounterMod = 5
    InOrder = TRUE
    CrashKinds = {"kill"}
    MaxOps = 3
    MaxIds = 2
    MaxCell = 8
    MaxCrashes = 1
PROPERTIES CommittedStaysReadable
