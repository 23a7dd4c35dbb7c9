SPECIFICATION HeapSpecification
SYMMETRY Symmetry
CONSTANTS
    PAGE = 2
    Buckets = {b1, b2}
    Lens = {1, 2}
    initial_size = 6
    growth = 2
    min_extent = 2
    region_slots = 2
    DiskMayFill = TRUE
    MaxPlaced = 1
    MaxGrants = 20
    SyncEvery = 1
    SLOTS_PER_PAGE = 2
    ROWS_PER_PAGE = 1
    MAX_STAGED_WRITES = 2
    InOrder = FALSE
    Kinds = {"read", "update", "delete", "close"}
    MaxOps = 3
    MaxIds = 6
    MaxRows = 8
    MaxCell = 14
    MaxFaults = 2
    MaxLosses = 1
CHECK_DEADLOCK FALSE
INVARIANTS BucketTypeOK AllocatorFresh RegistryFirst PanicsOnlyAtHalfBucket
PROPERTIES MapContract KillsKeepCommitted
