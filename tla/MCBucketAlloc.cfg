SPECIFICATION FairSpec
CONSTANTS
    PAGE = 2
    Buckets = {b1, b2, b3}
    Lens = {1, 3}
    initial_size = 8
    growth = 4
    min_extent = 2
    region_slots = 2
    DiskMayFill = TRUE
    MaxPlaced = 4
    MaxGrants = 12
CHECK_DEADLOCK FALSE
INVARIANTS TypeOK ExtentsDisjoint RecordsDisjoint NumbersUnique ReplayFaithful
PROPERTIES GrantEnds
