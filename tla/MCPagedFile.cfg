SPECIFICATION Spec
CONSTANTS
    PAGE = 3
    MAX_STAGED_WRITES = 2
    Pages = 3
    Lens = {1, 4}
    MaxStaged = 4
    MaxFaults = 1
CHECK_DEADLOCK FALSE
INVARIANTS TypeOK StagedApart
PROPERTIES FileContents ErrorLosesOnlyStaged
