SPECIFICATION MCSpec
CONSTANTS
    MagicA = MagicA
    MagicB = MagicB
    Magic <- MCMagic
    Other = x
    PayloadLens = {0, 1}
    EndOffset = 6
    Chunks = {1, 2}
    DrainFactor = 1
    PAGE = 2
    SLOTS_PER_PAGE = 2
    Numbers = {0, 1, 2, 6}
    Damageable = {0}
    Offsets = {0, 1, 4, 6}
    Lengths = {1, 3}
    MaxBatch = 3
    SplitSize = 3
CHECK_DEADLOCK FALSE
INVARIANTS VisitsWhatIsThere BufferInPlace BufferBounded BatchAsSingles
PROPERTIES WalkEnds
