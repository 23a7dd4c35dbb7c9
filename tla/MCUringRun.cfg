SPECIFICATION FairSpec
CONSTANTS
    N = 4
    Size <- MCSize
    DEPTH = 2
    SQ_SIZE = 2
CHECK_DEADLOCK FALSE
INVARIANTS TypeOK NothingInFlight OkMeansAll NeverTwice SqHasRoom
PROPERTIES DrainAfterError Terminates
