SPECIFICATION Spec
CONSTANTS
    Policies = {1, 2, 3}
    Base = 2
    Ids = {1, 2, 3, 4, 5}
    MaxKeys = 4
INVARIANTS NoFalseAlarm ChecksAllButLast
