SPECIFICATION FairSpec
CONSTANTS
    Keys = {k1, k2}
    N = 3
    Workers = {w1, w2}
    EntryCap = 2
    ErrorCap = 4
    MayClose = TRUE
CHECK_DEADLOCK FALSE
INVARIANTS ReplayedInOrder ResultIsHonest
PROPERTY EndsUnlessErrorsOverflow
