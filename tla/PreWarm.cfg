SPECIFICATION FairSpec
CONSTANTS
    NumShards = 2
    NumKeys = 5
    Workers = {w1, w2}
    BatchSize = 2
    Bad = {1, 4}
    Unreadable = {2}
    MaxChanges = 1
    MayClose = TRUE
CHECK_DEADLOCK FALSE
INVARIANTS TypeOK EachEntryOnce WarmedIsComplete
PROPERTY EndsIfFewFail
