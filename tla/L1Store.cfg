SPECIFICATION StoreSpec
CONSTANTS
    Clients = {c1, c2}
    NumShards = 2
    MaxCapacity = 1
    Found = 1
    MaxWrites = 5
CHECK_DEADLOCK FALSE
SYMMETRY Perms
INVARIANTS OvershootBounded PromisedSurvives
