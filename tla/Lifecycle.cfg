SPECIFICATION Spec
CONSTANTS
    Callers = {c1, c2}
    NumShards = 2
    MaxInits = 3
SYMMETRY Perms
CHECK_DEADLOCK FALSE
INVARIANTS TypeOK DirectoriesAreOwned InitializedServes CloseClosesAllTiers
