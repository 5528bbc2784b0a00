SPECIFICATION FairSpec
CONSTANTS
    Keys = {k1, k2, k3}
    Sizes = {1, 3}
    Unit = 2
    MemLimit = 4
    FreqCap = 3
    None = None
INVARIANTS TypeOK RingAccounting MemoryAccounting
PROPERTIES TrackingKept SetTerminates ImplementsLossyStore
