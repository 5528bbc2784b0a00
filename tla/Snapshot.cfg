SPECIFICATION Spec
CONSTANTS
    Keys = {k1, k2}
    Direct = {d1, d2}
    Room = 2
    MaxVersion = 3
    Keep = 1
    MaxStops = 1
    Checksum = Checksum
    None = None
SYMMETRY Perms
INVARIANTS TypeOK OneWriter PublishedIsWhole SnapshotIsExact NewestSurvives RestoredIsNewest
