SPECIFICATION Spec
CONSTANTS
    Writers = {w1, w2}
    Interval = 2
    MaxWrites = 3
    MaxStops = 2
    None = None
    Torn = Torn
SYMMETRY Perms
CHECK_DEADLOCK FALSE
INVARIANT FullReplay
