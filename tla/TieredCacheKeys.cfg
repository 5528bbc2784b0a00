SPECIFICATION Spec
CONSTANTS
    Clients = {c1}
    Keys = {k1, k2}
    Calls = {"set", "delete", "setToL1"}
    MaxVersion = 2
    PromoSlots = {p1}
    UseWAL = FALSE
    L1Refusals = FALSE
    TieringOn = TRUE
    PreWarmOn = TRUE
    Inherited = {k1, k2}
    None = None
CHECK_DEADLOCK FALSE
SYMMETRY Perms
INVARIANT TiersAgree
