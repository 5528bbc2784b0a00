SPECIFICATION Spec
CONSTANTS
    Clients = {c1, c2}
    Keys = {k1}
    Calls = {"set", "delete", "get", "setToL1"}
    MaxVersion = 2
    PromoSlots = {p1, p2}
    UseWAL = TRUE
    L1Refusals = TRUE
    TieringOn = TRUE
    PreWarmOn = FALSE
    Inherited = {}
    None = None
CHECK_DEADLOCK FALSE
SYMMETRY Perms
INVARIANTS TypeOK TiersAgree
