SPECIFICATION Spec
CONSTANTS
    MaxItems = 2
    MaxSize = 1
    MaxDead = 1
    MaxLoads = 3
    MaxCrashes = 2
    None = None
CHECK_DEADLOCK FALSE
INVARIANTS OneHolder SurvivesCrash Accounted
