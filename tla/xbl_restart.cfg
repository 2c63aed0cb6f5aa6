SPECIFICATION Spec
CONSTANTS
    Luns = {l1}
    Backed = {l1}
    HasXbl = TRUE
    Xbl = xbl
    Damages <- NoDamage
    Caller = "any"
    MaxFaults = 1
INVARIANTS ReadyMeansSwitched
