SPECIFICATION FairSpec
CONSTANTS
    Luns = {l1, l2}
    Backed = {l1, l2}
    HasXbl = TRUE
    Xbl = xbl
    Damages <- NoDamage
    Caller = "cycle"
    MaxFaults = 3
PROPERTIES UpdateCompletes
