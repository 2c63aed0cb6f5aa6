SPECIFICATION CachedSpec
CONSTANTS
    Luns = {l1}
    Backed = {l1}
    HasXbl = FALSE
    Xbl = xbl
    Damages <- NoDamage
    Caller = "resume"
    MaxFaults = 1
    FsyncFails = FALSE
INVARIANTS BootableInAnyOrder
