SPECIFICATION CachedSpec
CONSTANTS
    Luns = {l1, l2, l3}
    Backed = {l1, l2}
    HasXbl = FALSE
    Xbl = xbl
    Damages <- SomeDamage
    Caller = "any"
    MaxFaults = 2
    FsyncFails = TRUE
SYMMETRY LunSymmetry
INVARIANTS BootableAfterPowerLoss ReadyIsDurable
