SPECIFICATION Spec
CONSTANTS
    Luns = {l1, l2}
    Backed = {l1, l2}
    HasXbl = TRUE
    Xbl = xbl
    Damages <- SomeDamage
    Caller = "resume"
    MaxFaults = 3
SYMMETRY LunSymmetry
INVARIANTS Bootable ReadyMeansSwitched DamageNeverBlessed FinalizeRestores
PROPERTIES OneTableAtATime ImplementsFailsafe
