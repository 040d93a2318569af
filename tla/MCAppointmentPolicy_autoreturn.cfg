SPECIFICATION Spec
CONSTANTS
    i1 = i1
    i2 = i2
    Aliases = {i1, i2}
    NoOne = NoOne
    Rank <- AFirst
    DampenCycles = 3
    MinMisses = 2
    StartGrace = 1
    Threshold = 1
    Window = 3
    Cooldown = 3
    BackoffBase = 1
    BackoffMax = 2
    PhiSamples = 1
    SurelyDead = 3
    MinInterval = 1
    RefreshAge = 2
    AutoreturnDelay = 4
    OverrideTicks = 2
    AgeCap = 4
    WaitCap = 5
INVARIANT AutoReturns
