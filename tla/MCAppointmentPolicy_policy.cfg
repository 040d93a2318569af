SPECIFICATION Spec
CONSTANTS
    i1 = i1
    i2 = i2
    Aliases = {i1, i2}
    NoOne = NoOne
    Rank <- AFirst
    DampenCycles = 2
    MinMisses = 2
    StartGrace = 2
    Threshold = 1
    Window = 5
    Cooldown = 5
    BackoffBase = 2
    BackoffMax = 2
    PhiSamples = 1
    SurelyDead = 3
    MinInterval = 1
    RefreshAge = 2
    AutoreturnDelay = 3
    OverrideTicks = 1
    AgeCap = 3
    WaitCap = 0
INVARIANTS
    TypeOK
    FailoverDampened
    FlapBound
    LeaderReplaced
