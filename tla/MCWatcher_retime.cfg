SPECIFICATION Spec
CONSTANTS
    Options <- TwoTimings
    Slots = {s1, s2}
    AgeCap = 5
    ProbeCap = 2
    MaxTerm = 2
    MaxPause = 1
    MaxStarts = 1
    RpcTicks = 1
SYMMETRY Interchangeable
INVARIANTS
    FencedInTime
    DeadMan
PROPERTY PromotesNewest
