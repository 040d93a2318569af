SPECIFICATION Spec
CONSTANTS
    Options <- OnAndOff
    Slots = {s1, s2}
    AgeCap = 3
    ProbeCap = 1
    MaxTerm = 0
    MaxPause = 1
    MaxStarts = 2
    RpcTicks = 1
SYMMETRY Interchangeable
INVARIANTS
    TypeOK
    CtlExclusive
    FencedInTime
    DeadMan
