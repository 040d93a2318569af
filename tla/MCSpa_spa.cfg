SPECIFICATION FairSpec
CONSTANTS
    Sockets = {k1, k2}
    NoSocket = NoSocket
    MaxTimers = 2
    viewer = viewer
    admin = admin
    Accounts = {viewer, admin}
    NoUser = NoUser
    Pages = {"cluster", "audit"}
    Home = "cluster"
    Rank <- TwoRanks
    Required <- TwoRequired
INVARIANTS
    TypeOK
    AdmittedView
    FeedPending
    IndicatorHonest
PROPERTY
    FeedReturns
