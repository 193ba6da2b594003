SPECIFICATION Spec
CONSTANTS
    t1 = t1
    t2 = t2
    x1 = x1
    x2 = x2
    Ticker = {t1, t2}
    Job = {j1}
    Replica = {x1, x2}
    Home <- MCHome
    MaxLosses = 1
    MaxCrashes = 1
    None = None
INVARIANTS
    TypeOK
    OverlapNeedsLoss
    RunShowsRunning
PROPERTIES
    LockComesFree
    EveryJobEnds
    ImplementsLease
