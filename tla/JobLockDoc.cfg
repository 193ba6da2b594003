SPECIFICATION Spec
CONSTANTS
    t1 = t1
    t2 = t2
    x1 = x1
    x2 = x2
    Ticker = {t1}
    Job = {j1}
    Replica = {x1}
    Home <- MCHome
    MaxLosses = 0
    MaxCrashes = 1
    None = None
INVARIANTS
    RunningMeansBusy
