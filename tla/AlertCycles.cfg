SPECIFICATION Spec
CONSTANTS
    u1 = u1
    u2 = u2
    User = {u1}
    Watch = {1, 2}
    Owner <- MCOwner
    Sched = {s1, s2}
    Manual = {}
    Value = {v1}
    DayLength = 1
    DigestSlot = 0
    MaxTime = 1
    MaxFaults = 1
    MaxLosses = 0
    MaxEdits = 1
    NoPrice = NoPrice
    NoDay = NoDay
    NoUser = NoUser
SYMMETRY Symmetry
INVARIANTS
    TypeOK
    RepeatsNeedFaults
PROPERTIES
    ToldNeverGoesBack
