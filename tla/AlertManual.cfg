SPECIFICATION Spec
CONSTANTS
    u1 = u1
    u2 = u2
    User = {u1}
    Watch = {1}
    Owner <- MCOwner
    Sched = {s1}
    Manual = {m1}
    Value = {v1}
    DayLength = 2
    DigestSlot = 1
    MaxTime = 3
    MaxFaults = 1
    MaxLosses = 1
    MaxEdits = 1
    NoPrice = NoPrice
    NoDay = NoDay
    NoUser = NoUser
INVARIANTS
    ToldIsBacked
    OneDigestADay
