SPECIFICATION WatchedSpec
CONSTANTS
    u1 = u1
    u2 = u2
    User = {u1, u2}
    Watch = {1, 2}
    Owner <- MCOwners
    Sched = {s1}
    Manual = {}
    Value = {v1, v2}
    DayLength = 1
    DigestSlot = 0
    MaxTime = 0
    MaxFaults = 1
    MaxLosses = 0
    MaxEdits = 1
    NoPrice = NoPrice
    NoDay = NoDay
    NoUser = NoUser
PROPERTIES
    EveryPriceIsTold
