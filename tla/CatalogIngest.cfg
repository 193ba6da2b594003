SPECIFICATION Spec
CONSTANTS
    Key = {1, 2}
    r1 = r1
    job1 = job1
    sync1 = sync1
    de = de
    junk = junk
    Lang = {de}
    Proc <- MCProc
    Request = {r1}
    Import = job1
    Sync = sync1
    Junk = junk
    Remotes <- MCRemotes
    SyncItems <- MCSyncItems
    Imports <- MCImports
    Updates <- MCUpdates
    PageSize = 2
    MaxConns = 2
    MaxEdits = 1
    MaxRequests = 1
CHECK_DEADLOCK FALSE
INVARIANTS TypeOK StuckNeedsListing AnswerCoversWrite CountedIsStored LocalizedStays ImportIsComplete
PROPERTIES ImportEnds ImplementsStore
