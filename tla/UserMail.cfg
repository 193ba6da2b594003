SPECIFICATION Spec
CONSTANTS
    User = {u1, u2}
    Item = {i1}
    Attempt = {a1}
    Everybody = Everybody
    Mail <- MCMail
    MaxChanges = 1
CHECK_DEADLOCK FALSE
INVARIANTS TypeOK RowsAreTrue QueuedRowsWereCut SnapshotsAreWanted OneUnknownMail ReportsAreTrue
PROPERTY ImplementsMailCall
