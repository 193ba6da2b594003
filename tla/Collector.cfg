SPECIFICATION Spec
CONSTANTS
    Item <- MCItem
    Batch = 2
    MaxFaults = 1
    MaxEdits = 3
INVARIANTS
    TypeOK
    MissesNeedDeactivations
    SecondVisitsNeedActivations
    ProcessedWithinTotal
