SPECIFICATION Spec
CONSTANTS
    LastSlot = 3
    Managers = {m1, m2}
    Jobs = {j1, j2}
    NoJob = NoJob
    SameLocal = {2}
    Overlap = FALSE
    LockOutlives = TRUE
    RunsLate = FALSE
    MaxFaults = 0
SYMMETRY Symmetry
INVARIANTS TypeOK RunsOnce RecordedOnce MissedIsFinal
PROPERTY ImplementsLedger
