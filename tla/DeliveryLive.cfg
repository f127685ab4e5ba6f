SPECIFICATION FairSpec
CONSTANTS
    LastSlot = 2
    Managers = {m1}
    Jobs = {j1, j2}
    NoJob = NoJob
    SameLocal = {}
    Overlap = TRUE
    LockOutlives = TRUE
    RunsLate = TRUE
    MaxFaults = 1
INVARIANTS RunsOnce NoOverlap
PROPERTY OpenEventuallyCloses
