SPECIFICATION FairSpec
CONSTANTS
    Requests = {r1, r2, r3}
    Malformed = {r3}
    Forces = {f1}
    MaxAttempts = 3
    NoPty = NoPty
INVARIANTS TypeOK ActiveIsLive HasDeadline
PROPERTIES ForgetsOnlyDeadOrExhausted ImplementsSlot RequestAnswered AbandonedIsForgotten
CHECK_DEADLOCK FALSE
