SPECIFICATION FairSpec
CONSTANTS
    MaxAttempts = 3
    MaxMisses = 2
    MaxTokens = 2
INVARIANTS
    TypeOK
    TokenSentOnce
    RejectionShown
    TimersFitSocket
    GaveUpTold
    UnconnectedWaitIsTimed
PROPERTIES
    StaysRejected
    AnsweredStaysOpen
    LostIsResolved
CHECK_DEADLOCK FALSE
