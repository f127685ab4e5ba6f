SPECIFICATION FairSpec
CONSTANTS
    MaxAttempts = 3
    MaxMisses = 3
    MaxTokens = 1
PROPERTY SilentIsClosed
CHECK_DEADLOCK FALSE
