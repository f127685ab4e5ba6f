SPECIFICATION Spec
CONSTANTS
    MaxAttempts = 3
    MaxMisses = 2
    MaxTokens = 2
PROPERTY FailedTokenNotSent
CHECK_DEADLOCK FALSE
