SPECIFICATION FairSpec
CONSTANTS
    Call = {c1}
    Nothing = Nothing
    MaxRetries = 1
    MaxChunks = 1
    LoginAnswered = FALSE
    MayClose = FALSE
    MayCancel = FALSE
PROPERTIES
    TimeoutEndsCall
CHECK_DEADLOCK FALSE
