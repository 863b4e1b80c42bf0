SPECIFICATION FairSpec
CONSTANTS
    Call = {c1, c2}
    Nothing = Nothing
    MaxRetries = 1
    MaxChunks = 1
    LoginAnswered = TRUE
    MayClose = TRUE
    MayCancel = TRUE
INVARIANTS
    OwnAnswer
    SendNeverBlocks
    PipeHasWriter
PROPERTIES
    RunKeepsReading
    TimeoutEndsCall
CHECK_DEADLOCK FALSE
