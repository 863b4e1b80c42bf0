SPECIFICATION FairSpec
CONSTANTS
    Backend = {b1, b2, b3}
    None = None
    MaxCalls = 3
INVARIANTS
    OnlyDroppedMissing
    SentOncePerBackend
    SilentOnlyWhenEmpty
PROPERTIES
    CallEnds
CHECK_DEADLOCK FALSE
