SPECIFICATION FairSpec
CONSTANTS
    Id = {i1, i2}
    NoId = NoId
    MaxRequests = 2
    Notice = {v1}
    Nobody = Nobody
INVARIANTS
    TypeOK
    StartInOrder
    AnsweredOnce
    CancelFindsCall
PROPERTIES
    FramesWhole
    EveryRequestStarts
CHECK_DEADLOCK FALSE
