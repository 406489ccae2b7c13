SPECIFICATION FairSpec
CONSTANTS
    Responses <- MCResponses
    Patience = 2
    Old = Old
INVARIANTS
    TypeOK
    ImageIsBody
    GoodUpdateComplete
PROPERTIES
    ProgressHonest
    UpdateEnds
CHECK_DEADLOCK FALSE
