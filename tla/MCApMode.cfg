SPECIFICATION FairSpec
CONSTANTS
    Window = 1
    LongWindow = 3
    IndexMax = 127
    BufferSize = 200
    MaxHeaders = 2
    RequestLengths <- MCLengths
    HeaderLengths <- MCHeaders
INVARIANT
    TypeOK
PROPERTIES
    LeavesBeyondIndex
    RequestHonoured
    ApEnds
