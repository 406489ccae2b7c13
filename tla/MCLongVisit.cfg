SPECIFICATION FairSpec
CONSTANTS
    Window = 1
    LongWindow = 3
    IndexMax = 127
    BufferSize = 200
    MaxHeaders = 1
    RequestLengths <- MCLengths
    HeaderLengths <- MCShort
PROPERTY
    ApRestarts
