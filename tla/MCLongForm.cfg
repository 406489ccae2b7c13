SPECIFICATION Spec
CONSTANTS
    Window = 1
    LongWindow = 3
    IndexMax = 127
    BufferSize = 200
    MaxHeaders = 2
    RequestLengths <- MCLongest
    HeaderLengths <- MCShort
PROPERTY
    FormTaken
