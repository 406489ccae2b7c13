SPECIFICATION Spec
CONSTANTS
    MaxPacket = 2048
    WordSpace = 65536
    Incoming <- MCIncoming
    SubTopics = {25, 79, 2038}
    PubTopics = {41, 119}
    PubPayloads = {0, 82, 83, 1922, 2000, 2001}
    Ids = {7, 9}
    Keys = {0, 29}
    StallPoints = {0, 1, 30, 2046}
    Backlog = 2
    None = None
INVARIANTS
    TypeOK
    InStep
    MessageWhole
    OutgoingFramed
PROPERTIES
    AckNamesMessage
    ChannelSpec
