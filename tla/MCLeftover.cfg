SPECIFICATION Spec
CONSTANTS
    Nul = "NUL"
    Dev <- MCDev
    Ep <- MCEp
    Userids <- MCUserids
    FieldSize = 3
    Leftovers <- MCLeftovers
    Rests <- MCRests
    Sources <- MCSources
    Askers <- MCAskers
    Points <- MCPoints
    Values <- MCValues
    None = None
    WifiPolls = 2
    RemoteWindow = 1
    SendWindow = 0
    ApWindow = 0
    ApLongWindow = 1
    InboxSize = 1
INVARIANT
    WriteAsCommanded
