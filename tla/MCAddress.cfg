SPECIFICATION Spec
CONSTANTS
    gw = gw
    dev1 = dev1
    dev2 = dev2
    u1 = u1
    u2 = u2
    v1 = v1
    v2 = v2
    GW = gw
    Rows <- MCRows
    Tables <- MCTables
    Users = {u1, u2}
    Blank = Blank
    NoMsg = NoMsg
    Nul = Nul
    Digits = {"1", "2"}
    AddrCells = 2
    Leftovers <- MCLeftovers
    GatewayAddr <- MCGatewayAddr
    SUBDEV_MAX_SIZE = 2
    WifiPolls = 2
    RemoteWindow = 1
    InboxSize = 1
    CloudMayForget = FALSE
    GatewayCommands = {"read", "write"}
PROPERTY
    AddressAsGranted
