SPECIFICATION BothSpec
CONSTANTS
    Nodes = {1, 2, 3}
    Destinations = {3}
    InitialTtl = 2
    MaxPackets = 2
    NoRoute = 0
    Ports = {1, 2, 3}
    SharedPorts = {3}
    Window = 2
    CleanAbove = 1
    MaxTime = 6
INVARIANTS TypeOK HopsAccounted OnlyLoopsExpire FilterTypeOK AnswersGetThrough NothingUnasked
PROPERTIES EveryPacketEnds
