SPECIFICATION Spec
CONSTANTS
    Nodes = {1, 2, 3, 4}
    Peers = {1, 2}
    Infinity = 4
    MaxId = 4
    MaxPeers = 2
    MaxRoutes = 3
    Advertisements <- ManyAdvertisements
INVARIANTS VectorIsRebuild LoopIsApplyRoutes DirectRoutesKept EveryRouteBacked
