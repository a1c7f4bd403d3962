SPECIFICATION FairSpec
CONSTANTS
    Nodes = {1, 2}
    Infinity = 3
    w1 = w1
    w2 = w2
    Loop = Loop
    Workers = {w1}
    Dialled = {}
    PeerOf <- OnePeer
    AdvVectors <- LeafVectors
    MaxSessions = 1
    MaxSequence = 1
    MaxSilences = 1
PROPERTY RoutesFollowPeers
CHECK_DEADLOCK FALSE
