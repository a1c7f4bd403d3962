SPECIFICATION FairSpec
CONSTANTS
    Nodes = {1, 3}
    Infinity = 3
    w1 = w1
    w2 = w2
    Loop = Loop
    Workers = {w1, w2}
    Dialled = {w1}
    PeerOf <- SamePeer
    AdvVectors <- Node3Behind
    MaxSessions = 2
    MaxSequence = 1
    MaxSilences = 1
INVARIANTS TypeOK TriggeredUpdateNotLost
PROPERTIES StampsNeverGoBack SessionUpMeansConnected
CHECK_DEADLOCK FALSE
