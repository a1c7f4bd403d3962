SPECIFICATION Spec
CONSTANTS
    Sessions = {s1, s2}
    PeerOf <- OwnPeer
    MaxSessions = 2
    None = None
INVARIANTS TypeOK NothingReleasedInUse SessionsOwned CleanExit
PROPERTIES StopLeadsToExit
