SPECIFICATION Spec
CONSTANTS
    Peers = {1, 2, 3, 4}
    Tickets = {t1, t2, t3}
    AddressOf <- Colliding
    NoTicket = NoTicket
    NoHandler = NoHandler
    MaxTrusted = 2
    MaxActive = 2
    MaxCrashes = 2
    MaxIoFaults = 1
SYMMETRY TicketSymmetry
INVARIANTS TypeOK TicketAdmitsOnePeer MemberStaysTrusted PeersWereInvited
PROPERTY IsInvitations
CHECK_DEADLOCK FALSE
