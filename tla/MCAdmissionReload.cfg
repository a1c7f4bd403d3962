SPECIFICATION Spec
CONSTANTS
    Peers = {1, 2, 3}
    Tickets = {t1, t2, t3}
    AddressOf <- OwnAddress
    NoTicket = NoTicket
    NoHandler = NoHandler
    MaxTrusted = 2
    MaxActive = 3
    MaxCrashes = 0
    MaxIoFaults = 0
SYMMETRY TicketSymmetry
INVARIANT TrustIsReloadable
CHECK_DEADLOCK FALSE
