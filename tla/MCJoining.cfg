SPECIFICATION Spec
CONSTANTS
    IdBits = 3
    K = 2
    Pairs <- BothOrders
    Others <- Contacts
    Alpha = 1
    MaxRounds = 2
    Conns = {c1, c2}
    MaxChatter = 2
    MaxFaults = 2
    None = None
INVARIANTS TypeOK JoinComplete
PROPERTIES PairSettles
CHECK_DEADLOCK FALSE
