\* Progress when every holder is announced with a board.
SPECIFICATION FairSpec
CONSTANTS
    h1 = h1
    h2 = h2
    p1 = p1
    p2 = p2
    Packets = {p1}
    Holders = {h1, h2}
    SideOf <- MCSideOf
    HasBoard = {h1, h2}
    FirstOn <- MCFirstOn
    Nameless = {h1, h2}
    MaxRetries = 1
    MaxE2E = 2
    MaxRoutes = 1
    MaxAckCache = 1
    Faults = {"fanned", "acks", "returned", "deferral"}
PROPERTIES
    EveryHolderDelivers
    
CHECK_DEADLOCK FALSE
