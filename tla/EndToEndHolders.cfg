\* Two packets for two holders that share a side of the relay.
SPECIFICATION Spec
CONSTANTS
    h1 = h1
    h2 = h2
    p1 = p1
    p2 = p2
    Packets = {p1, p2}
    Holders = {h1, h2}
    SideOf <- MCSideOf
    HasBoard = {h1, h2}
    FirstOn <- MCFirstOn
    Nameless = {}
    MaxRetries = 1
    MaxE2E = 2
    MaxRoutes = 1
    MaxAckCache = 1
    Faults = {"data", "fanned", "acks", "returned", "repeat", "discovery", "queue", "deferral"}
INVARIANTS
    
    CachesAreBounded
PROPERTIES
    WithheldIsDelivered
SYMMETRY Alike
CONSTRAINT OneAtATime
CHECK_DEADLOCK FALSE
