SPECIFICATION Spec
CONSTANTS
    Nodes <- MCNodes
    Links <- MCLinks
    LinkLocalSides <- MCLinkLocalSides
    LinkLocal = {4}
    Networks <- MCNetworks
    Sources <- MCSources
    Fast = 1
    Slow = 3
    Ttl = 4
    MayLeave = {"B"}
INVARIANTS LinkLocalStaysOnLink
PROPERTIES HeardIsKept Converges
