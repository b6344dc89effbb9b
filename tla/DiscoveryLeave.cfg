SPECIFICATION Spec
CONSTANTS
    Nodes <- MCNodes
    Links <- MCLinks
    LinkLocalSides <- MCLinkLocalSides
    LinkLocal = {4}
    Networks <- MCLeaveNetworks
    Sources <- MCSources
    Fast = 1
    Slow = 3
    Ttl = 4
    MayLeave = {"B"}
PROPERTY LeftIsForgotten
