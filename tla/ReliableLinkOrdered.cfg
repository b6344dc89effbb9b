\* An ordered stream over a link that loses, repeats and reorders, with a
\* driver that does not fail. The run ends when every send is used up.
SPECIFICATION FairSpec
CONSTANTS
    SeqMax = 5
    MaxPending = 2
    MaxRetries = 1
    Ordered = TRUE
    DriverFails = FALSE
    Reentrant = FALSE
    MaxSends = 3
    MaxReleases = 0
INVARIANTS
    TypeOK
    InOrderDelivery
    AckedIsDelivered
    PartialAckIsHeld
    OldestIsRetransmitted
    BufferHasRoom
PROPERTIES
    WindowDrains
    AcceptedIsDelivered
    ImplementsSlidingWindow
CHECK_DEADLOCK FALSE
