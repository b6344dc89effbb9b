\* One refused transmission on an ordered stream over a fair link.
SPECIFICATION FairLinkSpec
CONSTANTS
    SeqMax = 3
    MaxPending = 2
    MaxRetries = 1
    Ordered = TRUE
    DriverFails = TRUE
    Reentrant = FALSE
    MaxSends = 2
    MaxReleases = 0
PROPERTIES
    AcceptedIsDelivered
CHECK_DEADLOCK FALSE
