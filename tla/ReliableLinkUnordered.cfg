\* An unordered stream: ACKs name single frames and may come in any order.
SPECIFICATION Spec
CONSTANTS
    SeqMax = 4
    MaxPending = 2
    MaxRetries = 1
    Ordered = FALSE
    DriverFails = TRUE
    Reentrant = TRUE
    MaxSends = 3
    MaxReleases = 4
INVARIANTS
    AckedIsDelivered
CHECK_DEADLOCK FALSE
