\* The three entry points behind an ordered stream.
SPECIFICATION IngressSpec
CONSTANTS
    SeqMax = 5
    MaxPending = 3
    MaxRetries = 1
    Ordered = TRUE
    DriverFails = FALSE
    Reentrant = FALSE
    MaxSends = 3
    MaxReleases = 0
    EntryPoints = {"receive", "rx_to_queue", "relay"}
    RxRoom = 2
INVARIANTS
    DirectInOrder
    AckedIsDispatched
CHECK_DEADLOCK FALSE
