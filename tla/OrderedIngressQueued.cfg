\* A router that queues frames and handles them later.
SPECIFICATION IngressSpec
CONSTANTS
    SeqMax = 5
    MaxPending = 2
    MaxRetries = 1
    Ordered = TRUE
    DriverFails = FALSE
    Reentrant = FALSE
    MaxSends = 3
    MaxReleases = 0
    EntryPoints = {"rx_to_queue"}
    RxRoom = 4
INVARIANTS
    DispatchInOrder
CHECK_DEADLOCK FALSE
