\* The parts of a node that share no state, one workload at a time.
SPECIFICATION ServicesSpec
CONSTANTS
    \* queues: small, half-budget, full-budget and oversized packets
    Budget = 4
    Costs = {1, 2, 4, 5}
    MaxItems = 4
    \* network time
    TimeSources = {"S1", "S2"}
    TimePriority <- MCTimePriority
    OwnPriority = 2
    Epoch = 20
    InventedEpoch = 40
    SourceTimeout = 1
    AnnounceInterval = 1
    RequestInterval = 1
    TimeConfigs <- MCTimeConfigs
    MaxDelay = 1
    MaxNow = 3
    MaxTimeCalls = 2
    \* calendar: an era of 400 years
    Dates <- MCDates
    Times <- MCTimes
    MaxDay = 146097
    \* P2P streams
    P2pHosts = {"A", "B"}
    MaxP2pCalls = 4
    MaxP2pFaults = 1
    \* managed variables
    VarNodes = {"W", "R"}
    VarWriters = {"W"}
    MaxVersion = 2
    MaxVarCalls = 4
    \* schema and codec
    Base = 4
    BuiltinType <- MCBuiltinType
    BuiltinEndpoint <- MCBuiltinEndpoint
    InitialTypes <- MCInitialTypes
    InitialEndpoints <- MCInitialEndpoints
    UserTypeIds = {4, 5}
    UserEndpointIds = {5, 10}
    UserTypeNames = {"T"}
    UserEndpointNames = {"E"}
    SchemaDocs <- MCSchemaDocs
    MaxId = 15
    MaxSchemaCalls = 3
    BitmapBits = 10
    CountLimit = 10
    Digit = 2
    MaxDigits = 4
    Seqs = {0, 1, 3}
    \* cryptography
    KeyIds = {1, 2}
    Keys = {"k1", "k2"}
    Texts = {"a", "b"}
    Aads = {"x", "y"}
    MaxCryptoCalls = 5
    BlockLen = 4
    LengthLen = 2
    MaxInput = 9
INVARIANTS
    BytesAreExact
    
    TimeWithinDelay
    CalendarIsExact
    SessionsAgree
    SchemaDecodes
    
    ChunksDoNotMatter
PROPERTIES
    AcceptedIsQueued
    ReadNeverGoesBack
    
CHECK_DEADLOCK FALSE
