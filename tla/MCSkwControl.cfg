SPECIFICATION Spec
CONSTANTS
    Bss = {"b1", "b2"}
    MaxRequests = 3
    MaxFrames = 3
    MaxQueue = 1
    MaxRefused = 1
    MaxRetry = 2
    Stations = {"s1", "s2"}
    MaxAllowed = 1
    MaxApQueue = 1
    MaxAir = 3
    MaxCalls = 2
    MaxApRefused = 1
    IfTypes <- OneOfEach
    MaxRecCalls = 3
    MaxRecCrashes = 2
    MaxRecRefused = 1
    NrIface = 3
    Combination <- Limits
    MaxIfaceCalls = 2
    MaxIfaceRefused = 2
    MaxIfaceEvents = 2
INVARIANTS
    StaSafe ApSafe RecoverySafe IfaceSafe
PROPERTIES
    ControlProgress
CHECK_DEADLOCK FALSE
