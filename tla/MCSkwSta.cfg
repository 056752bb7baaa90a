SPECIFICATION StaSpec
CONSTANTS
    Bss = {"b1", "b2"}
    MaxRequests = 3
    MaxFrames = 3
    MaxQueue = 1
    MaxRefused = 1
    MaxRetry = 2
INVARIANT StaLeaveLocked
CHECK_DEADLOCK FALSE
