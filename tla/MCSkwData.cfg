SPECIFICATION Spec
CONSTANTS
    AckKinds <- Acks
    HIGH = 2
    LOW = 3
    Factor = 0
    PktLimit = 2
    Buffers = 1
    TxWait = 0
    TxFrames = 3
    TxFaults = 1
    SnMod = 8
    WinSize = 2
    Ssn = 7
    Msdus = 3
    AMsdus = {1}
    RxFrames = 3
    RxSessions = 2
    Callers = {c1, c2}
    MaxCmds = 2
    MaxFaults = 2
    Ifaces = {"w", "p"}
    Station = "w"
    ScanTimeout = 2
    CqmTimeout = 1
    MaxScans = 3
    MaxHints = 2
    MaxSched = 2
    MaxNow = 4
    ReportLimit = 6
    ReportHead = 1
    Reports <- ShortReports
    RxUrbs = {"r1", "r2"}
    TxUrbs = {"t1", "t2"}
    MaxData = 3
    MaxSends = 2
    MaxUsbSuspends = 1
    MaxUsbFaults = 1
INVARIANTS
    RxSafe CmdSafe ScanSafe UsbSafe
PROPERTIES
    TxSafe DataProgress
CHECK_DEADLOCK FALSE
