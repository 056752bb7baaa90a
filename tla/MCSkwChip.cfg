SPECIFICATION Spec
CONSTANTS
    MaxOps = 2
    MaxAsserts = 1
    MaxCrashes = 1
    MaxIoFaults = 1
    Length = 7
    PacketSizes = {1}
    ReadSize = 2
    SeqMod = 2
    InFlight = 1
    MaxEvents = 2
    MaxPac = 2
    MaxSg = 3
    MaxPackets = 3
    MaxSleeps = 2
    MaxBusFaults = 1
    ImageSize = 12
    DlMps = 8
    DlHeader = 4
    UsbPacket = 8
    MaxUsbCrashes = 2
    MaxUsbAsserts = 1
    MaxStarts = 2
    MaxDlFaults = 1
    Ports <- TwoPorts
    Chunks = 2
    SocketRoom = 1
    Frames = 1
    Faults = 1
    Sessions = 1
INVARIANTS
    ModemSafe SdioAccounted BootSafe TrSafe
PROPERTIES
    PortSafe ChipProgress
CHECK_DEADLOCK FALSE
