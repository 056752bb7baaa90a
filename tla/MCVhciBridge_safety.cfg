SPECIFICATION Spec
CONSTANTS
    Capacity = 7
    KernelMax = 6
    EventMax = 5
    CommandMax = 5
    ScoMax = 6
    IsoMax = 6
    Channels <- MCChannels
    ChipFrames <- MCChipFrames
    KernelFrames <- MCKernelFrames
    BufferSizes <- MCBufferSizes
    OpenAttempts = 2
    MaxFrames = 2
    MaxSignals = 1
    MaxStalls = 1
INVARIANTS FramesKept BridgeSafe
CHECK_DEADLOCK FALSE
