SPECIFICATION FairSpec
CONSTANTS
    Capacity = 7
    KernelMax = 6
    EventMax = 5
    CommandMax = 5
    ScoMax = 6
    IsoMax = 6
    Channels <- MCChannels
    ChipFrames <- OneChipFrame
    KernelFrames <- OneKernelFrame
    BufferSizes <- OneBufferSize
    OpenAttempts = 2
    MaxFrames = 2
    MaxSignals = 1
    MaxStalls = 1
PROPERTY BridgeProgress
CHECK_DEADLOCK FALSE
