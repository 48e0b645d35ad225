SPECIFICATION Spec
CONSTANTS
    Full = 8
    BlockSizes <- MCBlocks
    Intervals <- MCIntervals
    FrameCap = 1
    ReturnCap = 2
    SeqWrap = 3
    MaxFrames = 2
    None = None
    MaxThreads = 2
    MaxCalls = 3
    MaxTroubles = 2
INVARIANTS TypeOK RecordingNeverSkipped LengthKept GapsAreLosses CountsOnce
PROPERTY OldThreadEnds
CHECK_DEADLOCK FALSE
