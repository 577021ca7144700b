\* Frames of two samples, an encoder that delays its output by a frame.
SPECIFICATION FairSpec
CONSTANTS
    FrameSize = 2
    Delay = 1
    BlockSizes <- MCBlockSizes
    MaxSamples = 13
    FifoAllocated = TRUE
INVARIANTS TypeOK TimeStampsInPlace FifoIsTheTail EachSampleOnce LossNeedsFailure
    NothingLeaks AnswerIsTrue EncoderDrained CatchesUp
PROPERTIES ImplementsStream HandlerEnds
\* The clients stop sending, or the process has crashed.
CHECK_DEADLOCK FALSE
