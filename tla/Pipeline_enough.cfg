\* A FIFO that holds exactly one frame.
SPECIFICATION Spec
CONSTANTS
    FrameSize = 2
    Delay = 1
    BlockSizes <- MCBlockSizes
    MaxSamples = 9
    FifoAllocated = TRUE
INVARIANTS EnoughDataIsEncoded
\* The clients stop sending, or the process has crashed.
CHECK_DEADLOCK FALSE
