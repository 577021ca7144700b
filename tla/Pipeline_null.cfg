\* The FIFO as the constructor of Server leaves it.
SPECIFICATION Spec
CONSTANTS
    FrameSize = 2
    Delay = 1
    BlockSizes <- MCBlockSizes
    MaxSamples = 9
    FifoAllocated = FALSE
PROPERTIES SamplesAreAdded
\* The clients stop sending, or the process has crashed.
CHECK_DEADLOCK FALSE
