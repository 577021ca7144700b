\* Where the converter reads its samples.
SPECIFICATION Spec
CONSTANTS
    FrameSize = 2
    Delay = 1
    BlockSizes <- MCBlockSizes
    MaxSamples = 9
    FifoAllocated = TRUE
INVARIANTS ConvertsTheInput
\* The clients stop sending, or the process has crashed.
CHECK_DEADLOCK FALSE
