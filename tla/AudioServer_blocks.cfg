\* Two clients whose blocks take turns in one pipeline, on an io thread that goes on.
SPECIFICATION FairSpec
CONSTANTS
    Clients = {c1, c2}
    ChannelIds = {0}
    Messages <- MCBlocks
    Leftovers <- MCLeftovers
    MaxMessages = 2
    FrameSize = 2
    Delay = 0
    BlockSizes <- MCBlockSizes
    MaxSamples = 4
    FifoAllocated = TRUE
INVARIANTS ResponsesAreTrue StreamKeepsOrder
PROPERTIES ImplementsSession AnswersInTime
\* The clients have said all they want, or the process has crashed.
CHECK_DEADLOCK FALSE
