\* One client, every kind of message, three messages deep, on an io thread that goes on.
SPECIFICATION FairSpec
CONSTANTS
    Clients = {c1}
    ChannelIds = {0, 1, 2}
    Messages <- MCAllMessages
    Leftovers <- MCLeftovers
    MaxMessages = 3
    FifoAllocated = TRUE
INVARIANTS TypeOK HalfDuplex NothingSkipped RepliesFit ChannelOfLastSetup
PROPERTIES OutputBufferStable ImplementsExchange GoneIsNoticed AnswersComeInTime
\* A client that has said all it wants and sessions that have ended are final states.
CHECK_DEADLOCK FALSE
