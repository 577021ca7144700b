\* A client that sets its channel up and sends a block the way interface.cpp builds it.
SPECIFICATION Spec
CONSTANTS
    Clients = {c1}
    ChannelIds = {0, 1}
    Messages <- MCWellFormed
    Leftovers <- MCNoLeftover
    MaxMessages = 2
    FifoAllocated = TRUE
INVARIANTS BlocksAreReceived
CHECK_DEADLOCK FALSE
