\* A start that may fail, and nobody who closes the server.
SPECIFICATION FairSpec
CONSTANTS
    Clients = {c1, c2}
    Closes = FALSE
    MaxErrors = 1
PROPERTIES ConnectionsAreReceived
\* A server that has crashed, or whose io thread has ended, does nothing more.
CHECK_DEADLOCK FALSE
