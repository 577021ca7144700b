\* Three clients, a start that may fail anywhere, close at any time, threads that go on.
SPECIFICATION FairSpec
CONSTANTS
    Clients = {c1, c2, c3}
    Closes = TRUE
    MaxErrors = 2
INVARIANTS TypeOK OneAccept OnlyTheFifoIsNull NothingLost AtMostOneLate
PROPERTIES Served LoopEnds
\* A server that has crashed, or whose io thread has ended, does nothing more.
CHECK_DEADLOCK FALSE
