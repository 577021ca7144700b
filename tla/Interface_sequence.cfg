\* Sequences of packaged and malformed messages parsed by one object.
SPECIFICATION Spec
CONSTANTS
    Base = 16
    MAX_MESSAGE_LENGTH = 64
    MAX_PARAMETER_LENGTH = 16
    InputSize = 70
    Wire <- MCWire
    Garbage <- MCGarbage
    Requests <- MCRequests
INVARIANTS TypeOK ParseInBounds PositionsTile ReadsTheWire RoundTrip PackagedIsAccepted
\* A message that is refused ends the session.
CHECK_DEADLOCK FALSE
