\* Blocks of up to four bytes of samples, with every entry of the table in use.
SPECIFICATION Spec
CONSTANTS
    Payloads <- MCPayloads
    Noise <- MCNoise
    Reach = 64
INVARIANTS ChecksumIsRemainder DamageIsDetected
\* The block has been validated.
CHECK_DEADLOCK FALSE
