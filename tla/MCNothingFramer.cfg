SPECIFICATION Spec
CONSTANTS
    Crc <- MCCrc
    Sends <- MCSends
    Noise <- MCNoise
    MaxItems = 3
INVARIANTS NothingHeldBack IntactReturned
PROPERTY RefinesStream
CHECK_DEADLOCK FALSE
