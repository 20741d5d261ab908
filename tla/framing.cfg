SPECIFICATION Spec
CONSTANTS
    Byte <- MCByte
    Magic <- MCMagic
    Size = 4
    Packet <- MCPacket
    ChunkMax = 3
    MaxReceived = 9
INVARIANTS
    NoFrameMissed
PROPERTY
    Scanned
CHECK_DEADLOCK FALSE
