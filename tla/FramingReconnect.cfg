SPECIFICATION FramingSpec
CONSTANTS
    Packet <- Packets
    BufferPerSocket = FALSE
    MaxPackets = 2
INVARIANT
    ReceivedIsSent
