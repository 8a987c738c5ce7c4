SPECIFICATION FramingSpec
CONSTANTS
    Packet <- Packets
    BufferPerSocket = TRUE
    MaxPackets = 2
INVARIANTS
    NothingHeldBack
PROPERTY
    ImplementsChannel
