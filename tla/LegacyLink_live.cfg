SPECIFICATION FairSpec
CONSTANTS
    Packets <- SmallPackets
    HeaderLen = 4
    MaxPacketLen = 2
    EncLimit = 2
    U16 = {0, 1, 2, 9}
    Boundary = 6
    Aes = FALSE
    MaxFrames = 2
    None = None
    Garbled = Garbled
PROPERTIES
    WrittenIsDelivered
    CloseTerminates
CHECK_DEADLOCK FALSE
