SPECIFICATION Spec
CONSTANTS
    Packets <- ForeignPackets
    HeaderLen = 4
    MaxPacketLen = 3
    EncLimit = 4
    U16 = {0, 1, 3, 4, 9}
    Boundary = 6
    Aes = TRUE
    MaxFrames = 3
    None = None
    Garbled = Garbled
INVARIANTS
    TypeOK
    DeliveredIsPrefix
    KeysInStep
    NoFrameHeldBack
    CleanEndMeansWhole
    SendBufferBound
    PacketsKeepTheirPlace
PROPERTIES
    ImplementsChannel
CHECK_DEADLOCK FALSE
