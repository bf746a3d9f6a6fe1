SPECIFICATION EchoSpec
CONSTANTS
    RoundKeys = {iv1, iv2}
    ServerVersion = v83
    ClientVersion = v83
    Shapes <- OwnShape
    LenBytes = 2
    MaxHandshakeLen = 3
    Capacity = 1
    Boundary = 2
    Packets = {p, q}
    MaxSend = 6
    None = None
    Window = 3
PROPERTIES
    EveryRequestAnswered
CHECK_DEADLOCK FALSE
