SPECIFICATION FairSpec
CONSTANTS
    RoundKeys = {iv1, iv2}
    ServerVersion = v95
    ClientVersion = v83
    Shapes <- AllShapes
    LenBytes = 2
    MaxHandshakeLen = 3
    Capacity = 2
    Boundary = 2
    Packets = {p, q}
    MaxSend = 2
    None = None
INVARIANTS
    NothingLost
    CodecsMirror
    ErrorsComeFromTheTransport
    ReadyMeansWholeHandshake
PROPERTIES
    CreationTerminates
CHECK_DEADLOCK FALSE
