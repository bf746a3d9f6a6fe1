SPECIFICATION TextSpec
CONSTANTS
    ChunkLens <- SomeLens
    MaxChunkSize = 5
    LenSize = 2
    BufLen = 2
    CacheLen = 3
    ReadSizes = {0, 1, 3}
    MaxChunks = 3
    None = None
    Garbled = Garbled
    Texts <- SomeTexts
    PieceLen = 2
    Escape8 <- I8Min
    Escape16 = 3
INVARIANTS
    OutIsPayload
    EndMeansWholeChunks
    ErrorMeansDamage
    TextReadsBack
PROPERTIES
    ReadingEnds
CHECK_DEADLOCK FALSE
