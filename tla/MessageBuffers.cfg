SPECIFICATION Spec
CONSTANTS
    Messages <- FittingMessages
    Spares <- SomeSpares
    LenMod = 16
    MaxKept = 3
    MaxStale = 5
    Misread = Misread
    None = None
INVARIANTS
    PacketsAreTheMessages
    CleanWithoutFailure
    LinesSurvive
