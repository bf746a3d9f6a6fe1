SPECIFICATION HeaderSpec
CONSTANTS
    Width = 3
    LengthWords <- AllLengths
    Versions <- SomeVersions
    Invalid = Invalid
    Pending = Pending
INVARIANTS
    LengthRoundTrip
    OtherRoundRefused
    ReflectionRefused
CHECK_DEADLOCK FALSE
