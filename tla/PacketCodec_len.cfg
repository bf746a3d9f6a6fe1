SPECIFICATION Spec
CONSTANTS
    Max = 3
    Text <- TextBytes
    Items <- ItemBytes
    MaxItems = 4
    Schemas <- BoxAndList
    None = None
INVARIANTS
    EncodeLenExact
CHECK_DEADLOCK FALSE
