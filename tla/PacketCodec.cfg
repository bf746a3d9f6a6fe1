SPECIFICATION Spec
CONSTANTS
    Max = 3
    Text <- TextBytes
    Items <- ItemBytes
    MaxItems = 4
    Schemas <- All
    None = None
INVARIANTS
    LengthsAreExact
    FaithfulFieldsSurvive
    CutIsNoticed
CHECK_DEADLOCK FALSE
