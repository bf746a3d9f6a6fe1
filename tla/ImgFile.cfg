SPECIFICATION TreeSpec
CONSTANTS
    Strings <- SomeStrings
    LooseStrings <- LooseOnes
    TypeName <- SomeTypes
    Trees <- SomeTrees
    Small = 2
    Wide = 8
    TableLen = 5
    PlainSizes = {2}
    BlobSizes = {0, 3}
    MaxItems = 5
    MaxResolves = 2
    MaySkip = TRUE
    None = None
INVARIANTS
    ReferencesPointBack
    NoWrongString
    ErrorsOnlyAfterSkip
    Aligned
    ReadsEverything
    ResolvedIsOwn
    TreeReadsBack
    FailureIsNoticed
CHECK_DEADLOCK FALSE
