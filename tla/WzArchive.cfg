SPECIFICATION Spec
CONSTANTS
    Trees <- SomeTrees
    Bases = {19, 60}
    Versions = {10, 71, 95}
    Bits = 8
    Magic = 177
    IntMax = 5
    ReadSizes = {1, 3}
    MaxMarks = 1
    Misread = Misread
    None = None
INVARIANTS
    EntriesFindTheirNodes
PROPERTIES
    ReferencesLeadBack
CHECK_DEADLOCK FALSE
