SPECIFICATION Spec
CONSTANTS
    Capacity = 2
    Categories = {"ui"}
    Tracks = {0}
    Spans <- MCSpans
    Singles <- MCSingles
    MaxCalls = 4
    None = None
INVARIANTS
    LabelsUnambiguous
CHECK_DEADLOCK FALSE
