SPECIFICATION RegisteredSpec
CONSTANTS
    Realms = {1, 2}
    Tracks = {0, 1}
    MaxTime = 3
    None = None
    RealmDefs <- MCRealmDefs
    Labels = {"a"}
    Names = {1, 2}
    Clocks = {"c", "d"}
    Samples <- MCSamples
    Shapes <- MCShapes
    Times = {2}
    HealthOf = {2}
    RepairsSet = {0}
    MaxUncertainty = 5
    MaxSamples = 3
    MaxRecords = 2
    MaxBatch = 1
    Second = 10
    MaxNanos = 1000
    RealmUnit = 4
    ExclusiveOr <- MCExclusiveOr
INVARIANTS
    DescribedFirst OneTimeline FitOptimal LostForCause PanicNeedsHealth
CHECK_DEADLOCK FALSE
