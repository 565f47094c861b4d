SPECIFICATION ConfiguredSpec
CONSTANTS
    Realms = {1, 2}
    Tracks = {0, 1}
    MaxTime = 1
    None = None
    RealmDefs <- MCRealmDefs
    Labels = {"label"}
    Names = {"n"}
    Clocks = {"c"}
    Samples <- MCSamples
    Shapes <- MCShapes
    Times = {0, 1}
    HealthOf = {1}
    RepairsSet = {1}
    MaxUncertainty = 0
    MaxSamples = 1
    MaxRecords = 4
    MaxBatch = 2
INVARIANTS
    SlicesBalanced ProducerOrderKept SyntheticEndsLast RepairsReported
CHECK_DEADLOCK FALSE
