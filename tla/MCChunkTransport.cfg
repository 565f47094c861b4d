CONSTANTS
    Capacity = 2
    ChunkRecords = 3
    PoolSize = 2
    Groups <- MCGroups
    Records <- MCRecords
    MaxRecords = 7
    MaxMail = 2
    None = None
SPECIFICATION FairSpec
INVARIANTS PoolConserved StarvationWindow LosslessInOrder
    ChunksWellFormed StopReportExact BufferInOnePlace
PROPERTIES DrainReturns
CHECK_DEADLOCK FALSE
