\* Three callbacks against a pool of two chunks: rings overflow, the pool runs
\* empty and chunks are left partial; stops time out and are repeated, aborts
\* come at any moment, and an ordinary batch is submitted besides.
CONSTANTS
    Capacity = 2
    ChunkRecords = 2
    PoolSize = 2
    Groups <- MCGroups
    Records <- MCRecords
    MaxRecords <- MCMaxRecords
    MaxMail = 20
    MaxQuanta = 3
    MaxBatches = 1
    MaxStops = 2
    MayAbort = TRUE
    None = None
SPECIFICATION FairCapture
INVARIANTS TraceComplete NothingRejected QuantumIsPrefix
PROPERTIES ImplementsTransport FinishAnswered StopAnswered
CHECK_DEADLOCK FALSE
