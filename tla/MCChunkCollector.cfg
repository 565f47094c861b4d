CONSTANTS
    PoolSize = 2
    ChunkBytes = 144
    MaxGroupRecords = 2
    MaxDamages = 1
    Payloads <- MCPayloads
    None = None
SPECIFICATION Spec
INVARIANTS IngestedPrefix ExclusiveOwnership CompleteMeansAll ValidatorExact SinkSplits
