SPECIFICATION Spec
CONSTANTS
    a = a
    b = b
    c = c
    Flows = {a, b, c}
    NShards = 2
    ShardOf <- MCShardOf
    Captures <- RaceCaptures
    Packets <- RacePackets
    QueueCapacity = 1
    MaxFlows = 1
    MaxTotalBytes = 20
    MaxFlowBytes = 3
    IdleTimeout = 2
    SweepInterval = 2
    WriteMayFail = FALSE
    NoFlow = NoFlow
    NoTime = NoTime
INVARIANT ConsistentProcessing
