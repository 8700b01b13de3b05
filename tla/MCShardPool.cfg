SPECIFICATION FairSpec
CONSTANTS
    a = a
    b = b
    c = c
    Flows = {a, b, c}
    NShards = 2
    ShardOf <- MCShardOf
    Captures <- MCCaptures
    Packets <- MCPackets
    QueueCapacity = 1
    MaxFlows = 2
    MaxTotalBytes = 5
    MaxFlowBytes = 3
    IdleTimeout = 2
    SweepInterval = 2
    WriteMayFail = TRUE
    NoFlow = NoFlow
    NoTime = NoTime
INVARIANTS
    TypeOK
    SameAsSequential
    FlowsCounted
    FlowLimit
    WorkerOwnsFlow
    OutputInOrder
    BytesCounted
    MemoryBounded
    HonestExit
PROPERTIES
    Termination
