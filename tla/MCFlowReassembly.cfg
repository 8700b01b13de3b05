SPECIFICATION Spec
CONSTANTS
    BeginString <- MCBeginString
    BodyLength <- MCBodyLength
    Delim = "|"
    Trailer = "10="
    MinFrame = 6
    SeqSpace = 64
    NoSeq = NoSeq
    MaxFlowBytes = 16
    Sent <- MCSent
    Isn <- MCIsn
    Packets <- MCPackets
    Copies = 1
    Contended = TRUE
INVARIANTS
    TypeOK
    PendingIsAhead
    FlowIsBounded
PROPERTIES
    ImplementsMessageStream
CHECK_DEADLOCK FALSE
