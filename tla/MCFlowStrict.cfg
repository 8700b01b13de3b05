SPECIFICATION Spec
CONSTANTS
    BeginString <- MCBeginString
    BodyLength <- MCBodyLength
    Delim = "|"
    Trailer = "10="
    MinFrame = 6
    SeqSpace = 64
    NoSeq = NoSeq
    MaxFlowBytes = 40
    Sent <- ReorderedSent
    Isn <- MCIsn
    Packets <- ReorderedPackets
    Copies = 1
    Contended = FALSE
INVARIANT StrictMeansNothingDropped
CHECK_DEADLOCK FALSE
