SPECIFICATION Spec
CONSTANTS
    MaxPieces = 3
    MaxBlocks = 6
    BeginString <- MCBeginString
    BodyLength <- MCBodyLength
    Delim = "|"
    Trailer = "10="
    MinFrame = 6
    Tokens <- MCTokens
    Files <- MCFiles
    Descriptions <- MCDescriptions
    Micros = 2
    Nanos = 4
    NoResolution = NoResolution
    NoHeader = NoHeader
    Ethernet = Ethernet
    Sll2 = Sll2
INVARIANTS
    CutIndependent
    KeepsOnlyCandidates
    DeliversReadable
    HonestCapture
CHECK_DEADLOCK FALSE
