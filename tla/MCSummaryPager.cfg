SPECIFICATION PagerSpec
CONSTANTS
    O1 = O1
    C1 = C1
    C2 = C2
    X1 = X1
    None = None
    Ids <- MCIds
    MsgTypes <- MCMsgTypes
    Messages <- MCMessages
    MaxMessages = 4
    MinLeftWidth = 28
    MinRightWidth = 48
    DividerWidth = 3
    LeftWidthHint = 30
    TimelineWidth = 50
    PlaceholderWidth = 32
    FrameLines = 1
    RawLines = 1
    MaxScrollX = 1
    MaxPaged = 3
    Sizes <- MCSizes
INVARIANTS
    TypeOK
    KeptOnce
    StatusAddsUp
    EveryMessageOnce
    SharesAnId
    CountsThroughBottom
    NothingSkipped
PROPERTIES
    IdsStay
CHECK_DEADLOCK FALSE
