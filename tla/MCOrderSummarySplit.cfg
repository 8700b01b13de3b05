SPECIFICATION Spec
CONSTANTS
    O1 = O1
    C1 = C1
    C2 = C2
    X1 = X1
    None = None
    Ids <- MCIds
    MsgTypes <- MCMsgTypes
    Messages <- SplitMessages
    MaxMessages = 3
INVARIANT OneRecordPerOrder
CHECK_DEADLOCK FALSE
