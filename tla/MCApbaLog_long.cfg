CONSTANTS
    LogSize = 4
    MsgSizeMax = 2
    PageRead = 3
    Frames <- MCLongFrames
    MaxMsgs = 6
SPECIFICATION Spec
INVARIANTS
    LogIsSuffix
CHECK_DEADLOCK FALSE
