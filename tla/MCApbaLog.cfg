\* Honest LOG_IND frames (size equal to the bytes received, at most APBA_MSG_SIZE_MAX); the MaxMsgs bound ends every behaviour.
CONSTANTS
    LogSize = 4
    MsgSizeMax = 2
    PageRead = 3
    Frames <- MCHonestFrames
    MaxMsgs = 6
SPECIFICATION Spec
INVARIANT LogIsSuffix
CHECK_DEADLOCK FALSE
