\* The smallest handshake, with a listener that stays open.
CONSTANTS
    RequestLen = 1
    SendBuf = 1
SPECIFICATION FairSpec
PROPERTIES PendingResolves
CHECK_DEADLOCK FALSE
