\* A request of three pieces over a socket that takes one at a time.
CONSTANTS
    RequestLen = 3
    SendBuf = 1
SPECIFICATION FairSpec
INVARIANTS NeverUnreachable RequestOnce FailureTold
PROPERTIES ClientProgress
CHECK_DEADLOCK FALSE
