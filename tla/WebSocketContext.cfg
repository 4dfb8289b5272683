\* Two messages, one ping or pong; a stream that holds one frame and then blocks.
CONSTANTS
    MaxMessages = 2
    MaxControls = 1
    Window = 1
    WriteLen = 1
    MaxOut = 9
SPECIFICATION FairSpec
INVARIANTS MessagesInOrder ClosedMeansAllReceived CloseIsLast CloseAnswered EndsAgree
PROPERTIES CloseEndsBoth
CHECK_DEADLOCK FALSE
