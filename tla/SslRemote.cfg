\* Two messages each way over sockets that hold two records.
CONSTANTS
    MaxSends = 2
    Window = 2
SPECIFICATION FairSpec
INVARIANTS SentIsSomewhere
PROPERTIES SendReturns SentIsDelivered EndNoticed
CHECK_DEADLOCK FALSE
