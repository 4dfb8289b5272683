\* One connection, connected or accepted, with every event around it.
CONSTANTS
    WorkerNum = 2
    MaxRemotes = 1
    MaxLocals = 1
    MaxData = 2
    MaxSends = 2
    MaxCloses = 2
    ConnectMayFail = TRUE
    AcceptMayFail = TRUE
    WriteMayFail = FALSE
    SpuriousEdges = TRUE
SPECIFICATION Spec
INVARIANTS TypeOK EndpointProtocol Ownership NoDataLost SendsInOrder CloseAfterSends
PROPERTIES SilentOnceGone
CHECK_DEADLOCK FALSE
