\* Two connections on two workers, and a listener on the master, with fair threads.
CONSTANTS
    WorkerNum = 2
    MaxRemotes = 2
    MaxLocals = 1
    MaxData = 1
    MaxSends = 0
    MaxCloses = 0
    ConnectMayFail = FALSE
    AcceptMayFail = FALSE
    WriteMayFail = FALSE
    SpuriousEdges = FALSE
SPECIFICATION FairSpec
INVARIANTS Confinement
PROPERTIES ConnectResolved DataDelivered EndedSocketReclaimed BacklogServed
CHECK_DEADLOCK FALSE
