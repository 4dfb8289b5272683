\* The master and a worker: a stop may find one starting and the other running.
CONSTANTS
    ThreadNum = 2
    Callers = {c1}
    MaxPosts = 1
    Connectors = {k1}
    MaxTries = 2
SPECIFICATION FairSpec
INVARIANTS TaskTellsThreads ConnectOutcome
PROPERTIES TaskReturned StopEndsWait SyncReturns
CHECK_DEADLOCK FALSE
