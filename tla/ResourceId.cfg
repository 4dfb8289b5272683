\* Two-bit base values and adapter ids.
CONSTANTS
    BaseSize = 4
    AdapterSize = 4
    ReservedTag = 5
    AdapterIds = {0, 2, 3}
    WorkerNum = 2
SPECIFICATION Spec
INVARIANTS UniqueIds TokenTellsResource
CHECK_DEADLOCK FALSE
