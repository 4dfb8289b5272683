\* A limit below the number of commands: drains are cut short.
CONSTANTS
    Posters = {p1, p2, p3}
    MaxCommands = 2
    MaxPosts = 2
SPECIFICATION FairSpec
INVARIANTS TypeOK NoLostWakeup InOrderExactlyOnce
PROPERTIES HandledUnlessCutShort ImplementsChannel
CHECK_DEADLOCK FALSE
