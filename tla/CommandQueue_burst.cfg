\* A burst of one command more than the limit.
CONSTANTS
    Posters = {p1, p2, p3}
    MaxCommands = 2
    MaxPosts = 1
SPECIFICATION FairSpec
PROPERTIES EveryCommandHandled
CHECK_DEADLOCK FALSE
