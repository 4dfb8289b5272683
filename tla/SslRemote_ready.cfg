\* A send to a remote that was just accepted.
CONSTANTS
    MaxSends = 1
    Window = 2
SPECIFICATION Spec
INVARIANTS ReadyCanWrite
CHECK_DEADLOCK FALSE
