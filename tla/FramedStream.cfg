\* Sizes of one and of two header bytes, at the edges of both; a socket smaller than most
\* frames, and sends that give up after three writes.
CONSTANTS
    Radix = 4
    MaxEncodedSize = 6
    Usize = 64
    Sizes = {0, 1, 3, 4, 6}
    MaxMessages = 3
    MaxWrites = 3
    Window = 6
SPECIFICATION Spec
INVARIANTS ChunkingIrrelevant SentIsWhole
CHECK_DEADLOCK FALSE
