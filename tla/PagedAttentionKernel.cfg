\* The threads end: no deadlock check, Terminates says that they all do.
CONSTANTS
    NumWarps = 3
    NumLanes = 4
    BLOCK_SIZE = 2
    HEAD_SIZE = 5
    MaxSeqLen = 14
    RedSize = 6
    ContextLens <- MCContextLens
SPECIFICATION KSpec
CHECK_DEADLOCK FALSE
INVARIANTS RaceFree InBounds OutputCorrect
PROPERTY Terminates
