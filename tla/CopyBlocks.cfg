\* The threads end: no deadlock check.
CONSTANTS
    NumCacheBlocks = 3
    NumelPerBlock = 3
    NumThreads = 2
    CopyCalls <- MCCalls
SPECIFICATION CopySpec
CHECK_DEADLOCK FALSE
INVARIANTS CopiesAsIfAtOnce ContentsFollowPairs
