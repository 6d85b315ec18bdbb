CONSTANTS
    a = a
    b = b
    c1 = c1
    c2 = c2
    w1 = w1
    w2 = w2
    Token <- MCToken
    Slot <- MCSlot
    Client <- MCClient
    EvictSizes = {0, 1, 2}
    Setups <- MCSetups
SPECIFICATION Spec
INVARIANTS TypeOK TreeWellFormed LockRefCounts LeavesExact SizesExact PriorityMonotone
    EvictionOrder
PROPERTIES RefinesPrefixCache
