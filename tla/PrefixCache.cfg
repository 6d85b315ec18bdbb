CONSTANTS
    a = a
    b = b
    Token <- MCToken
    Slot <- MCSlot
    Client = {c1, c2}
    Keys <- MCKeys
    Inserts <- MCInserts
    EvictSizes = {0, 1, 2}
SPECIFICATION Spec
INVARIANTS PrefixClosed PinsCached
PROPERTY PinnedSlotsStable
