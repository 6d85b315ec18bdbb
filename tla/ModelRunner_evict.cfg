\* evict called while a request decodes.
CONSTANTS
    a = a
    b = b
    Token <- MCToken
    Slot = {s1, s2, s3, s4}
    Request = {r1, r2}
    Prompts <- MCPrompts
    MaxLen = 3
    EvictSizes = {1, 2}
    EvictWhileActive = TRUE
    ModelMayRaise = FALSE
SYMMETRY Symmetry
SPECIFICATION Spec
INVARIANT LockPreventsEviction
