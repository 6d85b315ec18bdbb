\* No eviction while requests run, no failure: are all slots reclaimed?
CONSTANTS
    a = a
    b = b
    Token <- MCToken
    Slot = {s1, s2, s3, s4}
    Request = {r1, r2}
    Prompts <- MCPrompts
    MaxLen = 3
    EvictSizes = {1, 2}
    EvictWhileActive = FALSE
    ModelMayRaise = FALSE
SYMMETRY Symmetry
SPECIFICATION Spec
INVARIANT NoSlotLeak
