\* Two requests over four slots and two layers; a pass may raise anywhere;
\* evict is called only when no request runs.
CONSTANTS
    a = a
    b = b
    Token <- MCToken
    Slot = {s1, s2, s3, s4}
    Request = {r1, r2}
    Prompts <- MCPrompts
    MaxLen = 3
    EvictSizes = {1, 2}
    EvictWhileActive = FALSE
    ModelMayRaise = TRUE
    NumLayers = 2
SYMMETRY Symmetry
SPECIFICATION Spec
INVARIANTS LayersCoherent PassesSeeTheirContext
PROPERTY RefinesModelRunner
