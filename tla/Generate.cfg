\* Two calls over four slots; passes may fail; the owner evicts between calls.
CONSTANTS
    a = a
    b = b
    Token <- MCToken
    Slot = {s1, s2, s3, s4}
    Request = {c1, c2}
    Prompts <- MCPrompts
    MaxLen = 4
    EvictSizes = {1, 4}
    EvictWhileActive = TRUE
    ModelMayRaise = TRUE
    Budgets = {0, 2}
    StopSets <- MCStopSets
    Samples <- MCSamples
SPECIFICATION GSpec
INVARIANTS TypeOK CacheCoherent PromptStaysCached OnlyAbandonedStay SlotsFreedOnce
PROPERTIES RefinesCompletion SlotsLostKnownWays AnswerIsCached EveryCallEnds
