CONSTANTS
    PoolSize = 4
    Owner = {cache, request}
    Nobody = nobody
    Asks <- MCAsks
SPECIFICATION Spec
INVARIANTS OneOwner NoSlotLost AnswerFits
PROPERTY RefinesSlotPool
