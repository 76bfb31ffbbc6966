SPECIFICATION FairSpec
CONSTANTS
    MaxTurns = 3
    MaxIterations = 2
    MaxCalls = 2
    MaxRetries = 1
    KeepRecent = 2
    MaxBatch = 2
    MaxTroubles = 1
INVARIANTS
    TypeOK
    RequestsWellFormed
    AbortLeavesNoTrace
    
PROPERTIES
    TurnEnds
CONSTRAINT LastTurnShort
CHECK_DEADLOCK FALSE
