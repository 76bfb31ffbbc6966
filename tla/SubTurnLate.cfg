SPECIFICATION Spec
CONSTANTS
    MaxSpawns = 3
    MaxConcurrent = 1
    MaxDepth = 2
    ChannelCap = 1
    MaxAborts = 1
    Fragile = {}
PROPERTIES LateResultsAreOrphans
\* When the root turn has returned, nothing is left to do.
CHECK_DEADLOCK FALSE
