SPECIFICATION FairSpec
CONSTANTS
    MaxSpawns = 3
    MaxConcurrent = 1
    MaxDepth = 2
    ChannelCap = 1
    MaxAborts = 1
    Fragile = {2}
INVARIANTS TypeOK ConcurrencyBound ResultsAccounted CascadeComplete
PROPERTIES DeliveriesEnd
\* When the root turn has returned, nothing is left to do.
CHECK_DEADLOCK FALSE
