\* Two publishers, two calls each, one slot per channel: a publisher can be
\* blocked on a full channel while the other one overtakes Close.
SPECIFICATION FairSpec
CONSTANTS
    StreamOrder <- MCStreamOrder
    Publishers = {p1, p2}
    Capacity = 1
    MaxCalls = 2
INVARIANTS TypeOK OnlyLatePublishersSeeClosedChannels NothingLeftBehind
PROPERTIES  CloseReturns CancelledCallReturns ImplementsMailbox
\* The bus rests when it is closed and nobody calls, and a panic ends the process.
CHECK_DEADLOCK FALSE
