\* The comment in Close says that no publisher adds messages once it has stored
\* `closed`: one publisher and one call refute it.
SPECIFICATION Spec
CONSTANTS
    StreamOrder <- MCStreamOrder
    Publishers = {p1, p2}
    Capacity = 1
    MaxCalls = 1
INVARIANTS NoSendOnClosedChannel
CHECK_DEADLOCK FALSE
