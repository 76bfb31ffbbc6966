SPECIFICATION JSONLSpec
CONSTANTS
    MaxMsgs = 3
    MaxKeep = 1
    Summaries = {none} NoSummary = none
INVARIANT AcknowledgedKept
