\* stopAndCleanupServices: "reload should not stop channel manager".
SPECIFICATION GatewaySpec
CONSTANTS
    MaxEdits = 3
    Invalid = {2}
    NoProvider = {1}
    MaxManual = 2
    MaxBreaks = 1
INVARIANT ManagerRuns
CHECK_DEADLOCK FALSE
