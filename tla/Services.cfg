SPECIFICATION ServicesSpec
CONSTANTS
    \* the session store
    MaxMsgs = 5
    MaxKeep = 3
    Summaries = {none, s1} NoSummary = none
    \* the cron service
    j1 = j1
    CronJobs = {j1}
    CronRequests <- OneJob
    Horizon = 2
    MaxServices = 2
    MaxCronTroubles = 1
    \* the delivery of messages
    i1 = i1 i2 = i2
    Inbounds = {i1, i2}
    Workloads <- SmallWorkloads
    Long = {1}
    QueueSize = 1
    MaxResends = 1
    MaxFaults = 1
    \* the import of legacy sessions
    SessionKeys = {k1, k2}
    Chatter = {a, b}
    Old = Old
    MaxStarts = 3
    MaxIOErrors = 1
    \* the fallback chain
    Chain <- TwoCandidates
    FallbackCallers = {e1, e2}
    Moments = {0, 6, 300, 1441}
    MaxMisses = 2
    \* the gateway
    MaxEdits = 3
    Invalid = {2}
    NoProvider = {1}
    MaxManual = 2
    MaxBreaks = 1
    \* the WeCom channel
    Requests = {r1}
    MaxReplies = 2
    MaxLinks = 2
    MaxLostAcks = 1
    \* the hooks
    ToolCalls = {t1, t2}
    DirectCalls = {t2}
    MaxProcesses = 2
    MaxHookReloads = 1
    \* the MCP servers
    Servers = {v1, v2}
    ToolTurns = {u1, u2}
    ClonedTurns = {u2}
    ToolTTL = 1
    MaxRounds = 2
INVARIANTS ServicesTypeOK StoreConsistent OneShotOnce  LanesKept OneGeneration
           ImportSurvivesCrashes AnswersSound GrantsAreOwn SessionsOutliveCalls
PROPERTIES ImplementsStore CooldownNotShortened
\* A behaviour ends where its component's bounds are used up, or it has stopped.
CHECK_DEADLOCK FALSE
