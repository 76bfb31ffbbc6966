SPECIFICATION LivenessSpec
CONSTANTS
    \* the agent loop
    Chats = {c1, c2}
    Privates = {p1}
    Msgs = {m1, m2}
    MainSession = c1
    System = System Manual = Manual None = None
    MaxQueueSize = 1
    SteeringAll = TRUE
    MaxOthers = 1
    \* the cron service
    j1 = j1
    CronJobs = {j1}
    CronRequests <- OneJob
    Horizon = 2
    MaxServices = 2
    MaxCronTroubles = 1
    \* the delivery of messages
    i1 = i1 i2 = i2
    Inbounds = {i1, i2}
    Workloads <- TwoMessages
    Long = {}
    QueueSize = 1
    MaxResends = 1
    MaxFaults = 1
    \* the gateway
    MaxEdits = 3
    Invalid = {2}
    NoProvider = {1}
    MaxManual = 2
    MaxBreaks = 1
PROPERTIES RunComesBack DrainsEnd DueJobsRun  ReloadsEnd
\* A behaviour ends where its component's bounds are used up, or it has stopped.
CHECK_DEADLOCK FALSE
