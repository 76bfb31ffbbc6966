\* docs/hooks/README.md: a tool approver returns allow or deny (approve_tool)
\* for tool calls; after a reload nobody asks it.
SPECIFICATION HooksSpec
CONSTANTS
    ToolCalls = {t1, t2}
    DirectCalls = {t2}
    MaxProcesses = 2
    MaxHookReloads = 1
INVARIANT ApproverAsked
CHECK_DEADLOCK FALSE
