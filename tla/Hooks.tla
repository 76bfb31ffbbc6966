-------------------------------- MODULE Hooks --------------------------------
(***************************************************************************)
(* Tool approval by a hook in a process of its own: the hook manager         *)
(* (pkg/agent/hooks.go), the JSON-RPC client of the process                  *)
(* (hook_process.go), the mounting of the configured hooks (hook_mount.go)   *)
(* and the reload that takes them down (ReloadProviderAndConfig).            *)
(*                                                                          *)
(* One approver is configured, always.  Each tool call asks once; calls of   *)
(* several turns ask the same process at the same time.  The turns Run starts *)
(* for a message do not look whether the hooks are mounted; those of         *)
(* ProcessDirect, ProcessHeartbeat and Continue mount them first             *)
(* (ensureHooksInitialized).  The other stages (before and after LLM and     *)
(* tool) use the same RPC, and go on without the hook when it fails; they    *)
(* and the observers are left out.                                           *)
(***************************************************************************)
EXTENDS Naturals, FiniteSets

CONSTANTS
    ToolCalls,     \* tool calls of turns that run at the same time
    DirectCalls,   \* those of ProcessDirect, ProcessHeartbeat and Continue
    MaxProcesses,  \* bound: hook processes that are started
    MaxHookReloads \* bound: reloads

ASSUME HooksAssumption ==
    /\ IsFiniteSet(ToolCalls) /\ DirectCalls \subseteq ToolCalls
    /\ MaxProcesses \in Nat \ {0} /\ MaxHookReloads \in Nat

VARIABLES
    hookInit,   \* initOnce: "fresh", "starting", "mounting", "done" or "failed"
    listed,     \* hookRuntime.mounted names the hook
    mounted,    \* the process mounted in the hook manager, 0 = none
    unmounting, \* the process whose Close the manager waits for, holding its lock
    reset,      \* reloads, and whether one has still to unmount
    processes,  \* how many have been started
    process,    \* process -> how far it and its waitLoop are
    hookClosed, \* processes whose closed flag is set
    nextId,     \* process -> the last request id
    pending,    \* process -> <<id, call>>: who waits for which response
    received,   \* process, outside -> <<id, call>>: requests it has not answered
    pipe,       \* process -> <<id, answer>>: responses that have not been read
    reader,     \* process -> <<call, answer>> that readLoop is about to hand over
    asking,     \* call -> where it is
    via,        \* call -> the process it asks, 0 = none
    rpcId,      \* call -> the id of its request
    respCh,     \* call -> "empty", an answer, or "closed"
    expired,    \* calls whose time limit has passed
    verdict,    \* call -> "none", "yes" (the tool runs) or "no"
    granted,    \* outside: calls that a process has answered with yes
    onceBroken, \* reset has overwritten a sync.Once in use
    hooksCrashed \* the runtime has ended the program

mountVars == <<hookInit, listed, mounted, unmounting, reset>>
processVars == <<processes, process, hookClosed>>
rpcVars == <<nextId, pending, received, pipe, reader>>
callVars == <<asking, via, rpcId, respCh, expired, verdict>>
hookVars == <<mountVars, processVars, rpcVars, callVars, granted, onceBroken, hooksCrashed>>

Processes == 1..MaxProcesses

\* Run has mounted the hook, and then takes messages.
HooksInit ==
    /\ hookInit = "done" /\ listed = TRUE /\ mounted = 1 /\ unmounting = 0
    /\ reset = [count |-> 0, of |-> 0]
    /\ processes = 1 /\ hookClosed = {}
    /\ process = [p \in Processes |-> IF p = 1 THEN "runs" ELSE "none"]
    /\ nextId = [p \in Processes |-> 0] /\ pending = [p \in Processes |-> {}]
    /\ received = [p \in Processes |-> {}] /\ pipe = [p \in Processes |-> {}]
    /\ reader = [p \in Processes |-> <<>>]
    /\ asking = [c \in ToolCalls |-> "idle"] /\ via = [c \in ToolCalls |-> 0]
    /\ rpcId = [c \in ToolCalls |-> 0] /\ respCh = [c \in ToolCalls |-> "empty"]
    /\ expired = {} /\ verdict = [c \in ToolCalls |-> "none"]
    /\ granted = {} /\ onceBroken = FALSE /\ hooksCrashed = FALSE

-------------------------------------------------------------------------------
(* Mounting and reload *)

\* ensureHooksInitialized: the first caller starts the hook; others wait.
EnsureBegin(c) ==
    /\ c \in DirectCalls /\ asking[c] = "idle"
    /\ hookInit = "fresh" /\ hookInit' = "starting"
    /\ UNCHANGED <<listed, mounted, unmounting, reset, processVars, rpcVars, callVars, granted,
                   onceBroken, hooksCrashed>>

\* NewProcessHook and Mount, which closes a hook of that name; or an error,
\* which is kept until the next reload.
StartHook ==
    /\ hookInit = "starting" /\ unmounting = 0
    /\ \/ /\ processes < MaxProcesses
          /\ processes' = processes + 1
          /\ process' = [process EXCEPT ![processes'] = "runs"]
          /\ hookClosed' = hookClosed \cup ({mounted} \ {0})
          /\ mounted' = processes' /\ hookInit' = "mounting"
       \/ hookInit' = "failed" /\ UNCHANGED <<mounted, processVars>>
    /\ UNCHANGED <<listed, unmounting, reset, rpcVars, callVars, granted, onceBroken, hooksCrashed>>

\* The names are stored; the Once is unlocked, and when it has been
\* overwritten meanwhile that is a fatal error.
EnsureEnd ==
    /\ hookInit = "mounting" /\ hookInit' = "done"
    /\ listed' = TRUE
    /\ hooksCrashed' = onceBroken
    /\ UNCHANGED <<mounted, unmounting, reset, processVars, rpcVars, callVars, granted, onceBroken>>

\* ReloadProviderAndConfig: hookRuntime.reset; the named hooks are unmounted.
ResetHooks ==
    /\ reset.count < MaxHookReloads /\ reset.of = 0 /\ unmounting = 0
    /\ reset' = [count |-> reset.count + 1, of |-> IF listed THEN mounted ELSE 0]
    /\ listed' = FALSE
    /\ IF hookInit \in {"starting", "mounting"}
         THEN onceBroken' = TRUE /\ UNCHANGED hookInit
         ELSE hookInit' = "fresh" /\ UNCHANGED onceBroken
    /\ UNCHANGED <<mounted, unmounting, processVars, rpcVars, callVars, granted, hooksCrashed>>

\* Unmount: Close sets the flag, closes the pipe and waits for the process,
\* while nobody can look at the list of hooks.
UnmountBegin ==
    /\ reset.of # 0 /\ unmounting = 0
    /\ reset' = [reset EXCEPT !.of = 0]
    /\ unmounting' = reset.of /\ hookClosed' = hookClosed \cup {reset.of}
    /\ UNCHANGED <<hookInit, listed, mounted, processes, process, rpcVars, callVars, granted,
                   onceBroken, hooksCrashed>>

UnmountEnd ==
    /\ unmounting # 0 /\ process[unmounting] = "done"
    /\ unmounting' = 0
    /\ mounted' = IF mounted = unmounting THEN 0 ELSE mounted
    /\ UNCHANGED <<hookInit, listed, reset, processVars, rpcVars, callVars, granted, onceBroken,
                   hooksCrashed>>

-------------------------------------------------------------------------------
(* A tool call asks for approval *)

CallFrame == UNCHANGED <<mountVars, processVars, onceBroken, hooksCrashed>>

\* What the caller of ApproveTool gets, unless its time limit has passed.
Verdict(c, answer) ==
    verdict' = [verdict EXCEPT ![c] = IF @ = "none" THEN answer ELSE @]

BeginCall(c) ==
    /\ asking[c] = "idle"
    /\ c \in DirectCalls => hookInit = "done"
    /\ asking' = [asking EXCEPT ![c] = "ready"]
    /\ CallFrame /\ UNCHANGED <<rpcVars, via, rpcId, respCh, expired, verdict, granted>>

\* ApproveTool takes the list of hooks; without an approver the tool may run.
Ask(c) ==
    /\ asking[c] = "ready" /\ unmounting = 0
    /\ via' = [via EXCEPT ![c] = mounted]
    /\ IF mounted = 0
         THEN asking' = [asking EXCEPT ![c] = "over"] /\ Verdict(c, "yes")
         ELSE asking' = [asking EXCEPT ![c] = "check"] /\ UNCHANGED verdict
    /\ CallFrame /\ UNCHANGED <<rpcVars, rpcId, respCh, expired, granted>>

\* An error of the hook denies the tool.
Deny(c) ==
    /\ asking' = [asking EXCEPT ![c] = "over"]
    /\ Verdict(c, "no")

\* The id of the next request.  Faulty variant: the lowest that is free.
LowestFreeId(p) ==
    CHOOSE i \in 1..Cardinality(pending[p]) + 1 : ~\E w \in pending[p] : w[1] = i
NewId(p) == nextId[p] + 1

\* call: the response channel is registered under a new id.
Register(c) ==
    /\ asking[c] = "check"
    /\ IF via[c] \in hookClosed
         THEN Deny(c) /\ UNCHANGED <<nextId, pending, rpcId>>
         ELSE LET p == via[c] IN
              /\ nextId' = [nextId EXCEPT ![p] = NewId(p)]
              /\ rpcId' = [rpcId EXCEPT ![c] = NewId(p)]
              /\ pending' = [pending EXCEPT ![p] = @ \cup {<<NewId(p), c>>}]
              /\ asking' = [asking EXCEPT ![c] = "send"] /\ UNCHANGED verdict
    /\ CallFrame /\ UNCHANGED <<received, pipe, reader, via, respCh, expired, granted>>

\* removePending closes the channel if it is still registered.
RemovePending(c) ==
    LET waits == <<rpcId[c], c>> IN
    /\ pending' = [pending EXCEPT ![via[c]] = @ \ {waits}]
    /\ respCh' = IF waits \in pending[via[c]] THEN [respCh EXCEPT ![c] = "closed"] ELSE respCh

\* send: a closed hook or pipe is an error, and so may be a passed limit.
SendRequest(c) ==
    LET p == via[c] IN
    /\ asking[c] = "send"
    /\ \/ /\ p \notin hookClosed /\ process[p] = "runs"
          /\ received' = [received EXCEPT ![p] = @ \cup {<<rpcId[c], c>>}]
          /\ asking' = [asking EXCEPT ![c] = "wait"]
          /\ UNCHANGED <<pending, respCh, verdict>>
       \/ /\ p \in hookClosed \/ process[p] # "runs" \/ c \in expired
          /\ RemovePending(c) /\ Deny(c) /\ UNCHANGED received
    /\ CallFrame /\ UNCHANGED <<nextId, pipe, reader, via, rpcId, expired, granted>>

GetAnswer(c) ==
    /\ asking[c] = "wait" /\ respCh[c] # "empty"
    /\ asking' = [asking EXCEPT ![c] = "over"]
    /\ Verdict(c, IF respCh[c] = "yes" THEN "yes" ELSE "no")
    /\ CallFrame /\ UNCHANGED <<rpcVars, via, rpcId, respCh, expired, granted>>

\* runApprovalHook: the time limit passes and the tool is denied; the RPC goes
\* on until it notices.
ApprovalTimeout(c) ==
    /\ asking[c] \in {"check", "send", "wait"} /\ verdict[c] = "none"
    /\ expired' = expired \cup {c} /\ Verdict(c, "no")
    /\ CallFrame /\ UNCHANGED <<rpcVars, asking, via, rpcId, respCh, granted>>

StopWaitingForAnswer(c) ==
    /\ asking[c] = "wait" /\ c \in expired
    /\ asking' = [asking EXCEPT ![c] = "over"]
    /\ RemovePending(c)
    /\ CallFrame
    /\ UNCHANGED <<nextId, received, pipe, reader, via, rpcId, expired, verdict, granted>>

-------------------------------------------------------------------------------
(* The process and the goroutines that serve it *)

ProcessFrame == UNCHANGED <<mountVars, processes, hookClosed, onceBroken>>

\* Outside: the process answers a request, in any order.
Decide(p) ==
    /\ process[p] = "runs"
    /\ \E q \in received[p], answer \in {"yes", "no"} :
          /\ received' = [received EXCEPT ![p] = @ \ {q}]
          /\ pipe' = [pipe EXCEPT ![p] = @ \cup {<<q[1], answer>>}]
          /\ granted' = IF answer = "yes" THEN granted \cup {q[2]} ELSE granted
    /\ ProcessFrame /\ UNCHANGED <<process, nextId, pending, reader, callVars, hooksCrashed>>

\* Outside: it ends by itself, or is made to by Close.
ExitProcess(p) ==
    /\ process[p] = "runs" /\ process' = [process EXCEPT ![p] = "exited"]
    /\ ProcessFrame /\ UNCHANGED <<rpcVars, callVars, granted, hooksCrashed>>

\* readLoop takes the waiting call out of pending ...
ReadAnswer(p) ==
    /\ process[p] \in {"runs", "exited"} /\ reader[p] = <<>>
    /\ \E a \in pipe[p] :
          LET waiting == {w \in pending[p] : w[1] = a[1]} IN
          /\ pipe' = [pipe EXCEPT ![p] = @ \ {a}]
          /\ pending' = [pending EXCEPT ![p] = @ \ waiting]
          /\ \/ waiting = {} /\ UNCHANGED reader
             \/ \E w \in waiting : reader' = [reader EXCEPT ![p] = <<w[2], a[2]>>]
    /\ ProcessFrame /\ UNCHANGED <<process, nextId, received, callVars, granted, hooksCrashed>>

\* ... and hands it the answer.
HandOver(p) ==
    /\ reader[p] # <<>> /\ reader' = [reader EXCEPT ![p] = <<>>]
    /\ LET c == reader[p][1] IN
          /\ respCh' = [respCh EXCEPT ![c] = reader[p][2]]
          /\ hooksCrashed' = (respCh[c] # "empty")
    /\ ProcessFrame
    /\ UNCHANGED <<process, nextId, pending, received, pipe, asking, via, rpcId, expired, verdict,
                   granted>>

\* waitLoop: cmd.Wait closes the pipes, with what has not been read ...
Reap(p) ==
    /\ process[p] = "exited" /\ process' = [process EXCEPT ![p] = "reaped"]
    /\ pipe' = [pipe EXCEPT ![p] = {}] /\ received' = [received EXCEPT ![p] = {}]
    /\ ProcessFrame /\ UNCHANGED <<nextId, pending, reader, callVars, granted, hooksCrashed>>

\* ... and every call that still waits fails.
FailPending(p) ==
    /\ process[p] = "reaped" /\ process' = [process EXCEPT ![p] = "done"]
    /\ respCh' = [c \in ToolCalls |->
                     IF \E w \in pending[p] : w[2] = c THEN "no" ELSE respCh[c]]
    /\ pending' = [pending EXCEPT ![p] = {}]
    /\ ProcessFrame
    /\ UNCHANGED <<nextId, received, pipe, reader, asking, via, rpcId, expired, verdict, granted,
                   hooksCrashed>>

-------------------------------------------------------------------------------
HooksNext ==
    /\ ~hooksCrashed
    /\ \/ StartHook \/ EnsureEnd \/ ResetHooks \/ UnmountBegin \/ UnmountEnd
       \/ \E c \in ToolCalls :
             \/ EnsureBegin(c) \/ BeginCall(c) \/ Ask(c) \/ Register(c) \/ SendRequest(c)
             \/ GetAnswer(c) \/ ApprovalTimeout(c) \/ StopWaitingForAnswer(c)
       \/ \E p \in Processes :
             Decide(p) \/ ExitProcess(p) \/ ReadAnswer(p) \/ HandOver(p) \/ Reap(p) \/ FailPending(p)

HooksSpec == HooksInit /\ [][HooksNext]_hookVars

-------------------------------------------------------------------------------
(* Properties *)

HooksTypeOK ==
    /\ hookInit \in {"fresh", "starting", "mounting", "done", "failed"}
    /\ {listed, onceBroken, hooksCrashed} \subseteq BOOLEAN
    /\ {mounted, unmounting, processes} \subseteq 0..MaxProcesses
    /\ process \in [Processes -> {"none", "runs", "exited", "reaped", "done"}]
    /\ \A p \in Processes : \A w \in pending[p] : w[1] \in 1..nextId[p] /\ w[2] \in ToolCalls
    /\ asking \in [ToolCalls -> {"idle", "ready", "check", "send", "wait", "over"}]
    /\ respCh \in [ToolCalls -> {"empty", "yes", "no", "closed"}]
    /\ verdict \in [ToolCalls -> {"none", "yes", "no"}]
    /\ expired \cup granted \subseteq ToolCalls

\* A tool that an approver was asked about runs only if the approver has said
\* yes to that very call: late answers, answers out of order, a process that
\* exits and a hook that is taken down while calls wait for it grant nothing
\* to others (ids, pending, failPending).  No answer meets a closed channel.
GrantsAreOwn ==
    /\ \A c \in ToolCalls : verdict[c] = "yes" /\ via[c] # 0 => c \in granted
    /\ hooksCrashed => onceBroken

\* A configured approver is asked about every tool call ("Tool approver:
\* approve_tool, returns allow/deny").
ApproverAsked == \A c \in ToolCalls : verdict[c] = "yes" => via[c] # 0
===============================================================================
