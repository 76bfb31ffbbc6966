# A verification project for halfmoon

halfmoon is a personal AI assistant written in Go: chat platforms publish user
messages on a bus, an agent loop runs a *turn* (LLM calls and tools) for each of
them, sub-turns run beside it, sessions are kept on disk, and the answers go
back through the bus to the platforms. This directory holds TLA+ models of its
core, the TLC configurations that check them, and TLAPS proofs about them.

Checking a model and a proof (from this directory):

    tlc -workers 2 -config AgentLoop.cfg MCAgentLoop.tla
    tlapm AgentLoopProofs.tla

## 1. Inventory

What each part keeps, what it does, how it meets the others. `PROJECT.json`
lists the same parts with their files and, under `hazards`, each place where
something could go wrong that a test would hardly reach.

| part | state | operations | meets | module |
|---|---|---|---|---|
| message bus (`pkg/bus`) | three buffered channels, `done`, `closed`, a WaitGroup | `Publish*`, reading, `Close` | everybody | `MessageBus` |
| agent loop (`pkg/agent/loop.go`) | the running cycle, `activeTurnStates` | `Run`, `drainBusToSteering`, `processMessage`, `Continue`, `ProcessDirect`, `ProcessHeartbeat` | bus, steering, turns | `AgentLoop` |
| steering (`steering.go`) | a queue of at most 10 messages per scope | `Steer`, polls of `runTurn`, `Interrupt*`, `HardAbort` | loop, turns | `AgentLoop`, `TurnHistory`, `SubTurn` |
| turn (`turn.go`, `runTurn`) | phase, iteration, restore point, persisted messages | the LLM and tool loop, abort, compression | sessions, hooks, sub-turns | `TurnHistory` |
| summarizer (`summarizeSession`) | sessions being summarised | snapshot, LLM, `SetSummary`, `TruncateHistory` | sessions, beside turns | `TurnHistory` |
| sub-turns (`subturn.go`) | tree of turns, a semaphore and a result channel per turn | `spawnSubTurn`, `deliverSubTurnResult`, `Finish` | parent turn | `SubTurn` |
| session store (`pkg/memory`) | a JSONL file and a metadata file per session | add, truncate, set, compact, summary | turns, summarizer | `JSONLStore` |
| its import (`migration.go`, `instance.go`) | legacy files, backups | `MigrateFromJSON`, fall back to `SessionManager` | start-up | `Migration` |
| cron (`pkg/cron`) | job list (file), timer loop, wake channel | add, update, remove, enable, `checkJobs`, `executeJobByID` | loop, gateway | `Cron` |
| channel manager (`pkg/channels/manager.go`) | workers with two queues, placeholders, typing | dispatch, retry, `SendMessage`, `StopAll`, janitor | bus, platforms | `Delivery` |
| WeCom adapter (`wecom/aibot_ws.go`) | a connection, a task and a route per request | read loop, stream, push, `Send` | bus, manager | `WeCom` |
| gateway (`pkg/gateway`) | the services, a watcher, a reload flag | reload, shut down | all services | `Gateway` |
| fallback (`pkg/providers`) | cool-downs per candidate | `Execute`, `MarkFailure`, `MarkSuccess` | turns | `Fallback` |
| hooks (`pkg/agent/hook*.go`) | mounted hooks, a process each with pending requests | mount, reset, `approve_tool` | turns, reload | `Hooks` |
| MCP and tool registry (`pkg/mcp`, `pkg/tools`) | sessions, hidden tools with a time to live | initialise, call, search, `Close` | turns, loop | `ToolServers` |
| heartbeat, event bus, routing, splitting, adapters, providers, config, auth, media, state, devices, voice, web, CLI | | I/O, conversions, one lock each | start-up, users | none, see section 7 |

What is hard here:

* **Goroutines without a common lock.** A drain goroutine per message outlives
  its cycle; `activeTurnStates` and the steering queues are shared by `Run`,
  cron, heartbeat, sub-turns and API callers; checks and actions are separate
  (`publish`, `Continue`, `deliverSubTurnResult`, `spawnSubTurn`, `CallTool`).
* **Shutdown, reloads and aborts in the middle of things**: `Close` against
  publishers and tool calls, `HardAbort` against children that come and go,
  `StopAll` against dispatchers, a reload against hooks, jobs and channels.
* **Bounded buffers**: a full channel or queue blocks, drops, or blocks the one
  that would empty it.
* **Crashes and failing writes** between the two files of a session, in the
  middle of a line, of an import, of a scheduled job.
* **Stale snapshots**: the summarizer truncates a history it read two minutes
  ago; retries follow a compression that has rewritten it; `UpdateJob` writes an
  old copy back.
* **Late answers**: a hook's response behind its time limit, a model's answer
  behind a lost connection or the end of its stream.

## 2. Plan

All modules of the plan exist; the order was that of the table's importance:
bus, agent loop, store, sub-turns, turn history, cron, delivery, import,
fallback, gateway, WeCom, hooks, tool servers. What would come next:

1. results of sub-turns in the history of a turn that is not a root
   (`TurnHistory` models turns whose `pendingResults` is nil), and two turns in
   one session;
2. `Manager.Reload` with changed channels, registration of channels at run time;
3. text algorithms (`SplitMessage`, routing) over words of a few characters.

## 3. The modules

### MessageBus, Mailbox (`pkg/bus/bus.go`)

`publish` is four steps, because other goroutines run between them: the load of
`closed` (`Call`), the non-blocking look at `ctx` and `done` (`Check`), `wg.Add`
(`Register`) and the blocking select (`Send`, `SendOnClosed`, `GiveUp`); the
deferred `wg.Done` is `Leave`. `Close` is one action per statement. `wg` is the
set of registered publishers; `WaitGroup.Wait` is modelled as Go implements it:
the publisher that brings the counter to zero releases the waiter
(`released`), and a counter found non-zero by the released waiter is the
runtime's panic "WaitGroup is reused". A panic ends the process (`crashed`).

`Mailbox` is what users of the bus may rely on: streams that are open, hand on
in FIFO order and at most once, are shut for good, and lose messages only when
all of them are shut. `ImplementsMailbox` refines it with `open` the channels
not yet closed. The stream delegate, one atomic pointer, is not modelled.

### AgentLoop (`pkg/agent/loop.go`, `steering.go`)

`Run` takes a message (`Take`, `TakeSystem`), starts a drain for its session,
runs a turn (`EndTurn`), continues while its steering queue is not empty
(`Check`, `Continue`, `Dequeue`, `EndResumed`), cancels the drain (`Cancel`),
continues once more, and publishes. The two loops differ in what they do when
`Continue` returns nothing (the first returns without publishing, loop.go:569;
the second breaks, loop.go:597), which `second` tells apart. `drain` keeps a
goroutine per message `Run` took: blocking, draining without looking at its
context, holding a message, done.

A turn is seen from outside: the first poll, which falls back to the manual
queue, later polls of its own queue, the poll that finds nothing and after which
it polls no more, and its end. `turn["other"]` is a turn of another caller:
`ProcessDirect` of cron in any session, or heartbeat and sub-turns in private
ones. `heard` records what a session's turns have put into it.

Messages are model values with the scope they resolve to; the inbound channel
has room for all of them (64 slots in the code; the bus itself is modelled in
`MessageBus`). `Run`'s shutdown, routing errors and the message tool's
suppression of an answer are left out.

### TurnHistory (`runTurn`, `turn.go`, `context*.go`, `summarizeSession`)

The body of a turn as the session sees it: the user message (`Begin`, `Save`,
`Capture`), the polls that inject steering messages (`Inject`), the request built from the
history (`Rebuild`, `Sanitize`), the LLM call with its retries (`Ask`,
`Answer`, `Retry`, `Fail`), `forceCompression` taken apart at its accesses to
the store (`Compress`, `Note`, `Cut`, `Refresh`), the batch of tool calls
(`RunTool`, `DenyTool`, `SkipTool`), the end (`Finish`) and the abort with its
restore in two writes (`Restore`, `RestoreSummary`). The summarizer is a second
actor (`Snapshot`, `Decide`, `StoreSummary`, `TruncateRest`), `HardAbort`'s
rollback a third (`Rollback`, `RollbackWrite`), interrupts and steering come at
any time. The store is what `SessionStore` promises, without failures.

A message is its role, a number, its turn, and for tool messages the call it
answers; a summary is the set of messages it covers. `fate` is the history: which turns
were undone, what notes of a compression have counted, and whether two goroutines
have written the session over each other. The properties name these overlaps as
their exceptions, because the code really loses messages there; section 5 lists them.

### JSONLStore, SessionStore (`pkg/memory/jsonl.go`, `store.go`)

One session: `lines` and `ended` are the JSONL file (whose last line may lack its
newline), `skip`, `count`, `summary` the metadata file. The session's mutex
makes operations sequential, so that an operation that takes two writes is an
action per write with `op` in between, and `Fail` - a crash, or an error that
makes the operation return - can come between them. `AppendPart` is an append that
put only a part of its text on the disk. `WriteFileAtomic` (temporary file,
fsync, rename) is one atomic write. Messages are numbered as they are written.

`SessionStore` is the promise: each operation happens at once, except that a
failed rewrite may bring back truncated messages (`buried`) in front, and an
append that failed half-way may cost the messages next to it until the next
rewrite. `did` is the operation that takes effect in a step, so that a step may not
be explained by another operation's effect. `ImplementsStore` maps `history` to
what `GetHistory` would return, or to the old history while a rewrite is under
way. Sessions do not share files or state, so one is enough.

### Migration (`memory/migration.go`, `agent/instance.go`, `session/manager.go`)

Processes start and end at any moment on one directory. Each imports the legacy
files one after the other in any order (`ImportHistory`, `ImportSummary`,
`RenameLegacy`), goes on with the JSONL store, or, when a write fails, falls back to
the legacy `SessionManager`, which loads the files it finds - the metadata files
of the JSONL store too, since they end in `.json` (`Loaded`).

### SubTurn (`pkg/agent/subturn.go`, `turn.go`, `HardAbort` in `steering.go`)

Turns are numbered in the order they are spawned; `st` is where the goroutine of
each is between `spawnSubTurn`'s entry and the end of its deferred functions.
A slot of the parent's semaphore is `holds`/`sem`; `chan` is `pendingResults`;
`finished` is `isFinished`, set before `closed` (the channels and the context).
The recursion of `Finish(true)` is the stack `abort`. `StopWaiting` is the
concurrency timeout or the cancellation of the caller; `Refuse` the depth limit
or a bad configuration; `Panic` a panic inside `runTurn`, after which a nil
result is delivered and the slot is freed by the deferred function only.

A root turn has no channel, no semaphore and no reference to the loop
(`newTurnState` sets none), so that it never blocks a child, always gets orphans
and does not cascade. `Finish(false)` has no caller in the code, so that
`parentEnded` never becomes true and is left out. `fate` and `due` are
histories: what became of a result, and which children were attached when
`Finish(true)` of their parent began. Children registered or spawned later
escape the cascade; `CascadeComplete` says what is left of it.

### Cron (`pkg/cron/service.go`)

The store of jobs in memory and in the file, the timer loop (`ReadWake`, `Arm`,
`CheckJobs`, `RunJob`, `JobDone`) with its unbuffered wake channel, which only a
loop that is in its select hears (`Notify`), and the calls of the cron tool,
each one step under the lock. A reload stops the service and loads a new one
while the old loop may still execute a job; a crash keeps only the file; a save
may fail and leaves the memory changed. Time is a small integer.

### Delivery (`channels/manager.go`, `base.go`)

A dispatcher per lane (text, media), the worker of one channel with its two
queues, `SendMessage` in its caller's goroutine, chunks, retries with back-off,
the placeholder that is edited into the answer, the typing indicator with the
stop function that is recorded after it was started, the janitor, and `StopAll`
in the order of the code. The platform is external: a send that reports an error
may have been delivered. One channel and one chat, because everything is kept
per channel and chat.

### Gateway (`gateway/gateway.go`)

The main loop and what a reload does, step by step: the trigger and the watcher
(`TakeConfig`, `TakeManual`, `Refuse`), stopping (`StopServices`), the new provider
(`ReloadAgent`), restarting (`RestartServices`), where each service may fail to
start. A service is the generation that made it; `live` are the generations that run,
`current` the one the gateway holds.

### Fallback (`providers/fallback.go`, `cooldown.go`)

`Execute` for several callers that share the tracker: a candidate may be marked
by another caller between the look at its cool-down and the end of the call. The
arithmetic of the cool-downs is exact, in minutes; the clock jumps between the
moments at which they begin and end.

### WeCom (`channels/wecom/aibot_ws.go`)

The connection that breaks and comes back, a task per request with its stream, its
deadline and its cancellation, and `Send`, which decides by `getReqState` whether
the answer goes to the task, as a push, or nowhere. A frame is written to
the connection held when it is built, and its response may be late or a refusal.

### Hooks (`agent/hooks.go`, `hook_process.go`, `hook_mount.go`)

One configured tool approver in a process. Mounting under `initOnce`, the reload
that unmounts and replaces the `sync.Once`, and the RPC: the id from the
process's counter, the entry in `pending`, the write, the answer or the time
limit, the read loop that takes an entry out and hands the answer over, the
process that exits and fails what is pending.

### ToolServers (`mcp/manager.go`, `agent/loop_mcp.go`, `tools/registry.go`)

Connecting to the servers, registering their tools as hidden ones, search and
promotion with a time to live that all turns tick, the clone a sub-turn works
with, and `CallTool`'s two looks at `closed` and `wg.Add` against `Close`.

## 4. Runs

| run | configuration | what it shows |
|---|---|---|
| `message_bus` | 2 publishers, 2 calls each, 2 channels of capacity 1 | seven properties of Close, publishers and readers; 360,400 states |
| `message_bus_closed_send` | as above with 1 call | **violated**: a publisher reaches the send on a closed channel |
| `agent_loop` | 4 messages (see below), 2 chats, 1 private session, queues of 2, 1 foreign turn, one-at-a-time | six properties of where messages go; 283,979 states up to symmetry |
| `agent_loop_echo` | 2 messages | **violated**: a message of another chat goes to the outbound channel |
| `turn_history` | 2 turns and the beginning of a third, 2 iterations, 2 tool calls, 1 retry, 2 messages the summarizer leaves alone, 1 trouble | requests are well-formed, aborts leave nothing, nothing is forgotten, turns end; 752,113 states |
| `sub_turn` | 3 sub-turns, 1 slot, 1 buffered result, depth 2, 1 abort, 1 turn that may panic | slots, results, cascade, deliveries end; 702,890 states |
| `sub_turn_late` | as above | **violated**: a result for a turn that has returned goes into its channel |
| `session_store_torn` | 3 messages | **violated**: an acknowledged message is lost after a half-written one |
| `services` | nine components, see below | twelve properties; 540,986 states |
| `liveness` | agent loop (2 messages, queues of 1, mode `all`), cron, delivery, gateway | cycles and drains end, due jobs run, typing stops, reloads end; 141,125 states |
| `hooks_approver` | as in `services` | **violated**: after a reload a tool runs without its approver |
| `gateway_manager` | as in `services` | **violated**: after a reload the gateway holds a manager that does not run |

**One run for several components.** The components in `services` and `liveness` do
not interact in the models. A variable `part` chooses one in the initial state,
and only that one moves, so that the states of the run are the sum of theirs. Each
property reads the variables of one component only, and is as strong as in a run of its
own. The fairness of `liveness` is that of the modules, with each action restricted
to the behaviours in which its component moves.

**Bounds.** Every buffer has one or two slots, so that "full" is reached with two or
three messages; the constants of the code (64, 16, 10, 5) only make it rarer.

* *bus*: two publishers suffice for one to be blocked while another is late.
* *agent loop*: three messages give one that `Run` processes, one that its drain
  moves and one that an old drain holds; two chats and a private session give every
  relation of scopes that the code tells apart; one foreign turn gives every
  interference with `active`. A reordering of one chat needs a fourth: two cycles
  of that chat, and a message in the hands of the drain of each. `Affordable`
  therefore allows four messages (all to one chat, no foreign turn), or `FewMsgs`
  = 3 of any kind. `SYMMETRY` on messages, without liveness only.
* *turn history*: two turns, so that the second meets what the first and the
  summarizer left, and where `HardAbort` has cut off a batch, a third one up to its
  first request (`LastTurnShort`), which meets what was appended after the
  cut; two calls in a batch, so that it can be cut in the middle; a
  trouble is a message that arrives, a request too large for the context window, an interrupt or a
  `HardAbort`. Two troubles held as well in two turns (12.6 million states), and three whole
  turns with one call in a batch (3.1 million).
* *sub-turns*: a parent with two children, so that one result fills the channel and
  the next one blocks, and a chain of depth 2 in which the third is refused.
* *store*: five messages let it truncate, compact, fail in between and append again.
* *migration*: two sessions and two messages, three processes, one failing write.
* *cron*: one job of three kinds of request, two moments, two services, one trouble
  (a removal, a disabling or a failing save). Two jobs held as well.
* *delivery*: four workloads (two texts, one of them in two chunks; text and media;
  text and a caller; two inbound messages), a queue of one, one retry, one fault.
* *fallback*: two candidates, two callers, moments on both sides of each
  cool-down's end and of the failure window, two failures.
* *gateway*: four contents of the file, one invalid, one whose provider
  fails, two manual reloads, one service that fails to start.
* *WeCom*: one request with two answers, two connections, one late or refusing
  response. Two requests held as well (3.4 million states); they share nothing but
  the connection and the worker.
* *hooks*: two calls, one of which mounts the hooks first, two processes, one reload.
* *servers*: two servers, two turns, one of them a sub-turn, two rounds. Three turns
  held as well.

**Deadlock** is checked in no run but `session_store_torn`'s component: the others
may rest - a bus that is closed, a loop to which nobody writes, a root
turn that has returned, a component whose bounds are used up. That nobody waits for ever is
stated by liveness properties instead (`CloseReturns`, `CancelledCallReturns`,
`DeliveriesEnd`, `TurnEnds`, `RunComesBack`, `DrainsEnd`, `ReloadsEnd`).

**Fairness** is weak, for each goroutine that can run, which is what the Go
scheduler gives. A turn is assumed to end because its iterations, LLM calls, retries and
tool calls are bounded (`MaxIterations`, timeouts); `TurnEnds` checks the
bounds of the iterations themselves. Cron: the clock goes on, and callbacks
return. Delivery: `HandleMessage` goes on, and the janitor runs its ticker until
`StopAll` cancels it. Gateway: the main loop and the watcher. Users, readers of
the bus, cancellations, `Steer`, `HardAbort`, panics, faults and crashes are never
assumed to happen. No property needs strong fairness.

**Mutants.** For each property of a passing run, `PROJECT.json` names a faulty
variant of a definition (they stand beside the originals, marked "Faulty
variant") under which TLC finds the property violated.

## 5. Findings

1. **Send on a closed channel** (`message_bus_closed_send`). `publish` checks
   `done` and calls `wg.Add` later; `Close` can run completely in between. The
   comment in `Close` (bus.go:124-125) says this cannot happen.
   `OnlyLatePublishersSeeClosedChannels` is what does hold, and is proved.
2. **Messages of other chats are sent back to their senders**
   (`agent_loop_echo`). `requeueInboundMessage` publishes on the outbound
   channel; docs/steering.md and loop.go:612-614 say inbound.
3. **An acknowledged message is lost** (`session_store_torn`) when it is appended
   to a file whose last line an earlier append left unfinished.
4. **Late results are not orphans** (`sub_turn_late`): a turn that has returned is
   never marked finished, because nothing calls `Finish(false)`.
5. **The configured approver is not asked after a reload** (`hooks_approver`,
   loop.go:1073): `reset` unmounts the hooks, and the turns `Run` starts for
   messages of the bus never mount them again.
6. **A reload replaces the running channel manager by one without channels**
   (`gateway_manager`, gateway.go:517), although "reload should not stop channel
   manager" (gateway.go:373).

Seen while modelling, without a run:

* *sub-turns*: docs/subturn.md and subturn.go:503 say that a full channel makes the
  result an orphan, while the code waits (the guard of `Send`). A root turn has no
  reference to the loop, so that its `HardAbort` reaches no sub-turn.
* *store*: the comment at jsonl.go:428 says that the next `Compact` corrects a
  crash, while `Compact` returns at once because `Skip` is 0 by then.
* *agent loop*: `Run` drops an answer it holds when any other turn is active
  (loop.go:559-568), which `AnswerPublished` states as its exception. Two messages of
  one chat may change places: a drain that was cancelled takes the later one off the
  channel and enqueues it before the drain of the present cycle enqueues the earlier
  one (loop.go:616-681), which `ArrivalOrderKept` states as its exception.
* *turn history*: `HardAbort` of a root turn rolls the session back while the turn runs on; when
  it does so between the results of a batch of tool calls, the rest of the results is appended
  to the history without its assistant message, and if that history ends in
  the results of an earlier batch, `sanitizeHistoryForProvider` takes them for
  results of that one (context.go:709-730): every later request of the session has tool results that
  answer no call, until they are compressed away (the exception of `RequestsWellFormed`).
  An abort whose compression has moved the restore point leaves
  messages of the aborted turn; between the two writes of a restore the summarizer may
  write; a summary in several parts drops the one that was there; `summarizeSession`
  truncates messages that were appended after its snapshot, and cuts in the middle of turns
  (loop.go:3008-3009, 3085) while docs/agent-refactor/context.md says that no turn is split.
* *cron*: an "at" job whose moment passes while the service is down is never
  executed; a save by a service that was replaced overwrites the file (`crossed`); a
  job whose save failed stays in memory.
* *delivery*: a dispatcher that holds a message while `StopAll` closes the queues
  may send on a closed queue; the workers' context is cancelled before their
  queues are closed, so that queued messages may be dropped although a comment says that they
  are drained; a second placeholder leaves the first one standing.
* *migration*: after a fallback the `SessionManager` loads metadata files as empty
  sessions; a failed rename imports an old history again (which is why
  `ImportSurvivesCrashes` is about processes without failing writes).
* *gateway*: the watcher drops a newer configuration while one is queued; a shutdown
  stops the new channel manager only.
* *WeCom*: an answer that arrives while the deadline's last frame is written is
  never shown; a second answer after the first was streamed is pushed to a
  chat that does not exist; a final frame that fails is only logged.
* *hooks*: `reset` overwrites a `sync.Once` that may be in use, which ends the
  program (`onceBroken`).
* *servers*: a call between its second look at `closed` and `wg.Add` may lose its
  session (`raced`), although comments say that this is prevented; tools of MCP servers disappear after a
  reload; a sub-turn's search promotes in its parent's registry and not in its clone.

## 6. Proofs

Eight modules of theorems, for every value of the constants that satisfies the
assumption of the module (`BusAssumption`, `LoopAssumption`, `SubTurnAssumption`,
...). Each follows the same line: the property is not inductive, a stronger invariant
is, which `PROJECT.json` lists as the first theorem of its module; one lemma per
group of actions shows that it is kept, and the property follows from it.

* `MessageBusProofs`: `BusTypeOK`, `BusProtectsRegistered`, `BusLeavesNothing`. `IInv` adds to the types:
  the flags `done` and `closed` tell how far `Close` has come
  (`FlagsFollowClose`); `wg` holds exactly the publishers between `Add` and
  `Done`, all of them late once `Wait` has returned (`GroupHoldsRegistered`);
  channels are closed one by one and only after `Wait` (`ShutInOrder`); and a
  channel that has been drained stays empty (`DrainedInOrder`).
  `BusRefusesAfterDone` is an action property. `BusImplementsMailbox` is the
  refinement: the interesting steps are `CloseShut` and `CloseDrain`.
  `BusCallsReturn` is the liveness property `CancelledCallReturns` (see *Liveness*).
* `AgentLoopProofs`: `LoopTypeOK`, `LoopIsolatesScopes` and `LoopLosesNothing`. Isolation needs
  that a message in a session's queue resolves to this session or came
  through `Steer` (`QueueOK`), the same of what has been heard (`HeardOK`),
  that a running drain was started for a chat's message, and what it holds was
  sent (`DrainOK`), that `Run`'s message and turn belong together (`RunOK`,
  `TurnOK`), and that everything on the bus has been sent (`BusOK`).
  `LoopLosesNothing` is `ExactlyOnePlace`. It counts, and its invariant
  `PlaceInv` does not: the places (`Places`, with their content `At`) share no
  message, hold none twice, and have every message that was sent; a drain holds
  something only while it says so, and was started for a message that has left
  the bus for its session (`HandOK`), so that `Run` never starts a drain over one
  that still holds a message. Each step moves a set of messages from one place to
  another (`Moves`), which keeps this whatever the places are.
  `LoopStrandsNothing` and `LoopPublishes` need to know where the cycle is:
  `CycleInv` says that only the drain of the present cycle is not cancelled,
  that a message in its chat's queue is one `Run` will still look for, unless it
  was enqueued late or left behind (`QueuedOK`), and that a queue found non-empty stays
  so as long as no other caller's turn interferes (`FoundOK`). `LoopKeepsOrder` adds
  `OrderInv`: what is on the bus arrived last, and of two messages of a
  chat in turn the later one is never ahead - in the session, in the queue,
  or there while the earlier one is still queued or in a drain's hand.
* `TurnHistoryProofs`: `TypesCorrect`, `AbortsAreClean`, `NoMessageIsForgotten`,
  `RequestsAreWellFormed`. The invariant
  `Inv` is about the copies of the history that somebody may write back: the restore point,
  what `forceCompression` keeps, what `HardAbort` and the summarizer have read.
  `AbortInv`: they have no message of an aborted turn, and while a turn runs without a
  compression its restore point has none of its own, so that aborting it leaves nothing.
  That needs what the operators on histories do: `Half`, `LastOf`, `Sanitize` and a cut at a
  safe boundary return a part of what they are given (`PartOf`), and the restore
  point that `Refresh` computes is a prefix without the turn's messages where they match
  (`OwnedInv`: a message names the turn that wrote it, and `mine` has the turn's own only).
  `NoneLost`: as long as no write has crossed another, every message that was written is
  in the history, the summary or a note, or its turn was undone (`Covered`); the same
  of what a restore would write, except for the turn's own messages; and what the
  others hold is what the session still is (`OthersInv`), so that the messages the
  summarizer cuts off are those it has summarised.
  `RequestsAreWellFormed` rests on what can happen to a history (`Told`): its messages are in the
  order in which they were written, no other message is within a batch of calls and
  results, and a result lacks the one in front of it only at the beginning of the
  history or when `HardAbort` has cut its batch. This holds of all the copies (`ToldInv`), because a
  result is written while its batch is the youngest in each of them (`BatchInv`).
  `SanitizeSound` is about the code alone: of every such history
  `sanitizeHistoryForProvider` makes a conversation in which calls have their results and results their
  calls. The first pass puts a result behind its own calls, or behind calls that have lost
  all their results (`Passed`, `Left`); the second drops the latter and keeps or drops a batch as a
  whole (`RestIs`). A turn then adds to a sound conversation, or to one that ends with the batch it
  is carrying out (`TalkInv`).
* `SubTurnProofs`: `SubTurnTypes`, `SlotsBoundChildren`, `NoResultLost`,
  `AbortReachesChildren`. `SubTurnInv` has four parts: what is known of the tree
  (`TreeOK`); the tokens in a semaphore are the children that hold a slot, and who is
  at work holds one (`SlotsOK`, by cardinalities of finite sets); a channel
  holds results of its turn's children that are over, each once (`ResultsOK`); and
  a child that is due is finished, gone, or covered by a frame of the stack of
  `Finish(true)`, which will reach it (`CascadeOK`). The last is why the cascade is complete:
  each step of the stack hands what it covers to another frame.
* `ServiceProofs`, the services that have no goroutine in common with a turn.
  *Gateway*, `GatewayOneGeneration`: the services are down between
  `stopAndCleanupServices` and `restartServices` (`DownDuringReload`).
  *Cron*, `CronOneShot` and `CronJobsSurvive`: a job has a copy in the file, one in the
  memory of every service, and one in the hand of `UpdateJob`. They agree on the schedule
  (`AgreeAt`), a loop executes a due job once (`RanOnce`), and after that no copy has a next run that a
  running service would find (`CopiesRight`, `NotAgain`). An accepted job is in the file and in the
  memory that will overwrite the file, unless a crash has emptied that (`SurviveInv`).
  *Fallback*, `CooldownKept`: a cool-down ends no later than the last failure plus what the
  counter allows (`EntryAt`), so that a new failure, which counts at least as much, can
  only prolong it; the powers of 5 and 2 are bounded by induction.
  *The joint run*: `PartsAreComponents` says that a behaviour of `ServicesSpec` is one of
  every component, so that `ServicesTypes`, its type invariant, follows from theirs.
* `ConnectionProofs`, what connects the program with others.
  *Delivery*, `DeliveryKeepsLanes`: the messages of a lane are numbered,
  and what is shown, the worker's, the queue's, the dispatcher's and the bus's
  follow each other without a gap (`LanesOK`, `SettledOK`); a chunk is behind those that were
  shown (`SendersOK`). After `StopAll` has begun the queues may lose messages, so that only the order is left.
  `TypingIndicatorsStop` is the liveness property `TypingStops` (see *Liveness*).
  *WeCom*, `AnswersShownOnce`: an answer is with `Send`, in the channel of
  its task, in the task's hand, or displayed in one way (`OnePlace`); a request that
  has only its route left is one whose window is over (`RouteIsOver`).
  *Hooks*, `ApprovalsAreOwn`: a call has one id, which no other call of
  the process has (`IdsOwn`), what is pending or sent is listed under it
  (`ListedRight`), and a yes on its way comes from a process that has granted
  the call of its id (`YesIsGranted`). *Tool servers*, `CloseSparesCalls`: once
  `wg.Wait` has returned no call but those it has missed is on its way
  (`ClosingInOrder`); what is open is in the manager's map, and turns begin after the
  initialisation (`Initialised`).
* `StorageProofs`. *Session store*, `StoreStaysConsistent` and `StoreImplements`: `StoreInv` says that
  what can be read of the file is in the order it was added (`FileInv`), and that a rewrite under
  way holds a cut of what was shown when it began, which still ends the file (`OpInv`).
  The refinement has a step lemma per action: `Append` is the append of the store,
  a rewrite happens when its second write does, truncations move messages from `history` to
  `buried`, and a failure between two writes brings `buried` back. *Migration*,
  `NothingLostInImport`: a session with a legacy file is what
  that file says, the others are what the JSONL store says (`Imported`), and the files that
  remain are those the import still has to do, each once (`InProgress`).
* `NumberProofs`: least and greatest numbers, induction for sets of numbers, and ranks.

**Induction over data.** The library's induction theorems take an operator as their
parameter and cannot be used. A property written as a *set* can be proved
by induction, because a set is a value: `NumberInduction` (in `NumberProofs`, from the
well-foundedness of the naturals) and `SequenceInduction` (in `StorageProofs`) give what
`Decode`, the function that leaves out the lines that cannot be parsed, does to every file: it
distributes over concatenation, keeps the order, and a cut of the file is a cut of the history.

**Liveness.** Two of the properties are proved as they stand, because a fixed number of places
leads to their end: `BusCallsReturn` (a call whose context is done is at one of four places of
`publish`, and nobody else can move it; each step of its own brings it nearer to the end) and
`TypingIndicatorsStop` (the stop function of a shown indicator is on the way to
`RecordTypingStop` or recorded, and whoever takes it away ends the indicator).
Where the way has no fixed length the theorem is about a *rank*, a tuple of numbers:
from every rank the system comes to its end or to a lower one, and no chain of ranks
falls for ever (`RanksWellFounded`).

* `LoopProgress`: what a cycle of `Run` can still do is the number of messages that nobody has
  heard, the continuation loops still to come and the places of one round
  (`CycleRank`). `Continue` starts another round only by taking a message from a queue,
  so that the loops end if users send a finite number of messages.
* `DrainProgress`: a drain that is cancelled, or has left its blocking select, empties
  the bus message by message (`DrainRank`); `DrainsLeave` says that there is no other
  drain but that of the present cycle.
* `TurnProgress`: a turn can still meet troubles, make iterations, and at each place
  work off messages, retries or calls (`TurnRank`). An iteration beyond `MaxIterations` is
  granted for a pending message, a steering message or an interrupt, which it uses up.

The last step, from "to a lower rank" to "to the end", is an induction over a temporal formula,
which the provers do not have. Where the model's fairness speaks of `ENABLED`, a theorem takes
as a hypothesis, by name, that the process concerned has a step to take in the states
in question (`CancelledCanGo`, `TypingCanGo`, `RunCanGo`, `DrainCanGo`). These are predicates of
a state, without any reference to fairness. TLC, with each as an invariant, found them true in every
reachable state: of the instance of `message_bus`, of that of `agent_loop` with three messages, and of
`Delivery` with two inbound messages and one of each lane. `TurnProgress` needs none: `TurnRuns`
says directly that the turn's goroutine is run.

**Assumptions.** The constants are numbers and finite sets as the code has them. `IsFiniteSet(CronJobs)`
is a bound on the ids that `AddJob` may draw, of which a behaviour uses finitely many at any time; that `Chain` is
a sequence is the type of the candidates `Execute` gets.

TLC checked every property of a run on its small instance. Trying to prove
`ArrivalOrderKept` and `RequestsWellFormed` showed that they were too strong as first
stated, with exceptions that three messages and two turns cannot reach; this is why
`agent_loop` has four messages and `turn_history` the beginning of a third turn.

Only model-checked: `CloseReturns`, `DeliveriesEnd`, `DueJobsRun` and `ReloadsEnd`; of `RunComesBack`,
`DrainsEnd` and `TurnEnds` the last step described above; and that actions are
enabled, since the provers do not know `ENABLED`. Every invariant and action
property of a passing run is stated by a theorem.

## 7. Not modelled, and why

Channel adapters other than WeCom's, providers, the tools themselves, voice, devices,
web back end and CLI are I/O around third-party services: their control is a
call and its error. Configuration, credentials, authentication and the migration
of old configurations are file formats without concurrent state. Routing, identity
and message splitting are functions of texts. The event bus, heartbeat, state,
media store and search cache keep everything under one lock, or are seen as the
other callers of the agent loop. These parts are most of the repository's lines,
so that the modelled ones are a small share of them.

Within the modelled parts: token budgets and critical sub-turns, several
hooks, observers and interceptors, built-in hooks; `NoHistory` turns, media, two
turns in one session; cron expressions; rate limits, streaming, reactions,
`SendToChannel`, `Manager.Reload` with changed channels; legacy files that cannot be
parsed; `ExecuteImage`; WeCom's hints, splitting, media and `Stop`; the transports of MCP;
the line length limit of the store and two session keys that map to one file.
