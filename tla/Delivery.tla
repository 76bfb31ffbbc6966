------------------------------- MODULE Delivery -------------------------------
(***************************************************************************)
(* The channel manager (pkg/channels/manager.go) and what a channel does     *)
(* with an inbound message before it is published (pkg/channels/base.go):    *)
(* one dispatcher per lane (text, media) moves the messages of the bus into  *)
(* the queue of the channel's worker, the worker sends them chunk by chunk   *)
(* with retries, SendMessage does the same in its caller's goroutine, and    *)
(* StopAll ends it.  One channel and one chat: what the manager keeps per    *)
(* channel and chat is independent of the others.                            *)
(*                                                                          *)
(* The channel itself is external: a Send, EditMessage or StartTyping has    *)
(* any outcome, and a Send that reports an error may have been delivered.    *)
(***************************************************************************)
EXTENDS Naturals, Sequences, FiniteSets

CONSTANTS
    Workloads,   \* bounds: how many messages come by text, media and caller, and
                 \* which inbound messages
    Long,        \* text messages that are sent as two chunks
    QueueSize,   \* defaultChannelQueueSize
    MaxResends,  \* maxRetries
    Inbounds,    \* inbound messages of the chat
    MaxFaults    \* bound: sends and edits that report an error

ASSUME DeliveryAssumption ==
    /\ \A w \in Workloads : w.text \in Nat /\ w.media \in Nat /\ w.caller \in {0, 1}
                              /\ w.inbound \subseteq Inbounds
    /\ Long \subseteq Nat
    /\ QueueSize \in Nat \ {0} /\ MaxResends \in Nat /\ MaxFaults \in Nat
    /\ IsFiniteSet(Inbounds)

VARIABLES
    workload,    \* the workload of this behaviour
    published,   \* lane -> how many messages the agent has published
    dispatcher,  \* lane -> what its dispatcher does, and with which message
    workerQueue, \* lane -> the queue of the worker
    closed,      \* lanes whose queue is closed
    sender,      \* a worker or the caller of SendMessage -> what it does
    stopAll,     \* how far StopAll is
    panicked,    \* a goroutine has sent on a closed queue: the program ends
    arrivals,    \* inbound message -> how far HandleMessage is
    typing,      \* typingStops: the message whose stop function is recorded
    placeholder, \* placeholders: the message whose placeholder is recorded
    faults,      \* what is left of the bound on errors
    typingOn,    \* outside: typing indicators that are shown
    shown,       \* history: sender -> the chunks the user got from it, in order
    givenUp,     \* history: chunks whose sending was given up with an error logged
    skipped      \* history: messages the dispatchers have put aside

senderVars == <<sender, shown, givenUp, faults>>
inVars == <<arrivals, typing, placeholder, typingOn>>
deliveryVars == <<workload, published, dispatcher, workerQueue, closed, stopAll, panicked, skipped,
                  senderVars, inVars>>

Lanes == {"text", "media"}
Senders == Lanes \cup {"caller"}   \* the caller's only message is number 1
NoMessage == 0
ChunksOf(s, m) == IF s = "text" /\ m \in Long THEN 2 ELSE 1
Cancelled == stopAll # "running"      \* dispatchCtx
Stops(s) == Cancelled /\ s # "caller"  \* the caller has a context of its own
Quiet == [pc |-> "idle", msg |-> NoMessage, chunk |-> 0, try |-> 0]

DeliveryInit ==
    /\ workload \in Workloads
    /\ published = [l \in Lanes |-> 0]
    /\ dispatcher = [l \in Lanes |-> [pc |-> "idle", msg |-> NoMessage]]
    /\ workerQueue = [l \in Lanes |-> <<>>] /\ closed = {}
    /\ sender = [s \in Senders |-> Quiet]
    /\ stopAll = "running" /\ panicked = FALSE
    /\ arrivals = [i \in Inbounds |-> "new"]
    /\ typing = {} /\ placeholder = {} /\ typingOn = {}
    /\ faults = 0 /\ shown = [s \in Senders |-> <<>>] /\ givenUp = {} /\ skipped = {}

Fault == faults < MaxFaults /\ faults' = faults + 1

-------------------------------------------------------------------------------
(* dispatchLoop *)

\* The agent publishes a reply; the buffer of the bus is in MessageBus.
PublishOutbound(l) ==
    /\ published[l] < workload[l]
    /\ published' = [published EXCEPT ![l] = @ + 1]
    /\ UNCHANGED <<workload, dispatcher, workerQueue, closed, stopAll, panicked, skipped,
                   senderVars, inVars>>

Dispatch(l, d) == dispatcher' = [dispatcher EXCEPT ![l] = d]
DispatchUnchanged == UNCHANGED <<workload, published, closed, stopAll, senderVars, inVars>>

\* select of the bus and the context, both of which may be ready.  The worker of
\* the message taken is looked up under the lock, which StopAll holds till its
\* end; a message for an internal or unknown channel is put aside.
TakeOutbound(l) ==
    /\ dispatcher[l].pc = "idle"
    /\ \/ /\ dispatcher[l].msg < published[l]
          /\ stopAll \in {"running", "stopped"}
          /\ \/ /\ Dispatch(l, [pc |-> "enqueue", msg |-> dispatcher[l].msg + 1])
                /\ UNCHANGED skipped
             \/ /\ Dispatch(l, [dispatcher[l] EXCEPT !.msg = @ + 1])
                /\ skipped' = skipped \cup {<<l, dispatcher'[l].msg>>}
       \/ Cancelled /\ Dispatch(l, [dispatcher[l] EXCEPT !.pc = "off"]) /\ UNCHANGED skipped
    /\ DispatchUnchanged /\ UNCHANGED <<workerQueue, panicked>>

\* The send on the queue waits for room.
Put(l) ==
    /\ Len(workerQueue[l]) < QueueSize
    /\ workerQueue' = [workerQueue EXCEPT ![l] = Append(@, dispatcher[l].msg)]

\* select of the send and the context; a send on a closed queue panics.
Enqueue(l) ==
    /\ dispatcher[l].pc = "enqueue"
    /\ \/ /\ l \notin closed /\ Put(l)
          /\ Dispatch(l, [dispatcher[l] EXCEPT !.pc = "idle"])
          /\ UNCHANGED panicked
       \/ l \in closed /\ panicked' = TRUE /\ UNCHANGED <<workerQueue, dispatcher>>
       \/ /\ Cancelled /\ Dispatch(l, [dispatcher[l] EXCEPT !.pc = "off"])
          /\ UNCHANGED <<workerQueue, panicked>>
    /\ DispatchUnchanged /\ UNCHANGED skipped

-------------------------------------------------------------------------------
(* runWorker, runMediaWorker, SendMessage and sendWithRetry *)

Turn(s, r) == sender' = [sender EXCEPT ![s] = r]
SendUnchanged == UNCHANGED <<workload, published, dispatcher, closed, stopAll, panicked, skipped,
                             arrivals>>

\* select: a message, the closed and empty queue, the context.
TakeQueued(l) ==
    /\ sender[l].pc = "idle"
    /\ \/ /\ workerQueue[l] # <<>>
          /\ Turn(l, [pc |-> "token", msg |-> Head(workerQueue[l]), chunk |-> 1, try |-> 0])
          /\ workerQueue' = [workerQueue EXCEPT ![l] = Tail(@)]
       \/ /\ (workerQueue[l] = <<>> /\ l \in closed) \/ Cancelled
          /\ Turn(l, [sender[l] EXCEPT !.pc = "done"])
          /\ UNCHANGED workerQueue
    /\ SendUnchanged
    /\ UNCHANGED <<shown, givenUp, faults, typing, placeholder, typingOn>>

\* SendMessage finds the worker, which stays where it is after StopAll.
CallSend ==
    /\ sender["caller"] = Quiet /\ workload.caller = 1 /\ stopAll \in {"running", "stopped"}
    /\ Turn("caller", [pc |-> "token", msg |-> 1, chunk |-> 1, try |-> 0])
    /\ SendUnchanged
    /\ UNCHANGED <<workerQueue, shown, givenUp, faults, typing, placeholder, typingOn>>

\* The end of sendWithRetry, however it ends: the next chunk, or the next message.
NextChunk(s) ==
    IF sender[s].chunk < ChunksOf(s, sender[s].msg)
      THEN [sender[s] EXCEPT !.pc = "token", !.chunk = @ + 1, !.try = 0]
      ELSE [Quiet EXCEPT !.msg = sender[s].msg, !.pc = IF s = "caller" THEN "done" ELSE "idle"]

Chunk(s) == <<s, sender[s].msg, sender[s].chunk>>
Show(s) == shown' = [shown EXCEPT ![s] = Append(@, Chunk(s))]

\* limiter.Wait and preSend.  There is a token, or the context is done.  Before
\* a text typing ends, and a placeholder is edited into the message: when the
\* edit reports an error the message is sent, though the edit may have worked.
PreSend(s) ==
    /\ sender[s].pc = "token"
    /\ IF s = "media" THEN UNCHANGED <<typing, typingOn, placeholder>>
         ELSE typingOn' = typingOn \ typing /\ typing' = {} /\ placeholder' = {}
    /\ \/ /\ placeholder # placeholder'
          /\ Show(s)
          /\ Turn(s, NextChunk(s))
          /\ UNCHANGED faults
       \/ /\ placeholder # placeholder' /\ Fault
          /\ (Show(s) \/ UNCHANGED shown)
          /\ Turn(s, [sender[s] EXCEPT !.pc = "send"])
       \/ /\ placeholder = placeholder'
          /\ Turn(s, [sender[s] EXCEPT !.pc = "send"])
          /\ UNCHANGED <<shown, faults>>
    /\ SendUnchanged /\ UNCHANGED <<workerQueue, givenUp>>

Canceled(s) ==
    /\ sender[s].pc \in {"token", "backoff"} /\ Stops(s)
    /\ Turn(s, NextChunk(s))
    /\ SendUnchanged
    /\ UNCHANGED <<workerQueue, shown, givenUp, faults, typing, placeholder, typingOn>>

\* What follows a Send that has failed for now: another one, unless it was the
\* last.  Faulty variant: the message goes to the end of the queue.
RetryAtEnd(s) ==
    IF s # "caller" /\ Len(workerQueue[s]) < QueueSize
      THEN /\ workerQueue' = [workerQueue EXCEPT ![s] = Append(@, sender[s].msg)]
           /\ Turn(s, NextChunk(s)) /\ UNCHANGED givenUp
      ELSE Turn(s, [sender[s] EXCEPT !.pc = "backoff"]) /\ UNCHANGED <<workerQueue, givenUp>>
Retry(s) ==
    /\ IF sender[s].try = MaxResends
         THEN Turn(s, NextChunk(s)) /\ givenUp' = givenUp \cup {Chunk(s)}
         ELSE Turn(s, [sender[s] EXCEPT !.pc = "backoff"]) /\ UNCHANGED givenUp
    /\ UNCHANGED workerQueue

SendChunk(s) ==
    /\ sender[s].pc = "send"
    /\ \/ Show(s) /\ Turn(s, NextChunk(s)) /\ UNCHANGED <<workerQueue, givenUp, faults>>
       \/ /\ Fault   \* ErrNotRunning, ErrSendFailed
          /\ Turn(s, NextChunk(s)) /\ givenUp' = givenUp \cup {Chunk(s)}
          /\ UNCHANGED <<workerQueue, shown>>
       \/ /\ Fault   \* ErrRateLimit, ErrTemporary, anything else
          /\ (Show(s) \/ UNCHANGED shown)
          /\ Retry(s)
    /\ SendUnchanged /\ UNCHANGED <<typing, placeholder, typingOn>>

Backoff(s) ==
    /\ sender[s].pc = "backoff"
    /\ Turn(s, [sender[s] EXCEPT !.pc = "send", !.try = @ + 1])
    /\ SendUnchanged
    /\ UNCHANGED <<workerQueue, shown, givenUp, faults, typing, placeholder, typingOn>>

-------------------------------------------------------------------------------
(* HandleMessage, InvokeTypingStop, the janitor *)

InUnchanged == UNCHANGED <<workload, published, dispatcher, workerQueue, closed, stopAll, panicked,
                           skipped, senderVars>>

StartTyping(i) ==
    /\ arrivals[i] = "new" /\ i \in workload.inbound
    /\ arrivals' = [arrivals EXCEPT ![i] = "typing"]
    /\ typingOn' = typingOn \cup {i}
    /\ InUnchanged /\ UNCHANGED <<typing, placeholder>>

\* RecordTypingStop ends the typing it replaces.  Faulty variant: it does not.
SwapTypingOnly(i) == typing' = {i} /\ UNCHANGED typingOn
SwapTyping(i) == typing' = {i} /\ typingOn' = typingOn \ typing
RecordTyping(i) ==
    /\ arrivals[i] = "typing"
    /\ arrivals' = [arrivals EXCEPT ![i] = "recorded"]
    /\ SwapTyping(i)
    /\ InUnchanged /\ UNCHANGED placeholder

\* SendPlaceholder and RecordPlaceholder, which may replace another; then the
\* message is published.
RecordPlaceholder(i) ==
    /\ arrivals[i] = "recorded"
    /\ arrivals' = [arrivals EXCEPT ![i] = "published"]
    /\ placeholder' \in {placeholder, {i}}
    /\ InUnchanged /\ UNCHANGED <<typing, typingOn>>

\* The agent has processed a message (run, loop.go), or the janitor finds the
\* entry too old.
InvokeTypingStop ==
    /\ typing # {} /\ typing' = {}
    /\ typingOn' = typingOn \ typing
    /\ InUnchanged /\ UNCHANGED <<arrivals, placeholder>>

ExpirePlaceholder ==
    /\ ~Cancelled
    /\ placeholder # {} /\ placeholder' = {}
    /\ InUnchanged /\ UNCHANGED <<arrivals, typing, typingOn>>

-------------------------------------------------------------------------------
(* StopAll, under the lock: the dispatchers' context is cancelled, and the     *)
(* queues are closed lane by lane, each when the workers before it are done.   *)

StopDone(l) == sender[l].pc = "done"

StopAll ==
    /\ \/ stopAll = "running" /\ stopAll' = "text" /\ closed' = {"text"}
       \/ stopAll = "text" /\ StopDone("text") /\ stopAll' = "media" /\ closed' = Lanes
       \/ stopAll = "media" /\ StopDone("media") /\ stopAll' = "stopped" /\ UNCHANGED closed
    /\ UNCHANGED <<workload, published, dispatcher, workerQueue, panicked, skipped, senderVars, inVars>>

-------------------------------------------------------------------------------
SenderStep(s) == PreSend(s) \/ Canceled(s) \/ SendChunk(s) \/ Backoff(s)
LaneStep(l) == TakeOutbound(l) \/ Enqueue(l)
InStep(i) == StartTyping(i) \/ RecordTyping(i) \/ RecordPlaceholder(i)

DeliveryNext ==
    /\ ~panicked
    /\ \/ \E l \in Lanes : PublishOutbound(l) \/ LaneStep(l) \/ TakeQueued(l)
       \/ \E s \in Senders : SenderStep(s)
       \/ CallSend
       \/ \E i \in Inbounds : InStep(i)
       \/ InvokeTypingStop \/ ExpirePlaceholder
       \/ StopAll

DeliverySpec == DeliveryInit /\ [][DeliveryNext]_deliveryVars

\* HandleMessage goes on, calls of the channel return, and the janitor ticks
\* until StopAll ends it.
Janitor == InvokeTypingStop /\ ~Cancelled
HandleRuns(i) == WF_deliveryVars(InStep(i))
JanitorRuns == WF_deliveryVars(Janitor)
DeliveryFairness == (\A i \in Inbounds : HandleRuns(i)) /\ JanitorRuns

-------------------------------------------------------------------------------
(* Properties *)

DeliveryTypeOK ==
    /\ workload \in Workloads
    /\ \A l \in Lanes :
        /\ published[l] \in 0..workload[l] /\ Len(workerQueue[l]) <= QueueSize
        /\ dispatcher[l] \in [pc : {"idle", "enqueue", "off"}, msg : 0..published[l]]
    /\ closed \subseteq Lanes /\ stopAll \in {"running", "text", "media", "stopped"}
    /\ \A s \in Senders :
        sender[s] \in [pc : {"idle", "token", "send", "backoff", "done"},
                       msg : 0..workload[s], chunk : 0..2, try : 0..MaxResends]
    /\ arrivals \in [Inbounds -> {"new", "typing", "recorded", "published"}]
    /\ Cardinality(typing) <= 1 /\ Cardinality(placeholder) <= 1
    /\ typing \cup placeholder \cup typingOn \subseteq Inbounds
    /\ \A c \in givenUp : c[1] \in Senders /\ c[2] \in 1..workload[c[1]] /\ c[3] \in {1, 2}

\* What a worker sends reaches the user in the order of the bus, chunk after
\* chunk, through retries and placeholders that are edited instead: a message
\* or chunk is never seen after a later one of its lane; and nothing is lost
\* until StopAll is called: a message that a dispatcher has taken and does not
\* hold any more is in the worker's queue or hands, or each chunk of it has been
\* shown, or its failure logged.
LaneOrderKept ==
    \A s \in Senders : \A i, j \in DOMAIN shown[s] :
        i < j => LET a == shown[s][i]
                     b == shown[s][j]
                 IN a[2] < b[2] \/ (a[2] = b[2] /\ a[3] <= b[3])
NothingLostRunning ==
    stopAll = "running" =>
        \A l \in Lanes : \A m \in 1..dispatcher[l].msg :
            \/ <<l, m>> \in skipped
            \/ m = dispatcher[l].msg /\ dispatcher[l].pc # "idle"
            \/ \E i \in DOMAIN workerQueue[l] : workerQueue[l][i] = m
            \/ m = sender[l].msg /\ sender[l].pc # "idle"
            \/ \A c \in 1..ChunksOf(l, m) :
                 <<l, m, c>> \in givenUp \cup {shown[l][i] : i \in DOMAIN shown[l]}
LanesKept == LaneOrderKept /\ NothingLostRunning

\* A typing indicator that was started does not stay for ever, whatever other
\* message replaces its entry or answers the chat first (Swap, preSend,
\* InvokeTypingStop and the janitor).
TypingEnds(i) == i \in typingOn ~> (i \notin typingOn \/ Cancelled)
TypingStops == \A i \in Inbounds : TypingEnds(i)
===============================================================================
