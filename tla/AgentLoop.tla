------------------------------ MODULE AgentLoop ------------------------------
(***************************************************************************)
(* The message loop of pkg/agent: Run takes one inbound message after the  *)
(* other, runs a turn for it, and meanwhile a drain goroutine moves what    *)
(* arrives into per-session steering queues that the turn polls; what the   *)
(* turn left behind is continued before Run answers.  Turns of other        *)
(* callers (cron and heartbeat through ProcessDirect/ProcessHeartbeat, and  *)
(* asynchronous sub-turns) run beside it and share activeTurnStates and the *)
(* steering queues.                                                         *)
(*                                                                          *)
(* A turn is seen from outside: when it polls the queues, when it has made  *)
(* its last poll, and how it ends.                                          *)
(***************************************************************************)
EXTENDS Naturals, Sequences, SequencesExt, FiniteSets

CONSTANTS
    Chats,       \* sessions that inbound messages resolve to
    Privates,    \* sessions of other callers only: "heartbeat", sub-turn ids
    Msgs,        \* the messages users send
    MainSession, \* the session that system messages are processed in
    System,      \* the scope of messages whose Channel is "system"
    Manual,      \* the scope of Steer calls, "__manual__"
    None,
    MaxQueueSize,  \* slots of a steering queue (10 in the code)
    SteeringAll,   \* steering_mode: TRUE for "all", FALSE for "one-at-a-time"
    MaxOthers      \* bound: turns of other callers

Sessions == Chats \cup Privates

ASSUME LoopAssumption ==
    /\ MainSession \in Chats
    /\ {System, Manual, None} \cap Sessions = {}
    /\ System # Manual /\ None \notin {System, Manual} /\ None \notin Msgs
    /\ MaxQueueSize \in Nat \ {0}
    /\ SteeringAll \in BOOLEAN
    /\ MaxOthers \in Nat

VARIABLES
    to,          \* message -> the scope it resolves to, None while nobody has sent it
    arrived,     \* history: messages in the order they reached the inbound channel
    inbound,     \* the bus's inbound channel
    queue,       \* steering queues: session or Manual -> messages
    drain,       \* per message Run took: the drain goroutine started for it
    run,         \* where Run is
    second,      \* Run is in its second continuation loop
    cur,         \* the message Run is processing
    final,       \* finalResponse is not empty
    turn,        \* turns in progress: Run's own and one of another caller
    active,      \* keys of activeTurnStates
    others,      \* turns of other callers so far
    heard,       \* history: session -> messages its turns put into the session, in order
    echoed,      \* messages the drain sent to the outbound channel
    dropped,     \* messages lost because a queue or the outbound channel was full
    late,        \* history: messages a drain enqueued after it had been cancelled
    left,        \* history: messages still queued when Run gave up continuing
    interfered   \* history: another caller's turn ran during this cycle

vars == <<to, arrived, inbound, queue, drain, run, second, cur, final, turn, active,
          others, heard, echoed, dropped, late, left, interfered>>
runVars == <<run, second, cur, final>>
histVars == <<late, left>>

Callers == {"run", "other"}
NoTurn == [scope |-> None, phase |-> "none"]
NoDrain == [st |-> "none", held |-> None, cancelled |-> FALSE]

TypeOK ==
    /\ to \in [Msgs -> Chats \cup {System, Manual, None}]
    /\ arrived \in Seq(Msgs)
    /\ inbound \in Seq(Msgs)
    /\ queue \in [Sessions \cup {Manual} -> Seq(Msgs)]
    /\ \A q \in Sessions \cup {Manual} : Len(queue[q]) <= MaxQueueSize
    /\ drain \in [Msgs -> [st : {"none", "blocking", "draining", "holding", "done"},
                           held : Msgs \cup {None}, cancelled : BOOLEAN]]
    /\ run \in {"select", "process", "check", "cancel", "continue", "dequeue", "resume", "publish"}
    /\ second \in BOOLEAN
    /\ cur \in Msgs \cup {None}
    /\ final \in BOOLEAN
    /\ turn \in [Callers -> [scope : Sessions \cup {None},
                             phase : {"none", "first", "body", "finishing"}]]
    /\ active \subseteq Sessions
    /\ others \in 0..MaxOthers
    /\ heard \in [Sessions -> Seq(Msgs)]
    /\ echoed \subseteq Msgs /\ dropped \subseteq Msgs
    /\ late \subseteq Msgs /\ left \subseteq Msgs
    /\ interfered \in BOOLEAN

Init ==
    /\ to = [m \in Msgs |-> None]
    /\ arrived = <<>>
    /\ inbound = <<>>
    /\ queue = [q \in Sessions \cup {Manual} |-> <<>>]
    /\ drain = [m \in Msgs |-> NoDrain]
    /\ run = "select" /\ second = FALSE /\ cur = None /\ final = FALSE
    /\ turn = [c \in Callers |-> NoTurn]
    /\ active = {}
    /\ others = 0
    /\ heard = [s \in Sessions |-> <<>>]
    /\ echoed = {} /\ dropped = {}
    /\ late = {} /\ left = {}
    /\ interfered = FALSE

-------------------------------------------------------------------------------
(* Steering queues *)

\* Faulty variants: no limit, and the newest message first.
PushUnbounded(q, m) == queue' = [queue EXCEPT ![q] = Append(@, m)] /\ UNCHANGED dropped
PushFront(q, m) ==
    IF Len(queue[q]) < MaxQueueSize
      THEN queue' = [queue EXCEPT ![q] = <<m>> \o @] /\ UNCHANGED dropped
      ELSE dropped' = dropped \cup {m} /\ UNCHANGED queue

\* pushScope: the queue of the scope takes the message unless it is full.
Push(q, m) ==
    IF Len(queue[q]) < MaxQueueSize
      THEN queue' = [queue EXCEPT ![q] = Append(@, m)] /\ UNCHANGED dropped
      ELSE dropped' = dropped \cup {m} /\ UNCHANGED queue

\* dequeueLocked: how many messages one poll takes.
Batch(q) == IF SteeringAll THEN Len(queue[q]) ELSE 1

\* dequeueScopeWithFallback: the session's own queue first, else the manual one.
Fallback(s) == IF queue[s] # <<>> THEN s ELSE Manual

\* Faulty variant: a poll that leaves the messages it returns in the queue.
HearAgain(s, q) ==
    /\ heard' = [heard EXCEPT ![s] = @ \o SubSeq(queue[q], 1, Batch(q))]
    /\ UNCHANGED queue

\* A turn of session s takes a batch from q and puts it into the session.
Hear(s, q) ==
    /\ heard' = [heard EXCEPT ![s] = @ \o SubSeq(queue[q], 1, Batch(q))]
    /\ queue' = [queue EXCEPT ![q] = SubSeq(@, Batch(q) + 1, Len(@))]

-------------------------------------------------------------------------------
(* Users *)

\* A channel publishes a user's message on the inbound channel.
Arrive(m, s) ==
    /\ to[m] = None
    /\ to' = [to EXCEPT ![m] = s]
    /\ arrived' = Append(arrived, m)
    /\ inbound' = Append(inbound, m)
    /\ UNCHANGED <<runVars, histVars, queue, drain, turn, active, others, heard, echoed,
                   dropped, interfered>>

\* Steer: into the queue of any active turn, or into the manual queue.
Steer(m) ==
    /\ to[m] = None
    /\ to' = [to EXCEPT ![m] = Manual]
    /\ IF active = {} THEN Push(Manual, m) ELSE \E s \in active : Push(s, m)
    /\ UNCHANGED <<runVars, histVars, arrived, inbound, drain, turn, active, others, heard,
                   echoed, interfered>>

-------------------------------------------------------------------------------
(* Turns *)

\* runTurn registers the turn under its session key.
Begin(c, s, phase) ==
    /\ turn' = [turn EXCEPT ![c] = [scope |-> s, phase |-> phase]]
    /\ active' = active \cup {s}

\* Another caller starts a turn: cron for any session, heartbeat and
\* sub-turns for private ones.
OtherBegin(s) ==
    /\ turn["other"] = NoTurn
    /\ others < MaxOthers
    /\ others' = others + 1
    /\ Begin("other", s, "first")
    /\ interfered' = TRUE
    /\ UNCHANGED <<runVars, histVars, to, arrived, inbound, queue, drain, heard, echoed,
                   dropped>>

\* The first poll of a turn falls back to the manual queue.
FirstPoll(c) ==
    /\ turn[c].phase = "first"
    /\ turn' = [turn EXCEPT ![c].phase = "body"]
    /\ LET q == Fallback(turn[c].scope)
       IN IF queue[q] # <<>> THEN Hear(turn[c].scope, q) ELSE UNCHANGED <<heard, queue>>
    /\ UNCHANGED <<runVars, histVars, to, arrived, inbound, drain, active, others, echoed,
                   dropped, interfered>>

\* A later poll (after a tool, after a direct answer, at the end) finds messages.
Poll(c) ==
    /\ turn[c].phase = "body"
    /\ queue[turn[c].scope] # <<>>
    /\ Hear(turn[c].scope, turn[c].scope)
    /\ UNCHANGED <<runVars, histVars, to, arrived, inbound, drain, turn, active, others,
                   echoed, dropped, interfered>>

\* The poll before finalization finds nothing: the turn will poll no more.
LastPoll(c) ==
    /\ turn[c].phase = "body"
    /\ queue[turn[c].scope] = <<>>
    /\ turn' = [turn EXCEPT ![c].phase = "finishing"]
    /\ UNCHANGED <<runVars, histVars, to, arrived, inbound, queue, drain, active, others,
                   heard, echoed, dropped, interfered>>

\* Faulty variant: the key stays registered.
EndRegistered(c) ==
    /\ turn' = [turn EXCEPT ![c] = NoTurn]
    /\ UNCHANGED active

\* clearActiveTurn deletes the key, whoever registered it last.
End(c) ==
    /\ turn' = [turn EXCEPT ![c] = NoTurn]
    /\ active' = active \ {turn[c].scope}

\* Another caller's turn ends: regularly, or early with an error or an abort.
OtherEnd ==
    /\ turn["other"] # NoTurn
    /\ End("other")
    /\ UNCHANGED <<runVars, histVars, to, arrived, inbound, queue, drain, others, heard,
                   echoed, dropped, interfered>>

-------------------------------------------------------------------------------
(* Run *)

\* cancelDrain: idempotent.
CancelDrain == drain' = [drain EXCEPT ![cur].cancelled = TRUE]

\* Run goes back to its select; the deferred cancelDrain has run.
Return ==
    /\ run' = "select"
    /\ second' = FALSE
    /\ cur' = None
    /\ final' = FALSE

\* Run gives up: what is still queued for the session stays there.
GiveUp ==
    /\ Return
    /\ CancelDrain
    /\ left' = left \cup ToSet(queue[to[cur]])

\* Run receives a user's message, starts a drain for its session and either
\* begins a turn or answers without one (a command, a routing error).
Take ==
    /\ run = "select"
    /\ inbound # <<>>
    /\ LET m == Head(inbound)
       IN /\ to[m] \in Chats
          /\ cur' = m
          /\ drain' = [drain EXCEPT ![m].st = "blocking"]
          /\ heard' = [heard EXCEPT ![to[m]] = Append(@, m)]
          /\ \/ /\ Begin("run", to[m], "first")
                /\ run' = "process"
                /\ UNCHANGED final
             \/ /\ run' = "check"
                /\ final' = TRUE
                /\ UNCHANGED <<turn, active>>
    /\ inbound' = Tail(inbound)
    /\ interfered' = (turn["other"] # NoTurn)
    /\ UNCHANGED <<histVars, to, arrived, queue, second, others, echoed, dropped>>

\* A system message (the result of an asynchronous task) gets no drain and no
\* continuation: it becomes a turn of the default agent's main session, or is
\* only logged.  Its answer goes to the chat it came from.
TakeSystem ==
    /\ run = "select"
    /\ inbound # <<>>
    /\ LET m == Head(inbound)
       IN /\ to[m] = System
          /\ heard' = [heard EXCEPT ![MainSession] = Append(@, m)]
          /\ \/ /\ Begin("run", MainSession, "first")
                /\ run' = "process"
                /\ cur' = m
                /\ interfered' = (turn["other"] # NoTurn)
             \/ UNCHANGED <<turn, active, run, cur, interfered>>
    /\ inbound' = Tail(inbound)
    /\ UNCHANGED <<histVars, to, arrived, queue, drain, second, final, others, echoed,
                   dropped>>

\* The message's own turn ends: with an answer (regular end, or the text of an
\* error), or aborted and without one.
EndTurn ==
    /\ run = "process"
    /\ \E answer \in BOOLEAN :
          /\ answer => turn["run"].phase # "first"
          /\ IF to[cur] = System
               THEN Return
               ELSE run' = "check" /\ final' = answer /\ UNCHANGED <<second, cur>>
    /\ End("run")
    /\ UNCHANGED <<histVars, to, arrived, inbound, queue, drain, others, heard, echoed,
                   dropped, interfered>>

\* The condition of both continuation loops: is something queued for the session?
Check ==
    /\ run = "check"
    /\ run' = IF queue[to[cur]] # <<>> THEN "continue"
              ELSE IF second THEN "publish" ELSE "cancel"
    /\ UNCHANGED <<histVars, to, arrived, inbound, queue, drain, second, cur, final, turn,
                   active, others, heard, echoed, dropped, interfered>>

\* Faulty variants: no second loop after the drain has been cancelled, and a
\* drain that is never cancelled.
CancelAndPublish ==
    /\ run = "cancel"
    /\ CancelDrain
    /\ run' = "publish"
    /\ UNCHANGED <<histVars, to, arrived, inbound, queue, second, cur, final, turn, active,
                   others, heard, echoed, dropped, interfered>>
KeepDrain ==
    /\ run = "cancel"
    /\ second' = TRUE
    /\ run' = "check"
    /\ UNCHANGED <<histVars, to, arrived, inbound, queue, drain, cur, final, turn, active,
                   others, heard, echoed, dropped, interfered>>

\* Between the two loops Run cancels the drain.
Cancel ==
    /\ run = "cancel"
    /\ CancelDrain
    /\ second' = TRUE
    /\ run' = "check"
    /\ UNCHANGED <<histVars, to, arrived, inbound, queue, cur, final, turn, active, others,
                   heard, echoed, dropped, interfered>>

\* Continue refuses while any turn of any session is active, and Run then
\* returns without publishing the answer it has.
Continue ==
    /\ run = "continue"
    /\ IF active = {}
         THEN run' = "dequeue" /\ UNCHANGED <<second, cur, final, drain, left>>
         ELSE GiveUp
    /\ UNCHANGED <<late, to, arrived, inbound, queue, turn, active, others, heard, echoed,
                   dropped, interfered>>

\* Faulty variant: the second loop tries again when there was nothing to take.
DequeueRetry ==
    /\ run = "dequeue"
    /\ LET s == to[cur]
           q == Fallback(s)
       IN IF queue[q] # <<>>
            THEN /\ Hear(s, q)
                 /\ Begin("run", s, "body")
                 /\ run' = "resume"
                 /\ UNCHANGED <<second, cur, final, drain, left>>
            ELSE /\ UNCHANGED <<turn, active, heard, queue>>
                 /\ IF second
                      THEN run' = "continue" /\ UNCHANGED <<second, cur, final, drain, left>>
                      ELSE GiveUp
    /\ UNCHANGED <<late, to, arrived, inbound, others, echoed, dropped, interfered>>

\* Continue takes a batch, of the session or of the manual queue, and starts a
\* turn for it; when somebody else has taken the messages, the first loop
\* returns and the second goes on to publish.
Dequeue ==
    /\ run = "dequeue"
    /\ LET s == to[cur]
           q == Fallback(s)
       IN IF queue[q] # <<>>
            THEN /\ Hear(s, q)
                 /\ Begin("run", s, "body")
                 /\ run' = "resume"
                 /\ UNCHANGED <<second, cur, final, drain, left>>
            ELSE /\ UNCHANGED <<turn, active, heard, queue>>
                 /\ IF second
                      THEN run' = "publish" /\ UNCHANGED <<second, cur, final, drain, left>>
                      ELSE GiveUp
    /\ UNCHANGED <<late, to, arrived, inbound, others, echoed, dropped, interfered>>

\* The continuation turn ends with an answer that replaces the previous one,
\* aborted with none, or with an error; the last makes Run return unpublished,
\* and so does the second in the first loop.
EndResumed ==
    /\ run = "resume"
    /\ \E how \in {"answer", "aborted", "error"} :
          /\ how = "answer" => turn["run"].phase = "finishing"
          /\ how = "error" => turn["run"].phase = "body"
          /\ CASE how = "answer" ->
                     run' = "check" /\ final' = TRUE /\ UNCHANGED <<second, cur, drain, left>>
               [] how = "aborted" /\ second ->
                     /\ run' = "publish" /\ left' = left \cup ToSet(queue[to[cur]])
                     /\ UNCHANGED <<final, second, cur, drain>>
               [] OTHER -> GiveUp
    /\ End("run")
    /\ UNCHANGED <<late, to, arrived, inbound, queue, others, heard, echoed, dropped,
                   interfered>>

\* PublishResponseIfNeeded: the answer goes out (unless the message tool has
\* already sent one to this chat), and the cycle is over.
Publish ==
    /\ run = "publish"
    /\ Return
    /\ UNCHANGED <<histVars, to, arrived, inbound, queue, drain, turn, active, others,
                   heard, echoed, dropped, interfered>>

-------------------------------------------------------------------------------
(* The drain goroutine started for message d *)

\* It receives a message; a cancelled drain that is still blocking may do so
\* too, because its select picks among the ready cases, and one that has left
\* its blocking select does not look at its context any more.
DrainReceive(d) ==
    /\ drain[d].st \in {"blocking", "draining"}
    /\ inbound # <<>>
    /\ drain' = [drain EXCEPT ![d].st = "holding", ![d].held = Head(inbound)]
    /\ inbound' = Tail(inbound)
    /\ UNCHANGED <<runVars, histVars, to, arrived, queue, turn, active, others, heard,
                   echoed, dropped, interfered>>

\* It ends: cancelled while blocking, or nothing left to receive.
DrainEnd(d) ==
    /\ \/ drain[d].st = "blocking" /\ drain[d].cancelled
       \/ drain[d].st = "draining" /\ inbound = <<>>
    /\ drain' = [drain EXCEPT ![d].st = "done"]
    /\ UNCHANGED <<runVars, histVars, to, arrived, inbound, queue, turn, active, others,
                   heard, echoed, dropped, interfered>>

\* Faulty variant: every message is steered into the running session.
DrainSteerAny(d) ==
    /\ drain[d].st = "holding"
    /\ Push(to[d], drain[d].held)
    /\ late' = IF drain[d].cancelled THEN late \cup {drain[d].held} ELSE late
    /\ drain' = [drain EXCEPT ![d].st = "draining", ![d].held = None]
    /\ UNCHANGED <<runVars, left, to, arrived, inbound, turn, active, others, heard,
                   echoed, interfered>>

\* The message it holds belongs to the drain's own session: enqueue it.
DrainSteer(d) ==
    /\ drain[d].st = "holding"
    /\ to[drain[d].held] = to[d]
    /\ Push(to[d], drain[d].held)
    /\ late' = IF drain[d].cancelled THEN late \cup {drain[d].held} ELSE late
    /\ drain' = [drain EXCEPT ![d].st = "draining", ![d].held = None]
    /\ UNCHANGED <<runVars, left, to, arrived, inbound, turn, active, others, heard,
                   echoed, interfered>>

\* Any other message goes through requeueInboundMessage, which publishes it on
\* the outbound channel - or loses it when that stays full for a second.
DrainRequeue(d) ==
    /\ drain[d].st = "holding"
    /\ to[drain[d].held] # to[d]
    /\ \/ echoed' = echoed \cup {drain[d].held} /\ UNCHANGED dropped
       \/ dropped' = dropped \cup {drain[d].held} /\ UNCHANGED echoed
    /\ drain' = [drain EXCEPT ![d].st = "draining", ![d].held = None]
    /\ UNCHANGED <<runVars, histVars, to, arrived, inbound, queue, turn, active, others,
                   heard, interfered>>

-------------------------------------------------------------------------------
RunStep ==
    \/ Take
    \/ TakeSystem
    \/ EndTurn \/ Check \/ Cancel \/ Continue \/ Dequeue \/ EndResumed \/ Publish
TurnStep(c) == FirstPoll(c) \/ Poll(c) \/ LastPoll(c)
DrainStep(d) == DrainReceive(d) \/ DrainEnd(d) \/ DrainSteer(d) \/ DrainRequeue(d)

Next ==
    \/ \E m \in Msgs : Steer(m) \/ \E s \in Chats \cup {System} : Arrive(m, s)
    \/ \E s \in Sessions : OtherBegin(s)
    \/ \E c \in Callers : TurnStep(c)
    \/ OtherEnd
    \/ RunStep
    \/ \E d \in Msgs : DrainStep(d)

\* Goroutines that can run do run, and a turn ends sooner or later (its
\* iterations, its LLM calls and its tools are bounded).  Users owe nothing.
Fairness ==
    /\ WF_vars(RunStep)
    /\ \A c \in Callers : WF_vars(TurnStep(c))
    /\ WF_vars(OtherEnd)
    /\ \A d \in Msgs : WF_vars(DrainStep(d))

Spec == Init /\ [][Next]_vars
FairSpec == Spec /\ Fairness

-------------------------------------------------------------------------------
(* Properties *)

\* The places of a message in a family of sequences.
Spots(f, m) == UNION {{q} \X {i \in DOMAIN f[q] : f[q][i] = m} : q \in DOMAIN f}

\* A message is never lost silently and never handled twice, whoever takes it:
\* Run, a drain, or the polls of concurrent turns (loop.go:482, 616-681,
\* steering.go:90-135).
ExactlyOnePlace ==
    \A m \in {n \in Msgs : to[n] # None} :
        Cardinality({i \in DOMAIN inbound : inbound[i] = m})
        + Cardinality({d \in Msgs : drain[d].held = m})
        + Cardinality(Spots(queue, m)) + Cardinality(Spots(heard, m))
        + Cardinality({m} \cap echoed)
        + Cardinality({m} \cap dropped) = 1

\* A message of one chat is never put into another session, although drains
\* outlive the turn they were started for (loop.go:646-656; docs/steering.md,
\* "Scoped queues").
ScopeIsolation ==
    \A s \in Sessions : \A i \in DOMAIN heard[s] :
        to[heard[s][i]] \in Chats => to[heard[s][i]] = s

\* m1 reached the inbound channel before m2.
ArrivedBefore(m1, m2) ==
    \E i, j \in DOMAIN arrived : i < j /\ arrived[i] = m1 /\ arrived[j] = m2

\* The messages of a chat are heard in the order they arrived.  The only one
\* that may be overtaken is one that a cancelled drain enqueued or that Run left
\* behind, and the only one that may overtake is one that a cancelled drain
\* enqueued: it can have received a later message than the drain that is not
\* cancelled, and enqueue it first (loop.go:616-681).
ArrivalOrderKept ==
    \A c \in Chats : \A i, j \in DOMAIN heard[c] :
        /\ i < j
        /\ ArrivedBefore(heard[c][j], heard[c][i])
        /\ to[heard[c][i]] = c /\ to[heard[c][j]] = c
        => heard[c][j] \in late \cup left \/ heard[c][i] \in late

\* When Run waits for the next message, nothing of a chat is still queued
\* except what a cancelled drain enqueued and what Run left behind: the loop
\* after cancelDrain catches the rest (loop.go:576-602).
NothingStranded ==
    run = "select" =>
        \A c \in Chats : \A i \in DOMAIN queue[c] :
            to[queue[c][i]] = c => queue[c][i] \in late \cup left

\* An answer Run holds is published, unless a continuation turn failed or a
\* turn of another caller ran during the cycle: only such a turn makes Continue
\* refuse or steals what it was to continue with (loop.go:559-571, 587-599).
AnswerPublished ==
    [][run # "select" /\ run' = "select" /\ final /\ run # "publish"
         => interfered \/ run = "resume"]_vars

\* What docs/steering.md promises for messages of other chats: they go back to
\* the inbound channel to be processed, and not out to the chat.
OtherChatsNotEchoed == \A m \in Msgs : to[m] \in Chats => m \notin echoed

\* Every cycle ends: the continuation loops do not run for ever.
RunComesBack == run # "select" ~> run = "select"

\* Every drain goroutine ends: none is leaked when its cycle is over.
DrainsEnd == \A d \in Msgs : drain[d].st # "none" ~> drain[d].st = "done"
===============================================================================
