------------------------------- MODULE SubTurn -------------------------------
(***************************************************************************)
(* Sub-turns (pkg/agent/subturn.go, turn.go): a turn spawns turns that run *)
(* beside it, each with a concurrency slot of its parent; the result of an  *)
(* asynchronous one is put into the parent's pendingResults channel, which  *)
(* the parent polls, or reported as an orphan.  HardAbort finishes a turn   *)
(* and cascades to its children.                                            *)
(*                                                                          *)
(* Root is a turn that runTurn was called for directly: it has no channel,  *)
(* no semaphore and no reference to the agent loop (newTurnState sets none). *)
(* Finish(false) is called nowhere, so that turns that have merely returned *)
(* are never marked finished.                                               *)
(***************************************************************************)
EXTENDS Naturals, Integers, Sequences, FiniteSets, SequencesExt

CONSTANTS
    MaxSpawns,       \* bound: calls of spawnSubTurn
    MaxConcurrent,   \* slots of a turn (5)
    MaxDepth,        \* depth at which a turn may not spawn any more (3)
    ChannelCap,      \* buffer of pendingResults (16)
    MaxAborts,       \* bound: HardAbort calls
    Fragile          \* bound: the sub-turns that may panic

\* The turns are numbered in the order in which they are spawned.
Root == 0
SubTurns == 1..MaxSpawns
Turns == SubTurns \cup {Root}
None == -1

ASSUME SubTurnAssumption ==
    /\ MaxSpawns \in Nat /\ MaxConcurrent \in Nat \ {0} /\ MaxDepth \in Nat \ {0}
    /\ ChannelCap \in Nat \ {0} /\ MaxAborts \in Nat /\ Fragile \subseteq 1..MaxSpawns

VARIABLES
    st,        \* where the goroutine of each turn is
    parent,    \* parentTurnState
    async,     \* SubTurnConfig.Async
    depth,
    sem,       \* turn -> occupied slots of its semaphore
    holds,     \* turns that have acquired a slot and not released it (semAcquired)
    active,    \* keys of activeTurnStates
    children,  \* childTurnIDs
    chan,      \* pendingResults: the turns whose results are buffered
    fate,      \* history: what became of a turn's result
    panicked,  \* turns that panicked: they deliver nil
    finished,  \* isFinished
    closed,    \* pendingResults and finishedChan are closed, the context cancelled
    abort,     \* call stack of Finish(true): the turns to finish, innermost first
    aborts,    \* HardAbort calls so far
    due        \* history: children attached when Finish(true) of their parent began

vars == <<st, parent, async, depth, sem, holds, active, children, chan, fate, panicked,
          finished, closed, abort, aborts, due>>
treeVars == <<parent, async, depth>>
slotVars == <<sem, holds>>
abortVars == <<finished, closed, abort, aborts, due>>

Frame(t, pc, todo) == [turn |-> t, pc |-> pc, todo |-> todo]

TypeOK ==
    /\ st \in [Turns -> {"free", "waiting", "acquired", "registered", "running", "returned",
                         "delivering", "sending", "done"}]
    /\ parent \in [SubTurns -> Turns \cup {None}]
    /\ async \in [SubTurns -> BOOLEAN]
    /\ depth \in [Turns -> 0..MaxDepth]
    /\ sem \in [Turns -> 0..MaxConcurrent]
    /\ holds \subseteq SubTurns
    /\ active \subseteq Turns
    /\ children \in [Turns -> Seq(SubTurns)]
    /\ chan \in [Turns -> Seq(SubTurns)]
    /\ \A p \in Turns : Len(chan[p]) <= ChannelCap
    /\ fate \in [SubTurns -> {"none", "refused", "returned", "channel", "injected", "orphan",
                              "nil"}]
    /\ panicked \subseteq SubTurns
    /\ finished \subseteq Turns /\ closed \subseteq Turns
    /\ abort \in Seq([turn : Turns, pc : {"flag", "close", "cascade"},
                      todo : Seq(SubTurns)])
    /\ aborts \in 0..MaxAborts
    /\ due \subseteq SubTurns

Init ==
    /\ st = [t \in Turns |-> IF t = Root THEN "running" ELSE "free"]
    /\ parent = [t \in SubTurns |-> None]
    /\ async = [t \in SubTurns |-> FALSE]
    /\ depth = [t \in Turns |-> 0]
    /\ sem = [t \in Turns |-> 0]
    /\ holds = {}
    /\ active = {Root}
    /\ children = [t \in Turns |-> <<>>]
    /\ chan = [t \in Turns |-> <<>>]
    /\ fate = [t \in SubTurns |-> "none"]
    /\ panicked = {} /\ finished = {} /\ closed = {}
    /\ abort = <<>>
    /\ aborts = 0
    /\ due = {}

Goto(t, s) == st' = [st EXCEPT ![t] = s]

-------------------------------------------------------------------------------
(* Spawning *)

\* A turn is inside the call that spawned a synchronous sub-turn.
Blocked(p) == \E t \in SubTurns : parent[t] = p /\ ~async[t] /\ st[t] # "done"

\* spawnSubTurn is called: by a tool, or by the goroutine of the spawn tool.
Spawn(p, t, a) ==
    /\ st[p] = "running" /\ ~Blocked(p)
    /\ st[t] = "free" /\ \A u \in SubTurns : u < t => st[u] # "free"
    /\ Goto(t, "waiting")
    /\ parent' = [parent EXCEPT ![t] = p]
    /\ async' = [async EXCEPT ![t] = a]
    /\ UNCHANGED <<depth, slotVars, active, children, chan, fate, panicked, abortVars>>

\* Faulty variant: no limit on the semaphore.
AcquireUnbounded(t) ==
    /\ st[t] = "waiting"
    /\ IF parent[t] = Root
         THEN UNCHANGED slotVars
         ELSE /\ sem' = [sem EXCEPT ![parent[t]] = @ + 1]
              /\ holds' = holds \cup {t}
    /\ Goto(t, "acquired")
    /\ UNCHANGED <<treeVars, active, children, chan, fate, panicked, abortVars>>

\* A slot is free: the channel of the semaphore takes the token.
Acquire(t) ==
    /\ st[t] = "waiting"
    /\ IF parent[t] = Root
         THEN UNCHANGED slotVars
         ELSE /\ sem[parent[t]] < MaxConcurrent
              /\ sem' = [sem EXCEPT ![parent[t]] = @ + 1]
              /\ holds' = holds \cup {t}
    /\ Goto(t, "acquired")
    /\ UNCHANGED <<treeVars, active, children, chan, fate, panicked, abortVars>>

\* The context of the caller: its turn's, cancelled when that returns.
Cancelled(p) == st[p] # "running" \/ p \in closed

\* All slots stay occupied for concurrencyTimeout, or the caller is cancelled.
StopWaiting(t) ==
    /\ st[t] = "waiting" /\ parent[t] # Root
    /\ sem[parent[t]] = MaxConcurrent \/ Cancelled(parent[t])
    /\ Goto(t, "done")
    /\ fate' = [fate EXCEPT ![t] = "refused"]
    /\ UNCHANGED <<treeVars, slotVars, active, children, chan, panicked, abortVars>>

\* The slot of t, if it has one, is free again.
FreeSlot(t) ==
    IF t \in holds
      THEN /\ sem' = [sem EXCEPT ![parent[t]] = @ - 1]
           /\ holds' = holds \ {t}
      ELSE UNCHANGED slotVars

\* Too deep, or an invalid configuration: the deferred function frees the slot.
Refuse(t) ==
    /\ st[t] = "acquired"
    /\ FreeSlot(t)
    /\ Goto(t, "done")
    /\ fate' = [fate EXCEPT ![t] = "refused"]
    /\ UNCHANGED <<treeVars, active, children, chan, panicked, abortVars>>

\* The turn state is created and stored in activeTurnStates ...
Register(t) ==
    /\ st[t] = "acquired"
    /\ depth[parent[t]] < MaxDepth
    /\ depth' = [depth EXCEPT ![t] = depth[parent[t]] + 1]
    /\ active' = active \cup {t}
    /\ Goto(t, "registered")
    /\ UNCHANGED <<parent, async, slotVars, children, chan, fate, panicked, abortVars>>

\* ... and then its id in the parent's list; runTurn begins.
Attach(t) ==
    /\ st[t] = "registered"
    /\ children' = [children EXCEPT ![parent[t]] = Append(@, t)]
    /\ Goto(t, "running")
    /\ UNCHANGED <<treeVars, slotVars, active, chan, fate, panicked, abortVars>>

-------------------------------------------------------------------------------
(* Running and returning *)

\* The parent polls its channel, which may be closed already; nil is ignored.
Poll(p) ==
    /\ st[p] = "running" /\ ~Blocked(p)
    /\ chan[p] # <<>>
    /\ chan' = [chan EXCEPT ![p] = Tail(@)]
    /\ fate' = [fate EXCEPT ![Head(chan[p])] = IF @ = "nil" THEN "nil" ELSE "injected"]
    /\ UNCHANGED <<st, treeVars, slotVars, active, children, panicked, abortVars>>

\* runTurn returns, and its deferred function removes the key.
Return(t) ==
    /\ st[t] = "running" /\ ~Blocked(t)
    /\ Goto(t, IF t = Root THEN "done" ELSE "returned")
    /\ active' = active \ {t}
    /\ UNCHANGED <<treeVars, slotVars, children, chan, fate, panicked, abortVars>>

\* A tool or the provider panics in runTurn; the slot stays occupied.
Panic(t) ==
    /\ t \in Fragile
    /\ st[t] = "running" /\ ~Blocked(t)
    /\ panicked' = panicked \cup {t}
    /\ active' = active \ {t}
    /\ IF async[t]
         THEN Goto(t, "delivering") /\ UNCHANGED <<slotVars, fate>>
         ELSE Goto(t, "done") /\ FreeSlot(t) /\ fate' = [fate EXCEPT ![t] = "returned"]
    /\ UNCHANGED <<treeVars, children, chan, abortVars>>

\* Faulty variant: semAcquired is not reset.
ReleaseTwice(t) ==
    /\ st[t] = "returned"
    /\ sem' = IF t \in holds THEN [sem EXCEPT ![parent[t]] = @ - 1] ELSE sem
    /\ IF async[t]
         THEN Goto(t, "delivering") /\ UNCHANGED <<holds, fate>>
         ELSE Goto(t, "done") /\ fate' = [fate EXCEPT ![t] = "returned"] /\ holds' = holds \ {t}
    /\ UNCHANGED <<treeVars, active, children, chan, panicked, abortVars>>

\* The slot is released before the delivery; a synchronous call returns.
Release(t) ==
    /\ st[t] = "returned"
    /\ FreeSlot(t)
    /\ IF async[t]
         THEN Goto(t, "delivering") /\ UNCHANGED fate
         ELSE Goto(t, "done") /\ fate' = [fate EXCEPT ![t] = "returned"]
    /\ UNCHANGED <<treeVars, active, children, chan, panicked, abortVars>>

-------------------------------------------------------------------------------
(* deliverSubTurnResult *)

\* It ends: the result (nil after a panic) has gone where f says, and a slot
\* that is still held becomes free.
Delivered(t, f) ==
    /\ Goto(t, "done")
    /\ fate' = [fate EXCEPT ![t] = IF t \in panicked THEN "nil" ELSE f]
    /\ FreeSlot(t)

\* The state of the parent is read under its lock.
CheckParent(t) ==
    /\ st[t] = "delivering"
    /\ IF parent[t] = Root \/ parent[t] \in finished
         THEN Delivered(t, "orphan")
         ELSE Goto(t, "sending") /\ UNCHANGED <<fate, slotVars>>
    /\ UNCHANGED <<treeVars, active, children, chan, panicked, abortVars>>

\* The channel has room, and is not closed.
Send(t) ==
    /\ st[t] = "sending"
    /\ parent[t] \notin closed
    /\ Len(chan[parent[t]]) < ChannelCap
    /\ chan' = [chan EXCEPT ![parent[t]] = Append(@, t)]
    /\ Delivered(t, "channel")
    /\ UNCHANGED <<treeVars, active, children, panicked, abortVars>>

\* Faulty variant: a full channel keeps waiting, the select has no finishedChan.
SendClosedWithRoom(t) ==
    /\ st[t] = "sending"
    /\ parent[t] \in closed
    /\ Len(chan[parent[t]]) < ChannelCap
    /\ Delivered(t, "orphan")
    /\ UNCHANGED <<treeVars, active, children, chan, panicked, abortVars>>

\* Faulty variant: recovered without a report.
SendClosedSilently(t) ==
    /\ st[t] = "sending"
    /\ parent[t] \in closed
    /\ Delivered(t, "none")
    /\ UNCHANGED <<treeVars, active, children, chan, panicked, abortVars>>

\* The parent has been finished meanwhile: the select takes finishedChan, or
\* sends on the closed channel and recovers from the panic.
SendClosed(t) ==
    /\ st[t] = "sending"
    /\ parent[t] \in closed
    /\ Delivered(t, "orphan")
    /\ UNCHANGED <<treeVars, active, children, chan, panicked, abortVars>>

-------------------------------------------------------------------------------
(* HardAbort *)

HardAbort(t) ==
    /\ abort = <<>> /\ aborts < MaxAborts
    /\ t \in active
    /\ abort' = <<Frame(t, "flag", <<>>)>>
    /\ aborts' = aborts + 1
    /\ UNCHANGED <<st, treeVars, slotVars, active, children, chan, fate, panicked, finished,
                   closed, due>>

Top == Head(abort)
Step(pc, todo) == abort' = <<Frame(Top.turn, pc, todo)>> \o Tail(abort)

FinishFlag ==
    /\ abort # <<>> /\ Top.pc = "flag"
    /\ finished' = finished \cup {Top.turn}
    /\ due' = IF Top.turn = Root THEN due ELSE due \cup ToSet(children[Top.turn])
    /\ Step("close", <<>>)
    /\ UNCHANGED <<st, treeVars, slotVars, active, children, chan, fate, panicked, closed,
                   aborts>>

\* The channel, the finishedChan and the context; then the children attached so
\* far are read, which a root turn cannot reach.
FinishClose ==
    /\ abort # <<>> /\ Top.pc = "close"
    /\ closed' = closed \cup {Top.turn}
    /\ Step("cascade", IF Top.turn = Root THEN <<>> ELSE children[Top.turn])
    /\ UNCHANGED <<st, treeVars, slotVars, active, children, chan, fate, panicked, finished,
                   aborts, due>>

\* Faulty variant: the loop ends at a child that is not active any more.
FinishCascadeStopping ==
    /\ abort # <<>> /\ Top.pc = "cascade"
    /\ IF Top.todo # <<>> /\ Head(Top.todo) \in active
         THEN abort' = <<Frame(Head(Top.todo), "flag", <<>>),
                         Frame(Top.turn, "cascade", Tail(Top.todo))>> \o Tail(abort)
         ELSE abort' = Tail(abort)
    /\ UNCHANGED <<st, treeVars, slotVars, active, children, chan, fate, panicked, finished,
                   closed, aborts, due>>

\* The children one after the other, those that are active, recursively.
FinishCascade ==
    /\ abort # <<>> /\ Top.pc = "cascade"
    /\ abort' =
         IF Top.todo = <<>> THEN Tail(abort)
         ELSE IF Head(Top.todo) \notin active
                THEN <<Frame(Top.turn, "cascade", Tail(Top.todo))>> \o Tail(abort)
                ELSE <<Frame(Head(Top.todo), "flag", <<>>),
                       Frame(Top.turn, "cascade", Tail(Top.todo))>> \o Tail(abort)
    /\ UNCHANGED <<st, treeVars, slotVars, active, children, chan, fate, panicked, finished,
                   closed, aborts, due>>

-------------------------------------------------------------------------------
Finish == FinishFlag \/ FinishClose \/ FinishCascade
Begin(t) == Acquire(t) \/ StopWaiting(t) \/ Refuse(t) \/ Register(t) \/ Attach(t)
Deliver(t) == CheckParent(t) \/ Send(t) \/ SendClosed(t)

Next ==
    \/ \E p \in Turns, t \in SubTurns, a \in BOOLEAN : Spawn(p, t, a)
    \/ \E t \in SubTurns : Begin(t) \/ Panic(t) \/ Release(t) \/ Deliver(t)
    \/ \E t \in Turns : Poll(t) \/ Return(t) \/ HardAbort(t)
    \/ Finish

\* What the goroutine of a turn does when it is scheduled.
Work(t) == Begin(t) \/ Return(t) \/ Release(t) \/ Deliver(t)

\* Goroutines that can run do run; a turn returns at last, because its
\* iterations, its LLM calls and its own timeout are bounded.
Fairness ==
    /\ \A t \in SubTurns : WF_vars(Work(t))
    /\ WF_vars(Return(Root)) /\ WF_vars(Finish)

Spec == Init /\ [][Next]_vars
FairSpec == Spec /\ Fairness

-------------------------------------------------------------------------------
(* Properties *)

\* No more children of a sub-turn run at a time than it has slots; the tokens in
\* its semaphore are those of its children, each released exactly once; and none
\* is kept by a delivery, which may block on a parent that waits for a slot,
\* except after a panic (subturn.go:273-304, 465-474).
ConcurrencyBound ==
    \A p \in SubTurns : LET Of(S) == {t \in SubTurns : parent[t] = p /\ st[t] \in S} IN
        /\ sem[p] = Cardinality({t \in holds : parent[t] = p})
        /\ Cardinality(Of({"acquired", "registered", "running", "returned"})) <= MaxConcurrent
        /\ Of({"delivering", "sending"}) \cap holds \subseteq panicked

\* The result of an asynchronous sub-turn is accounted for: buffered in the
\* channel of its parent, once, or injected, or reported as an orphan
\* (subturn.go:499-513).
ResultsAccounted ==
    \A t \in SubTurns : st[t] = "done" =>
        /\ fate[t] # "none"
        /\ fate[t] = "channel" =>
             Cardinality({i \in DOMAIN chan[parent[t]] : chan[parent[t]][i] = t}) = 1
        /\ fate[t] = "injected" => t \notin ToSet(chan[parent[t]])

\* When a HardAbort is over, the children that were attached to a sub-turn when
\* its Finish(true) began have been finished too, those that are still running:
\* others come and go while the list is walked (turn.go:404-414).
CascadeComplete ==
    abort = <<>> => due \cap active \subseteq finished

\* The parent of t has returned, and was never finished.
ParentLeft(t) == parent[t] # None /\ st[parent[t]] # "running" /\ parent[t] \notin finished

\* Deliveries of results end, even when the channel is full: the parent polls, or
\* is finished and closes what the delivery waits for.  Only a parent that has
\* returned without Finish can keep one waiting (subturn.go:550-582).  Again
\* and again there is a time when none is pending, so that each one ends.
DeliveriesEnd ==
    []<>(\A t \in SubTurns : st[t] \in {"delivering", "sending"} => ParentLeft(t))

\* What the comment of deliverSubTurnResult and docs/subturn.md say of late
\* results: when the parent turn has finished, the result is an orphan, and not
\* put into a channel that nobody polls any more (subturn.go:504).
LateResultsAreOrphans ==
    [][\A t \in SubTurns : fate[t] # "channel" /\ fate'[t] = "channel"
          => parent[t] \in {p \in Turns : st[p] = "running"}]_vars
===============================================================================
