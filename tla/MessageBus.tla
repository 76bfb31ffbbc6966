------------------------------ MODULE MessageBus ------------------------------
(***************************************************************************)
(* The message bus of pkg/bus/bus.go: three buffered Go channels, any      *)
(* number of goroutines in publish, one goroutine in Close, and readers.   *)
(*                                                                         *)
(* publish is four steps because other goroutines run between them: the    *)
(* load of `closed`, the non-blocking look at ctx and `done`, wg.Add, and  *)
(* the blocking select; the deferred wg.Done is a fifth.  Close is one     *)
(* step per statement.  A panic (a send on a closed channel, or a          *)
(* WaitGroup reused before Wait has returned) ends the process.            *)
(***************************************************************************)
EXTENDS Naturals, Sequences, FiniteSets

CONSTANTS StreamOrder,  \* the channels, in the order Close closes and drains them:
                        \* <<"inbound", "outbound", "outboundMedia">> in the code
          Publishers,   \* goroutines that call Publish*, one call at a time
          Capacity,     \* slots of a channel (64 in the code)
          MaxCalls      \* bound: Publish* calls per publisher

ASSUME BusAssumption ==
    /\ Len(StreamOrder) \in Nat \ {0}
    /\ Capacity \in Nat \ {0}
    /\ MaxCalls \in Nat

Last == Len(StreamOrder)
Streams == {StreamOrder[i] : i \in 1..Last}

\* The n-th call of publisher p publishes the message <<p, n>>.
Msgs == Publishers \X (1..MaxCalls)

VARIABLES
    done,        \* mb.done has been closed
    closed,      \* mb.closed
    wg,          \* publishers between wg.Add(1) and wg.Done(): the counter is its size
    chanClosed,  \* the streams whose channel has been closed
    buf,         \* stream -> contents of the channel's buffer
    pc,          \* publisher -> where it is in publish
    target,      \* publisher -> the stream of its current call
    calls,       \* publisher -> calls made so far
    cancelled,   \* publishers whose current ctx is done
    closer,      \* where Close is
    k,           \* the channel Close is closing or draining, in StreamOrder
    crashed,     \* a goroutine panicked and took the process with it
    late,        \* history: publishers whose wg.Add came after wg.Wait returned
    received     \* history: stream -> messages its readers got

pubVars   == <<pc, target, calls, cancelled>>
closeVars == <<done, closed, chanClosed, k>>
vars == <<done, closed, wg, chanClosed, buf, pc, target, calls, cancelled,
          closer, k, crashed, late, received>>

\* Close is past wg.Wait.
PastWait == {"shut", "drain", "returned"}

TypeOK ==
    /\ done \in BOOLEAN
    /\ closed \in BOOLEAN
    /\ wg \in SUBSET Publishers
    /\ chanClosed \in SUBSET Streams
    /\ buf \in [Streams -> Seq(Msgs)]
    /\ \A s \in Streams : Len(buf[s]) <= Capacity
    /\ pc \in [Publishers -> {"idle", "check", "register", "select", "leave"}]
    /\ target \in [Publishers -> Streams]
    /\ calls \in [Publishers -> 0..MaxCalls]
    /\ cancelled \in SUBSET Publishers
    /\ closer \in {"open", "flag", "wait", "waiting", "released"} \cup PastWait
    /\ k \in 1..Last
    /\ crashed \in BOOLEAN
    /\ late \in SUBSET Publishers
    /\ received \in [Streams -> Seq(Msgs)]

Init ==
    /\ done = FALSE
    /\ closed = FALSE
    /\ wg = {}
    /\ chanClosed = {}
    /\ buf = [s \in Streams |-> <<>>]
    /\ pc = [p \in Publishers |-> "idle"]
    /\ target = [p \in Publishers |-> StreamOrder[1]]
    /\ calls = [p \in Publishers |-> 0]
    /\ cancelled = {}
    /\ closer = "open"
    /\ k = 1
    /\ crashed = FALSE
    /\ late = {}
    /\ received = [s \in Streams |-> <<>>]

-------------------------------------------------------------------------------
(* publish *)

\* A call begins and loads mb.closed; a closed bus refuses it at once.
Call(p, s) ==
    /\ pc[p] = "idle"
    /\ calls[p] < MaxCalls
    /\ calls' = [calls EXCEPT ![p] = @ + 1]
    /\ target' = [target EXCEPT ![p] = s]
    /\ cancelled' = cancelled \ {p}
    /\ pc' = [pc EXCEPT ![p] = IF closed THEN "idle" ELSE "check"]
    /\ UNCHANGED <<closeVars, wg, buf, closer, crashed, late, received>>

\* Faulty variant: the second check looks at ctx only.
CheckIgnoringDone(p) ==
    /\ pc[p] = "check"
    /\ pc' = [pc EXCEPT ![p] = IF p \in cancelled THEN "idle" ELSE "register"]
    /\ UNCHANGED <<closeVars, wg, buf, target, calls, cancelled, closer, crashed,
                   late, received>>

\* The non-blocking select: default is taken only when neither case is ready.
Check(p) ==
    /\ pc[p] = "check"
    /\ pc' = [pc EXCEPT ![p] = IF done \/ p \in cancelled THEN "idle" ELSE "register"]
    /\ UNCHANGED <<closeVars, wg, buf, target, calls, cancelled, closer, crashed,
                   late, received>>

\* wg.Add(1)
Register(p) ==
    /\ pc[p] = "register"
    /\ pc' = [pc EXCEPT ![p] = "select"]
    /\ wg' = wg \cup {p}
    /\ late' = IF closer \in PastWait THEN late \cup {p} ELSE late
    /\ UNCHANGED <<closeVars, buf, target, calls, cancelled, closer, crashed, received>>

\* Faulty variant: an append that does not respect the buffer's size.
SendUnbounded(p) ==
    /\ pc[p] = "select"
    /\ target[p] \notin chanClosed
    /\ buf' = [buf EXCEPT ![target[p]] = Append(@, <<p, calls[p]>>)]
    /\ pc' = [pc EXCEPT ![p] = "leave"]
    /\ UNCHANGED <<closeVars, wg, target, calls, cancelled, closer, crashed, late, received>>

\* The select's send case, ready while the channel is open and has a free slot.
Send(p) ==
    /\ pc[p] = "select"
    /\ target[p] \notin chanClosed
    /\ Len(buf[target[p]]) < Capacity
    /\ buf' = [buf EXCEPT ![target[p]] = Append(@, <<p, calls[p]>>)]
    /\ pc' = [pc EXCEPT ![p] = "leave"]
    /\ UNCHANGED <<closeVars, wg, target, calls, cancelled, closer, crashed, late, received>>

\* The same case on a closed channel is ready too, and panics when select picks it.
SendOnClosed(p) ==
    /\ pc[p] = "select"
    /\ target[p] \in chanClosed
    /\ crashed' = TRUE
    /\ UNCHANGED <<closeVars, pubVars, wg, buf, closer, late, received>>

\* The select ends through one of its two other cases.
GiveUpWhen(p, ready) ==
    /\ pc[p] = "select"
    /\ ready
    /\ pc' = [pc EXCEPT ![p] = "leave"]
    /\ UNCHANGED <<closeVars, wg, buf, target, calls, cancelled, closer, crashed,
                   late, received>>

\* Faulty variants: the select without its mb.done case, and without its ctx case.
GiveUpOnCancelOnly(p) == GiveUpWhen(p, p \in cancelled)
GiveUpOnDoneOnly(p) == GiveUpWhen(p, done)

\* The select's ctx.Done() and mb.done cases.
GiveUp(p) == GiveUpWhen(p, done \/ p \in cancelled)

\* The deferred wg.Done(): the one that empties the group releases Wait.
Leave(p) ==
    /\ pc[p] = "leave"
    /\ pc' = [pc EXCEPT ![p] = "idle"]
    /\ wg' = wg \ {p}
    /\ late' = late \ {p}
    /\ closer' = IF closer = "waiting" /\ wg' = {} THEN "released" ELSE closer
    /\ UNCHANGED <<closeVars, buf, target, calls, cancelled, crashed, received>>

\* The caller's context is cancelled or times out during a call.
Cancel(p) ==
    /\ pc[p] \in {"check", "register", "select"}
    /\ p \notin cancelled
    /\ cancelled' = cancelled \cup {p}
    /\ UNCHANGED <<closeVars, wg, buf, pc, target, calls, closer, crashed, late, received>>

\* A reader of the channel; a closed channel still yields what it holds.
Receive(s) ==
    /\ buf[s] # <<>>
    /\ buf' = [buf EXCEPT ![s] = Tail(@)]
    /\ received' = [received EXCEPT ![s] = Append(@, Head(buf[s]))]
    /\ UNCHANGED <<closeVars, pubVars, wg, closer, crashed, late>>

-------------------------------------------------------------------------------
(* Close, run once: closeOnce *)

\* close(mb.done)
CloseDone ==
    /\ closer = "open"
    /\ done' = TRUE
    /\ closer' = "flag"
    /\ UNCHANGED <<pubVars, wg, closed, chanClosed, buf, k, crashed, late, received>>

\* mb.closed.Store(true)
CloseFlag ==
    /\ closer = "flag"
    /\ closed' = TRUE
    /\ closer' = "wait"
    /\ UNCHANGED <<pubVars, wg, done, chanClosed, buf, k, crashed, late, received>>

\* Faulty variants: Close does not wait, and Close drains without closing.
CloseWithoutWait ==
    /\ closer = "wait"
    /\ closer' = "shut"
    /\ UNCHANGED <<closeVars, pubVars, wg, buf, crashed, late, received>>
CloseWithoutShut ==
    /\ closer = "wait"
    /\ closer' = IF wg = {} THEN "drain" ELSE "waiting"
    /\ UNCHANGED <<closeVars, pubVars, wg, buf, crashed, late, received>>

\* mb.wg.Wait() returns at once when the counter is zero, and blocks otherwise.
CloseWait ==
    /\ closer = "wait"
    /\ closer' = IF wg = {} THEN "shut" ELSE "waiting"
    /\ UNCHANGED <<closeVars, pubVars, wg, buf, crashed, late, received>>

\* The released waiter runs again; a counter that has grown meanwhile panics.
CloseResume ==
    /\ closer = "released"
    /\ closer' = IF wg = {} THEN "shut" ELSE closer
    /\ crashed' = (wg # {})
    /\ UNCHANGED <<closeVars, pubVars, wg, buf, late, received>>

\* close(mb.inbound), close(mb.outbound), close(mb.outboundMedia)
CloseShut ==
    /\ closer = "shut"
    /\ chanClosed' = chanClosed \cup {StreamOrder[k]}
    /\ IF k < Last THEN k' = k + 1 /\ UNCHANGED closer
                ELSE k' = 1 /\ closer' = "drain"
    /\ UNCHANGED <<pubVars, wg, done, closed, buf, crashed, late, received>>

\* Faulty variant: only the first channel is drained.
CloseDrainFirst ==
    /\ closer = "drain"
    /\ IF buf[StreamOrder[k]] # <<>>
         THEN /\ buf' = [buf EXCEPT ![StreamOrder[k]] = Tail(@)]
              /\ UNCHANGED closer
         ELSE /\ closer' = "returned"
              /\ UNCHANGED buf
    /\ UNCHANGED <<pubVars, wg, done, closed, chanClosed, k, crashed, late, received>>

\* One step of `for range ch`: throw a message away, or go on when there is none.
CloseDrain ==
    /\ closer = "drain"
    /\ IF buf[StreamOrder[k]] # <<>>
         THEN /\ buf' = [buf EXCEPT ![StreamOrder[k]] = Tail(@)]
              /\ UNCHANGED <<k, closer>>
         ELSE /\ IF k < Last THEN k' = k + 1 /\ UNCHANGED closer
                          ELSE closer' = "returned" /\ UNCHANGED k
              /\ UNCHANGED buf
    /\ UNCHANGED <<pubVars, wg, done, closed, chanClosed, crashed, late, received>>

-------------------------------------------------------------------------------
CloseStep == CloseFlag \/ CloseWait \/ CloseResume \/ CloseShut \/ CloseDrain

PublishStep(p) ==
    Check(p) \/ Register(p) \/ Send(p) \/ SendOnClosed(p) \/ GiveUp(p) \/ Leave(p)

Next ==
    /\ ~crashed
    /\ \/ \E p \in Publishers, s \in Streams : Call(p, s)
       \/ \E p \in Publishers : PublishStep(p) \/ Cancel(p)
       \/ \E s \in Streams : Receive(s)
       \/ CloseDone
       \/ CloseStep

\* The Go scheduler runs every goroutine that can run.  Nobody has to read,
\* to publish, to cancel or to call Close.
CloserRuns == WF_vars(~crashed /\ CloseStep)
PublisherRuns(p) == WF_vars(~crashed /\ PublishStep(p))
Fairness == CloserRuns /\ \A p \in Publishers : PublisherRuns(p)

Spec == Init /\ [][Next]_vars
FairSpec == Spec /\ Fairness

-------------------------------------------------------------------------------
(* Properties *)

\* wg.Wait protects every publisher that registered before it returned: when
\* a channel is closed, only publishers that called wg.Add too late can still
\* be in the send select (bus.go:128-134, "close channels safely").
OnlyLatePublishersSeeClosedChannels ==
    \A p \in Publishers :
        pc[p] \in {"select", "leave"} /\ chanClosed # {} => p \in late

\* Close leaves nothing behind: when it has returned every buffer is empty and
\* stays so, whatever publishers were still on their way (bus.go:136-146).
NothingLeftBehind == closer = "returned" => \A s \in Streams : buf[s] = <<>>

\* Once done is closed no call gets past the second check any more, although
\* the two checks and Close are not atomic (bus.go:55-67).
RefusesAfterDone ==
    \A p \in Publishers : done /\ pc'[p] = "register" => pc[p] = "register"
NoNewPublisherAfterDone == [][RefusesAfterDone]_vars

\* What the comment in Close promises: after it has stored `closed`, and so
\* when it closes the channels, no publisher can reach the send any more
\* (bus.go:124-125).
NoSendOnClosedChannel ==
    \A p \in Publishers : pc[p] = "select" => target[p] \notin chanClosed

\* Close always comes back, even when a channel is full and nobody reads it.
CloseReturns == closer # "open" ~> closer = "returned" \/ crashed

\* A publisher blocked on a full channel gets out when its context ends.
CallReturns(p) == p \in cancelled ~> pc[p] = "idle" \/ crashed
CancelledCallReturns == \A p \in Publishers : CallReturns(p)

\* The bus implements the mailbox: FIFO, at most once, and lossless until all
\* channels are closed.
Box == INSTANCE Mailbox WITH open <- Streams \ chanClosed, queue <- buf, taken <- received
ImplementsMailbox == Box!MailboxSpec
===============================================================================
