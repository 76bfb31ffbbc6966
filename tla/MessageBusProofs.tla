--------------------------- MODULE MessageBusProofs ---------------------------
(***************************************************************************)
(* Proofs about MessageBus: type correctness, what wg.Wait protects, that  *)
(* Close leaves nothing behind, that a closed bus lets nobody in, and that *)
(* the bus implements Mailbox, and that a cancelled call returns - for any *)
(* number of publishers, channels, slots and calls.                        *)
(***************************************************************************)
EXTENDS MessageBus, TLAPS

-------------------------------------------------------------------------------
(* The inductive invariant *)

\* The two flags tell how far Close has come.
FlagsFollowClose ==
    /\ closer = "open" <=> ~done
    /\ closed <=> closer \notin {"open", "flag"}

\* The counter counts the publishers between wg.Add and wg.Done, and once Wait
\* has returned all of them are late.
GroupHoldsRegistered ==
    /\ wg = {p \in Publishers : pc[p] \in {"select", "leave"}}
    /\ closer \in PastWait => wg \subseteq late
    /\ \A p \in Publishers : pc[p] # "idle" => calls[p] >= 1

\* Channels are closed one after the other, and only after Wait.
ShutInOrder ==
    /\ closer \notin PastWait => chanClosed = {} /\ k = 1
    /\ closer = "shut" => chanClosed = {StreamOrder[i] : i \in 1..(k - 1)}
    /\ closer \in {"drain", "returned"} => chanClosed = Streams

\* The channels before the k-th have been drained, and nothing comes back.
DrainedInOrder ==
    /\ closer = "drain" => \A i \in 1..(k - 1) : buf[StreamOrder[i]] = <<>>
    /\ closer = "returned" => \A s \in Streams : buf[s] = <<>>

IInv ==
    /\ TypeOK
    /\ FlagsFollowClose
    /\ GroupHoldsRegistered
    /\ ShutInOrder
    /\ DrainedInOrder

-------------------------------------------------------------------------------
(* Taking the head of a non-empty sequence leaves a sequence that is one     *)
(* shorter.                                                                  *)
LEMMA TailOfNonEmpty ==
    ASSUME NEW S, NEW q \in Seq(S), q # <<>>
    PROVE  /\ Tail(q) \in Seq(S)
           /\ Head(q) \in S
           /\ Len(q) \in Nat /\ Len(Tail(q)) \in Nat
           /\ Len(Tail(q)) <= Len(q)
  OBVIOUS

LEMMA StreamOfOrder ==
    \A i \in 1..Last : StreamOrder[i] \in Streams
  BY DEF Streams

LEMMA InitIInv == Init => IInv
<1> SUFFICES ASSUME Init PROVE IInv
  OBVIOUS
<1> USE BusAssumption DEF Init, Last
<1>1. StreamOrder[1] \in Streams
  BY DEF Streams
<1>2. TypeOK
  <2>1. /\ buf \in [Streams -> Seq(Msgs)]
        /\ received \in [Streams -> Seq(Msgs)]
        /\ \A s \in Streams : Len(buf[s]) <= Capacity
    OBVIOUS
  <2>2. target \in [Publishers -> Streams] /\ k \in 1..Last
    BY <1>1
  <2>3. calls \in [Publishers -> 0..MaxCalls]
    OBVIOUS
  <2> QED
    BY <2>1, <2>2, <2>3 DEF TypeOK, PastWait
<1>3. FlagsFollowClose /\ GroupHoldsRegistered /\ DrainedInOrder
  BY DEF FlagsFollowClose, GroupHoldsRegistered, DrainedInOrder, PastWait
<1>4. ShutInOrder
  BY DEF ShutInOrder, PastWait
<1> QED
  BY <1>2, <1>3, <1>4 DEF IInv

(* Every publisher step preserves the invariant.                             *)
LEMMA PublishIInv ==
    ASSUME IInv, NEW p \in Publishers,
           \/ \E s \in Streams : Call(p, s)
           \/ PublishStep(p)
           \/ Cancel(p)
    PROVE  IInv'
<1> USE DEF IInv
<1>1. CASE \E s \in Streams : Call(p, s)
  <2> PICK s \in Streams : Call(p, s)
    BY <1>1
  <2> USE DEF Call, closeVars
  <2>1. calls[p] + 1 \in 0..MaxCalls /\ calls[p] + 1 >= 1
    BY BusAssumption DEF TypeOK
  <2>2. TypeOK'
    BY <2>1 DEF TypeOK
  <2>3. GroupHoldsRegistered'
    BY <2>1 DEF TypeOK, GroupHoldsRegistered, PastWait
  <2>4. FlagsFollowClose' /\ ShutInOrder' /\ DrainedInOrder'
    BY DEF FlagsFollowClose, ShutInOrder, DrainedInOrder, PastWait
  <2> QED
    BY <2>2, <2>3, <2>4
<1>2. CASE Check(p)
  BY <1>2 DEF Check, TypeOK, FlagsFollowClose, GroupHoldsRegistered, ShutInOrder,
     DrainedInOrder, closeVars, PastWait
<1>3. CASE Register(p)
  BY <1>3 DEF Register, TypeOK, FlagsFollowClose, GroupHoldsRegistered, ShutInOrder,
     DrainedInOrder, closeVars, PastWait
<1>4. CASE Send(p)
  <2> DEFINE s == target[p]
  <2> USE <1>4 DEF Send, closeVars
  <2>1. /\ <<p, calls[p]>> \in Msgs
        /\ s \in Streams /\ buf[s] \in Seq(Msgs)
    BY BusAssumption DEF TypeOK, Msgs, GroupHoldsRegistered
  <2>2. TypeOK'
    <3>1. /\ Append(buf[s], <<p, calls[p]>>) \in Seq(Msgs)
          /\ Len(Append(buf[s], <<p, calls[p]>>)) <= Capacity
      BY <2>1, BusAssumption DEF TypeOK
    <3> QED
      BY <3>1, <2>1 DEF TypeOK
  <2>3. FlagsFollowClose' /\ GroupHoldsRegistered' /\ ShutInOrder'
    BY DEF TypeOK, FlagsFollowClose, GroupHoldsRegistered, ShutInOrder, PastWait
  <2>4. closer \notin {"drain", "returned"}
    BY <2>1 DEF ShutInOrder
  <2>5. DrainedInOrder'
    BY <2>4 DEF DrainedInOrder
  <2> QED
    BY <2>2, <2>3, <2>5
<1>5. CASE SendOnClosed(p)
  BY <1>5 DEF SendOnClosed, TypeOK, FlagsFollowClose, GroupHoldsRegistered, ShutInOrder,
     DrainedInOrder, closeVars, pubVars, PastWait
<1>6. CASE GiveUp(p)
  BY <1>6 DEF GiveUp, GiveUpWhen, TypeOK, FlagsFollowClose, GroupHoldsRegistered, ShutInOrder,
     DrainedInOrder, closeVars, PastWait
<1>7. CASE Leave(p)
  BY <1>7 DEF Leave, TypeOK, FlagsFollowClose, GroupHoldsRegistered, ShutInOrder,
     DrainedInOrder, closeVars, PastWait
<1>8. CASE Cancel(p)
  BY <1>8 DEF Cancel, TypeOK, FlagsFollowClose, GroupHoldsRegistered, ShutInOrder,
     DrainedInOrder, closeVars, PastWait
<1> QED
  BY <1>1, <1>2, <1>3, <1>4, <1>5, <1>6, <1>7, <1>8 DEF PublishStep

(* So does a reader.                                                         *)
LEMMA ReceiveIInv ==
    ASSUME IInv, NEW s \in Streams, Receive(s)
    PROVE  IInv'
<1> USE DEF IInv, Receive, closeVars, pubVars
<1>1. /\ Tail(buf[s]) \in Seq(Msgs) /\ Head(buf[s]) \in Msgs
      /\ Len(Tail(buf[s])) <= Len(buf[s])
  BY TailOfNonEmpty DEF TypeOK
<1>2. TypeOK'
  <2>1. Append(received[s], Head(buf[s])) \in Seq(Msgs)
    BY <1>1 DEF TypeOK
  <2>2. \A t \in Streams : Len(buf'[t]) <= Capacity
    BY <1>1, BusAssumption DEF TypeOK
  <2> QED
    BY <1>1, <2>1, <2>2 DEF TypeOK
<1>3. FlagsFollowClose' /\ GroupHoldsRegistered' /\ ShutInOrder'
  BY DEF FlagsFollowClose, GroupHoldsRegistered, ShutInOrder, PastWait
<1>4. DrainedInOrder'
  BY DEF DrainedInOrder, TypeOK
<1> QED
  BY <1>2, <1>3, <1>4

(* And so does Close.                                                        *)
LEMMA CloseIInv ==
    ASSUME IInv, CloseDone \/ CloseStep
    PROVE  IInv'
<1> USE DEF IInv
<1>1. CASE CloseDone
  BY <1>1 DEF CloseDone, TypeOK, FlagsFollowClose, GroupHoldsRegistered, ShutInOrder,
     DrainedInOrder, pubVars, PastWait
<1>2. CASE CloseFlag
  BY <1>2 DEF CloseFlag, TypeOK, FlagsFollowClose, GroupHoldsRegistered, ShutInOrder,
     DrainedInOrder, pubVars, PastWait
<1>3. CASE CloseWait
  BY <1>3 DEF CloseWait, TypeOK, FlagsFollowClose, GroupHoldsRegistered, ShutInOrder,
     DrainedInOrder, closeVars, pubVars, PastWait
<1>4. CASE CloseResume
  BY <1>4 DEF CloseResume, TypeOK, FlagsFollowClose, GroupHoldsRegistered, ShutInOrder,
     DrainedInOrder, closeVars, pubVars, PastWait
<1>5. CASE CloseShut
  <2> USE <1>5 DEF CloseShut, pubVars
  <2>1. Last \in Nat \ {0} /\ k \in 1..Last /\ StreamOrder[k] \in Streams
    BY BusAssumption, StreamOfOrder DEF TypeOK, Last
  <2>2. TypeOK'
    BY <2>1 DEF TypeOK, PastWait
  <2>3. FlagsFollowClose' /\ GroupHoldsRegistered' /\ DrainedInOrder'
    BY <2>1 DEF TypeOK, FlagsFollowClose, GroupHoldsRegistered, DrainedInOrder, PastWait
  <2>4. chanClosed' = {StreamOrder[i] : i \in 1..k}
    <3>1. chanClosed = {StreamOrder[i] : i \in 1..(k - 1)}
      BY DEF ShutInOrder
    <3> QED
      BY <3>1, <2>1
  <2>5. ShutInOrder'
    BY <2>1, <2>4 DEF ShutInOrder, PastWait, Streams
  <2> QED
    BY <2>2, <2>3, <2>5
<1>6. CASE CloseDrain
  <2> USE <1>6 DEF CloseDrain, pubVars
  <2>1. Last \in Nat \ {0} /\ k \in 1..Last /\ StreamOrder[k] \in Streams
    BY BusAssumption, StreamOfOrder DEF TypeOK, Last
  <2>2. CASE buf[StreamOrder[k]] # <<>>
    <3>1. /\ Tail(buf[StreamOrder[k]]) \in Seq(Msgs)
          /\ Len(Tail(buf[StreamOrder[k]])) <= Capacity
      <4>1. Len(buf[StreamOrder[k]]) <= Capacity /\ buf[StreamOrder[k]] \in Seq(Msgs)
        BY <2>1 DEF TypeOK
      <4> QED
        BY <4>1, <2>2, TailOfNonEmpty, BusAssumption
    <3>2. TypeOK'
      <4>1. \A t \in Streams : Len(buf'[t]) <= Capacity
        <5> SUFFICES ASSUME NEW t \in Streams PROVE Len(buf'[t]) <= Capacity
          OBVIOUS
        <5>1. CASE t = StreamOrder[k]
          BY <5>1, <2>2, <3>1 DEF TypeOK
        <5>2. CASE t # StreamOrder[k]
          BY <5>2, <2>2 DEF TypeOK
        <5> QED
          BY <5>1, <5>2
      <4> QED
        BY <2>1, <2>2, <3>1, <4>1 DEF TypeOK
    <3>3. FlagsFollowClose' /\ GroupHoldsRegistered' /\ ShutInOrder'
      BY <2>2 DEF FlagsFollowClose, GroupHoldsRegistered, ShutInOrder, PastWait
    <3>4. DrainedInOrder'
      BY <2>1, <2>2, StreamOfOrder DEF DrainedInOrder, TypeOK
    <3> QED
      BY <3>2, <3>3, <3>4
  <2>3. CASE buf[StreamOrder[k]] = <<>>
    <3>1. TypeOK'
      BY <2>1, <2>3 DEF TypeOK, PastWait
    <3>2. FlagsFollowClose' /\ GroupHoldsRegistered' /\ ShutInOrder'
      BY <2>1, <2>3 DEF FlagsFollowClose, GroupHoldsRegistered, ShutInOrder, PastWait
    <3>3. \A i \in 1..k : buf[StreamOrder[i]] = <<>>
      BY <2>1, <2>3 DEF DrainedInOrder
    <3>4. DrainedInOrder'
      BY <2>1, <2>3, <3>3 DEF DrainedInOrder, Streams
    <3> QED
      BY <3>1, <3>2, <3>4
  <2> QED
    BY <2>2, <2>3
<1> QED
  BY <1>1, <1>2, <1>3, <1>4, <1>5, <1>6 DEF CloseStep

LEMMA StutterIInv == IInv /\ UNCHANGED vars => IInv'
  BY DEF vars, IInv, TypeOK, FlagsFollowClose, GroupHoldsRegistered, ShutInOrder,
     DrainedInOrder, PastWait

(* The invariant holds in every reachable state.                             *)
THEOREM BusInvariant == Spec => []IInv
<1>1. IInv /\ [Next]_vars => IInv'
  BY PublishIInv, ReceiveIInv, CloseIInv, StutterIInv DEF Next
<1> QED
  BY InitIInv, <1>1, PTL DEF Spec

-------------------------------------------------------------------------------
(* Type correctness of the bus.                                              *)
THEOREM BusTypeOK == Spec => []TypeOK
<1>1. IInv => TypeOK
  BY DEF IInv
<1> QED
  BY <1>1, BusInvariant, PTL

(* wg.Wait protects every publisher that registered in time: the publishers  *)
(* that can still meet a closed channel are those that called wg.Add after   *)
(* Wait had returned (bus.go:128-134).                                       *)
THEOREM BusProtectsRegistered == Spec => []OnlyLatePublishersSeeClosedChannels
<1>1. IInv => OnlyLatePublishersSeeClosedChannels
  BY DEF IInv, OnlyLatePublishersSeeClosedChannels, GroupHoldsRegistered, ShutInOrder
<1> QED
  BY <1>1, BusInvariant, PTL

(* When Close has returned every buffer is empty and stays so                *)
(* (bus.go:136-146).                                                         *)
THEOREM BusLeavesNothing == Spec => []NothingLeftBehind
<1>1. IInv => NothingLeftBehind
  BY DEF IInv, NothingLeftBehind, DrainedInOrder
<1> QED
  BY <1>1, BusInvariant, PTL

(* Once done is closed, no call gets past the second check (bus.go:55-67).   *)
THEOREM BusRefusesAfterDone == Spec => NoNewPublisherAfterDone
<1>1. IInv /\ [Next]_vars => [RefusesAfterDone]_vars
  <2> SUFFICES ASSUME IInv, Next, NEW p \in Publishers, done, pc'[p] = "register"
               PROVE  pc[p] = "register"
    BY DEF RefusesAfterDone
  <2>1. CASE \E q \in Publishers : \/ \E s \in Streams : Call(q, s)
                                   \/ PublishStep(q)
                                   \/ Cancel(q)
    BY <2>1 DEF IInv, TypeOK, Call, PublishStep, Check, Register, Send, SendOnClosed,
       GiveUp, GiveUpWhen, Leave, Cancel, pubVars
  <2>2. CASE \/ \E s \in Streams : Receive(s)
             \/ CloseDone
             \/ CloseStep
    BY <2>2 DEF Receive, CloseDone, CloseStep, CloseFlag, CloseWait, CloseResume,
       CloseShut, CloseDrain, pubVars
  <2> QED
    BY <2>1, <2>2 DEF Next
<1> QED
  BY <1>1, BusInvariant, PTL DEF Spec, NoNewPublisherAfterDone

-------------------------------------------------------------------------------
(* Every step of the bus is a step of the mailbox or changes nothing of it.  *)
LEMMA StepImplementsMailbox ==
    IInv /\ [Next]_vars => [Box!MailboxNext]_(Box!mvars)
<1> SUFFICES ASSUME IInv, [Next]_vars
             PROVE  [Box!MailboxNext]_(Box!mvars)
  OBVIOUS
<1> USE DEF IInv, Box!mvars
<1>1. CASE \E p \in Publishers, s \in Streams : Call(p, s)
  BY <1>1 DEF Call, closeVars
<1>2. CASE \E p \in Publishers : Send(p)
  <2> PICK p \in Publishers : Send(p)
    BY <1>2
  <2>1. target[p] \in Streams /\ <<p, calls[p]>> \in Msgs
    BY BusAssumption DEF TypeOK, Msgs, GroupHoldsRegistered, Send
  <2>2. Box!Offer(target[p], <<p, calls[p]>>)
    BY <2>1 DEF Box!Offer, Send, closeVars
  <2> QED
    BY <2>1, <2>2 DEF Box!MailboxNext
<1>3. CASE \E p \in Publishers :
              Check(p) \/ Register(p) \/ SendOnClosed(p) \/ GiveUp(p) \/ Leave(p) \/ Cancel(p)
  BY <1>3 DEF Check, Register, SendOnClosed, GiveUp, GiveUpWhen, Leave, Cancel, closeVars
<1>4. CASE \E s \in Streams : Receive(s)
  BY <1>4 DEF Receive, Box!Take, Box!MailboxNext, closeVars
<1>5. CASE CloseDone \/ CloseFlag \/ CloseWait \/ CloseResume
  BY <1>5 DEF CloseDone, CloseFlag, CloseWait, CloseResume, closeVars
<1>6. CASE CloseShut
  <2>1. StreamOrder[k] \in Streams
    BY StreamOfOrder DEF TypeOK
  <2>2. CASE StreamOrder[k] \in chanClosed
    BY <2>2, <1>6 DEF CloseShut
  <2>3. CASE StreamOrder[k] \notin chanClosed
    <3>1. Box!Shut(StreamOrder[k])
      BY <2>1, <2>3, <1>6 DEF CloseShut, Box!Shut
    <3> QED
      BY <3>1, <2>1 DEF Box!MailboxNext
  <2> QED
    BY <2>2, <2>3
<1>7. CASE CloseDrain
  <2>1. StreamOrder[k] \in Streams /\ chanClosed = Streams
    BY <1>7, StreamOfOrder DEF TypeOK, ShutInOrder, CloseDrain
  <2>2. CASE buf[StreamOrder[k]] = <<>>
    BY <2>2, <1>7 DEF CloseDrain
  <2>3. CASE buf[StreamOrder[k]] # <<>>
    <3>1. Box!Discard(StreamOrder[k])
      BY <2>1, <2>3, <1>7 DEF CloseDrain, Box!Discard
    <3> QED
      BY <3>1, <2>1 DEF Box!MailboxNext
  <2> QED
    BY <2>2, <2>3
<1>8. CASE UNCHANGED vars
  BY <1>8 DEF vars
<1> QED
  BY <1>1, <1>2, <1>3, <1>4, <1>5, <1>6, <1>7, <1>8 DEF Next, PublishStep, CloseStep

(* The bus implements the mailbox: per stream it is FIFO, hands every        *)
(* message over at most once, and loses messages only after all channels are *)
(* closed.                                                                   *)
THEOREM BusImplementsMailbox == Spec => ImplementsMailbox
<1>1. Init => Box!MailboxInit
  BY DEF Init, Box!MailboxInit
<1> QED
  BY <1>1, StepImplementsMailbox, BusInvariant, PTL DEF Spec, ImplementsMailbox, Box!MailboxSpec

-------------------------------------------------------------------------------
(* A cancelled call returns                                                  *)

\* A call whose context is done, at one of the places of publish.
Midway == {"check", "register", "select", "leave"}
CancelledAt(p, place) == p \in cancelled /\ pc[p] = place /\ ~crashed
Out(p) == pc[p] = "idle" \/ crashed

\* What the scheduler relies on: such a call is never stuck, since its select
\* has a case that is ready.
Go(p) == ~crashed /\ PublishStep(p)
CanGo(p, place) == CancelledAt(p, place) => ENABLED <<Go(p)>>_vars
CancelledCanGo == \A p \in Publishers : \A place \in Midway : CanGo(p, place)

(* The others do not move the call, unless one of them panics.               *)
LEMMA CancelledStays ==
    ASSUME IInv, NEW p \in Publishers, NEW place \in Midway, CancelledAt(p, place), [Next]_vars,
           ~PublishStep(p)
    PROVE  CancelledAt(p, place)' \/ Out(p)'
<1> SUFFICES ASSUME ~crashed'
             PROVE  p \in cancelled' /\ pc'[p] = pc[p]
  BY DEF CancelledAt, Out
<1> USE DEF CancelledAt, Midway
<1>0. pc[p] # "idle" /\ p \in cancelled /\ pc \in [Publishers -> {"idle", "check", "register", "select", "leave"}]
  BY DEF IInv, TypeOK
<1>1. ASSUME NEW q \in Publishers, (\E s \in Streams : Call(q, s)) \/ Cancel(q)
      PROVE  p \in cancelled' /\ pc'[p] = pc[p]
  BY <1>0, <1>1 DEF Call, Cancel
<1>2. ASSUME NEW q \in Publishers, PublishStep(q)
      PROVE  p \in cancelled' /\ pc'[p] = pc[p]
  BY <1>0, <1>2 DEF PublishStep, Check, Register, Send, SendOnClosed, GiveUp, GiveUpWhen, Leave, pubVars
<1>3. CASE \/ \E s \in Streams : Receive(s)
           \/ CloseDone \/ CloseStep \/ UNCHANGED vars
  BY <1>0, <1>3 DEF Receive, CloseDone, CloseStep, CloseFlag, CloseWait, CloseResume, CloseShut,
     CloseDrain, pubVars, vars
<1> QED  BY <1>1, <1>2, <1>3 DEF Next

(* Its own step brings it nearer to its end.                                 *)
LEMMA CancelledMoves ==
    ASSUME IInv, NEW p \in Publishers, PublishStep(p)
    PROVE  /\ CancelledAt(p, "check") \/ CancelledAt(p, "leave") => Out(p)'
           /\ CancelledAt(p, "register") => CancelledAt(p, "select")'
           /\ CancelledAt(p, "select") => CancelledAt(p, "leave")' \/ Out(p)'
  BY DEF CancelledAt, Out, IInv, TypeOK, PublishStep, Check, Register, Send, SendOnClosed, GiveUp,
     GiveUpWhen, Leave, pubVars

(* One call: four places, each of which it leaves.                           *)
LEMMA CallComesBack ==
    ASSUME NEW p \in Publishers
    PROVE  Spec /\ PublisherRuns(p) /\ []CancelledCanGo => CallReturns(p)
<1> DEFINE Check1 == CancelledAt(p, "check")
           Register1 == CancelledAt(p, "register")
           Select1 == CancelledAt(p, "select")
           Leave1 == CancelledAt(p, "leave")
           Done1 == Out(p)
           Step1 == Go(p)
           Free == ENABLED <<Go(p)>>_vars
<1>1. IInv /\ [Next]_vars => /\ Check1 => Check1' \/ Done1'
                             /\ Register1 => Register1' \/ Select1' \/ Done1'
                             /\ Select1 => Select1' \/ Leave1' \/ Done1'
                             /\ Leave1 => Leave1' \/ Done1'
  BY CancelledStays, CancelledMoves DEF Midway
<1>2. IInv /\ <<Step1>>_vars => /\ Check1 \/ Leave1 => Done1'
                                /\ Register1 => Select1'
                                /\ Select1 => Leave1' \/ Done1'
  BY CancelledMoves DEF Go
<1>3. IInv /\ p \in cancelled => Done1 \/ Check1 \/ Register1 \/ Select1 \/ Leave1
  BY DEF IInv, TypeOK, CancelledAt, Out
<1>4. CancelledCanGo => /\ Check1 => ENABLED <<Go(p)>>_vars
                        /\ Register1 => ENABLED <<Go(p)>>_vars
                        /\ Select1 => ENABLED <<Go(p)>>_vars
                        /\ Leave1 => ENABLED <<Go(p)>>_vars
  <2>1. CancelledCanGo => CanGo(p, "check") /\ CanGo(p, "register") /\ CanGo(p, "select") /\ CanGo(p, "leave")
    BY Zenon DEF CancelledCanGo, Midway
  <2> QED  BY <2>1, Zenon DEF CanGo
<1> HIDE DEF Check1, Register1, Select1, Leave1, Done1, Step1
<1>5. Spec /\ PublisherRuns(p) /\ []CancelledCanGo => (p \in cancelled ~> Done1)
  BY <1>1, <1>2, <1>3, <1>4, BusInvariant, PTL DEF Spec, PublisherRuns, Step1, Go
<1> QED  BY <1>5, PTL DEF Done1, Out, CallReturns

(* A publisher that is blocked, on a full channel or in any other place of    *)
(* publish, gets out when its context ends: from the flags that Close sets,   *)
(* the group and the buffers it needs nothing (bus.go:53-91).                 *)
THEOREM BusCallsReturn == FairSpec /\ []CancelledCanGo => CancelledCallReturns
<1>1. ASSUME NEW p \in Publishers
      PROVE  FairSpec /\ []CancelledCanGo => CallReturns(p)
  <2>1. Fairness => PublisherRuns(p)
    BY Zenon DEF Fairness
  <2> QED  BY <2>1, CallComesBack, PTL DEF FairSpec
<1> QED  BY <1>1, Zenon DEF CancelledCallReturns
===============================================================================
