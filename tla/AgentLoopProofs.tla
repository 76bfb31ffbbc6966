--------------------------- MODULE AgentLoopProofs ---------------------------
(***************************************************************************)
(* The invariants and the action property of the agent loop, for any sets   *)
(* of sessions and messages and any queue limit: type correctness,          *)
(* ScopeIsolation, ExactlyOnePlace, NothingStranded, AnswerPublished and     *)
(* ArrivalOrderKept.                                                        *)
(*                                                                          *)
(* ScopeIsolation alone is not inductive: a session hears what its queue    *)
(* holds, the queue gets what a drain holds, and a drain compares the       *)
(* message with the one it was started for.  IInv therefore follows a       *)
(* message through every place on its way, together with where Run is.      *)
(*                                                                          *)
(* For ExactlyOnePlace, PlaceInv says the same without counting: no place   *)
(* shares a message with another, none holds one twice.  Every step moves a *)
(* set of messages from one place to another, and the six numbers of        *)
(* ExactlyOnePlace are read off at the end.                                 *)
(*                                                                          *)
(* NothingStranded and AnswerPublished rest on CycleInv: which loop Run is  *)
(* in, whose drain is not cancelled, who can have a turn.  ArrivalOrderKept *)
(* follows the pairs of messages of a chat through the bus, a drain's hand,  *)
(* the queue and the session (OrderInv).                                    *)
(*                                                                          *)
(* The last section is about the ends of a cycle and of a drain: each has a *)
(* rank, and under the fairness of RunStep and DrainStep it falls.           *)
(***************************************************************************)
EXTENDS AgentLoop, FiniteSetTheorems, NumberProofs, TLAPS

Queues == Sessions \cup {Manual}

\* Sent messages, and those that may be in the queue or the session q.
Sent == {m \in Msgs : to[m] # None}
Place(q) == {m \in Sent : to[m] \in Chats => to[m] = q}

QueueOK ==
    /\ queue \in [Queues -> Seq(Msgs)]
    /\ \A q \in Queues : Len(queue[q]) <= MaxQueueSize /\ queue[q] \in Seq(Place(q))
HeardOK ==
    /\ heard \in [Sessions -> Seq(Msgs)]
    /\ \A s \in Sessions : heard[s] \in Seq(Place(s))
TurnOK ==
    /\ turn \in [Callers -> [scope : Sessions \cup {None},
                             phase : {"none", "first", "body", "finishing"}]]
    /\ \A c \in Callers : turn[c].phase # "none" => turn[c].scope \in Sessions
    /\ active \subseteq Sessions
DrainOK ==
    /\ drain \in [Msgs -> [st : {"none", "blocking", "draining", "holding", "done"},
                           held : Msgs \cup {None}, cancelled : BOOLEAN]]
    /\ \A d \in Msgs : /\ drain[d].st # "none" => to[d] \in Chats
                       /\ drain[d].st = "holding" => drain[d].held \in Sent
RunOK ==
    /\ run \in {"select", "process", "check", "cancel", "continue", "dequeue", "resume",
                "publish"}
    /\ second \in BOOLEAN
    /\ cur \in Msgs \cup {None}
    /\ final \in BOOLEAN
    /\ run = "process" => cur \in Msgs /\ to[cur] \in Chats \cup {System}
    /\ run \notin {"select", "process"} => cur \in Msgs /\ to[cur] \in Chats
BusOK ==
    /\ to \in [Msgs -> Chats \cup {System, Manual, None}]
    /\ arrived \in Seq(Msgs)
    /\ inbound \in Seq(Msgs) /\ inbound \in Seq(Sent)
    /\ others \in 0..MaxOthers
    /\ echoed \subseteq Msgs /\ dropped \subseteq Msgs
    /\ late \subseteq Msgs /\ left \subseteq Msgs
    /\ interfered \in BOOLEAN

IInv == QueueOK /\ HeardOK /\ TurnOK /\ DrainOK /\ RunOK /\ BusOK

-------------------------------------------------------------------------------
(* Sequences *)

LEMMA SeqGrows ==
    ASSUME NEW S, NEW T, S \subseteq T
    PROVE  Seq(S) \subseteq Seq(T)
  OBVIOUS

LEMMA AppendTyped ==
    ASSUME NEW S, NEW s \in Seq(S), NEW e \in S
    PROVE  Append(s, e) \in Seq(S) /\ Len(Append(s, e)) = Len(s) + 1
  OBVIOUS

LEMMA TailTyped ==
    ASSUME NEW S, NEW s \in Seq(S), s # <<>>
    PROVE  Head(s) \in S /\ Tail(s) \in Seq(S)
  OBVIOUS

LEMMA ToSetTyped ==
    ASSUME NEW S, NEW s \in Seq(S)
    PROVE  ToSet(s) \subseteq S
  BY DEF ToSet

\* A batch of at least one message splits a queue into two sequences.
LEMMA BatchTyped ==
    ASSUME NEW S, NEW s \in Seq(S), NEW n \in 1..Len(s)
    PROVE  /\ SubSeq(s, 1, n) \in Seq(S)
           /\ SubSeq(s, n + 1, Len(s)) \in Seq(S)
           /\ Len(SubSeq(s, n + 1, Len(s))) <= Len(s)
<1>1. Len(s) \in Nat /\ \A i \in 1..Len(s) : s[i] \in S
  OBVIOUS
<1>2. SubSeq(s, 1, n) \in Seq(S)
  BY <1>1
<1>3. SubSeq(s, n + 1, Len(s)) \in Seq(S)
  BY <1>1
<1>4. Len(SubSeq(s, n + 1, Len(s))) <= Len(s)
  BY <1>1
<1> QED  BY <1>2, <1>3, <1>4

-------------------------------------------------------------------------------
(* Places *)

\* A message keeps the scope it was sent to.
ToGrows ==
    /\ to' \in [Msgs -> Chats \cup {System, Manual, None}]
    /\ \A m \in Msgs : to[m] # None => to'[m] = to[m]

LEMMA PlaceGrows ==
    ASSUME ToGrows
    PROVE  Sent \subseteq Sent' /\ \A q : Place(q) \subseteq Place(q)'
  BY DEF ToGrows, Sent, Place

\* Messages without a chat may be anywhere: so may those of the manual queue.
LEMMA ManualPlace ==
    ASSUME LoopAssumption, NEW s
    PROVE  Place(Manual) \subseteq Place(s)
  BY DEF LoopAssumption, Place, Sessions

LEMMA ManualNotChat ==
    ASSUME LoopAssumption
    PROVE  Manual \notin Sessions /\ Manual \notin Chats /\ None \notin Chats
  BY DEF LoopAssumption, Sessions

-------------------------------------------------------------------------------
(* What the helpers of the actions keep *)

LEMMA QueueKept ==
    ASSUME QueueOK, ToGrows, UNCHANGED queue
    PROVE  QueueOK'
<1>1. \A q : Seq(Place(q)) \subseteq Seq(Place(q)')
  BY PlaceGrows, SeqGrows
<1> QED  BY <1>1 DEF QueueOK

LEMMA HeardKept ==
    ASSUME HeardOK, ToGrows, UNCHANGED heard
    PROVE  HeardOK'
<1>1. \A q : Seq(Place(q)) \subseteq Seq(Place(q)')
  BY PlaceGrows, SeqGrows
<1> QED  BY <1>1 DEF HeardOK

LEMMA PushKeeps ==
    ASSUME LoopAssumption, QueueOK, ToGrows, dropped \subseteq Msgs,
           NEW q \in Queues, NEW m \in Msgs, m \in Place(q)', Push(q, m)
    PROVE  QueueOK' /\ dropped' \subseteq Msgs
<1>0. MaxQueueSize \in Nat
  BY DEF LoopAssumption
<1>1. \A p : Seq(Place(p)) \subseteq Seq(Place(p)')
  BY PlaceGrows, SeqGrows
<1>2. CASE Len(queue[q]) < MaxQueueSize
  <2>1. queue' = [queue EXCEPT ![q] = Append(@, m)] /\ UNCHANGED dropped
    BY <1>2 DEF Push
  <2>2. queue[q] \in Seq(Msgs) /\ queue[q] \in Seq(Place(q)')
    BY <1>1 DEF QueueOK
  <2>3. Len(Append(queue[q], m)) <= MaxQueueSize
    <3>1. Len(Append(queue[q], m)) = Len(queue[q]) + 1 /\ Len(queue[q]) \in Nat
      BY <2>2, AppendTyped
    <3> QED  BY <3>1, <1>0, <1>2
  <2>4. Append(queue[q], m) \in Seq(Msgs) /\ Append(queue[q], m) \in Seq(Place(q)')
    BY <2>2, AppendTyped
  <2> QED  BY <1>1, <2>1, <2>3, <2>4 DEF QueueOK
<1>3. CASE ~(Len(queue[q]) < MaxQueueSize)
  BY <1>3, QueueKept DEF Push
<1> QED  BY <1>2, <1>3

LEMMA HearKeeps ==
    ASSUME LoopAssumption, QueueOK, HeardOK, ToGrows, UNCHANGED to,
           NEW s \in Sessions, NEW q \in {s, Manual}, queue[q] # <<>>, Hear(s, q)
    PROVE  QueueOK' /\ HeardOK'
<1> DEFINE batch == SubSeq(queue[q], 1, Batch(q))
           rest == SubSeq(queue[q], Batch(q) + 1, Len(queue[q]))
<1>1. q \in Queues /\ queue[q] \in Seq(Msgs) /\ queue[q] \in Seq(Place(q))
  BY DEF QueueOK, Queues
<1>2. Batch(q) \in 1..Len(queue[q])
  BY <1>1 DEF Batch
<1>3. /\ batch \in Seq(Msgs) /\ batch \in Seq(Place(q))
      /\ rest \in Seq(Msgs) /\ rest \in Seq(Place(q))
      /\ Len(rest) <= Len(queue[q])
  BY <1>1, <1>2, BatchTyped
<1>4. batch \in Seq(Place(s))
  BY <1>3, ManualPlace, SeqGrows
<1>5. heard[s] \o batch \in Seq(Msgs) /\ heard[s] \o batch \in Seq(Place(s))
  BY <1>3, <1>4 DEF HeardOK
<1>6. Place(q)' = Place(q) /\ \A p : Place(p)' = Place(p)
  BY DEF Place, Sent
<1>7. HeardOK'
  BY <1>5, <1>6 DEF Hear, HeardOK
<1>8. Len(rest) <= MaxQueueSize
  <2>1. Len(rest) \in Nat /\ Len(queue[q]) \in Nat /\ MaxQueueSize \in Nat
    BY <1>1, <1>3 DEF LoopAssumption
  <2> QED  BY <2>1, <1>1, <1>3 DEF QueueOK
<1>9. queue' = [queue EXCEPT ![q] = rest]
  BY DEF Hear
<1>10. QueueOK'
  BY <1>1, <1>3, <1>6, <1>8, <1>9 DEF QueueOK
<1> QED  BY <1>7, <1>10

LEMMA FallbackQueue ==
    ASSUME NEW s \in Sessions
    PROVE  Fallback(s) \in {s, Manual}
  BY DEF Fallback

LEMMA BeginKeeps ==
    ASSUME TurnOK, NEW c \in Callers, NEW s \in Sessions,
           NEW phase \in {"first", "body"}, Begin(c, s, phase)
    PROVE  TurnOK'
  BY DEF TurnOK, Begin

LEMMA EndKeeps ==
    ASSUME TurnOK, NEW c \in Callers, End(c)
    PROVE  TurnOK'
  BY DEF TurnOK, End, NoTurn

LEMMA ToStays ==
    ASSUME BusOK, UNCHANGED to
    PROVE  ToGrows /\ Sent' = Sent /\ \A q : Place(q)' = Place(q)
  BY DEF BusOK, ToGrows, Sent, Place

\* Nothing in the places a turn does not touch changes.
LEMMA StandStill ==
    ASSUME BusOK, UNCHANGED <<to, arrived, inbound, others, echoed, dropped, interfered>>,
           late' \subseteq Msgs, left' \subseteq Msgs
    PROVE  BusOK'
  BY DEF BusOK, Sent

LEMMA DrainStandStill ==
    ASSUME DrainOK, BusOK, UNCHANGED <<to, drain>>
    PROVE  DrainOK'
  BY DEF DrainOK, Sent

LEMMA CancelDrainKeeps ==
    ASSUME DrainOK, BusOK, UNCHANGED to, cur \in Msgs, CancelDrain
    PROVE  DrainOK'
  BY DEF DrainOK, CancelDrain, Sent

-------------------------------------------------------------------------------
(* The initial states and the steps *)

LEMMA InitIInv ==
    ASSUME LoopAssumption, Init
    PROVE  IInv
<1>1. \A S : <<>> \in Seq(S) /\ Len(<<>>) = 0
  OBVIOUS
<1>2. MaxQueueSize >= 0 /\ 0 \in 0..MaxOthers
  BY DEF LoopAssumption
<1>3. QueueOK /\ HeardOK
  BY <1>1, <1>2 DEF Init, QueueOK, HeardOK, Queues
<1>4. TurnOK
  BY DEF Init, TurnOK, NoTurn
<1>5. DrainOK
  BY DEF Init, DrainOK, NoDrain
<1>6. RunOK
  BY DEF Init, RunOK
<1>7. BusOK
  BY <1>1, <1>2 DEF Init, BusOK
<1> QED  BY <1>3, <1>4, <1>5, <1>6, <1>7 DEF IInv

\* A message is sent: its scope is fixed and it goes to its first place.
LEMMA SendingGrows ==
    ASSUME LoopAssumption, BusOK, NEW m \in Msgs, NEW s \in Chats \cup {System, Manual},
           to[m] = None, to' = [to EXCEPT ![m] = s]
    PROVE  ToGrows /\ m \in Sent' /\ (s \notin Chats => \A q : m \in Place(q)')
<1>1. s # None
  BY DEF LoopAssumption, Sessions
<1>2. to' \in [Msgs -> Chats \cup {System, Manual, None}] /\ to'[m] = s
  BY DEF BusOK
<1>3. \A n \in Msgs : to[n] # None => to'[n] = to[n]
  BY DEF BusOK
<1> QED  BY <1>1, <1>2, <1>3 DEF ToGrows, Sent, Place

\* What depends on the scope of sent messages only, keeps.
LEMMA ScopesKept ==
    ASSUME LoopAssumption, DrainOK, RunOK, BusOK, ToGrows,
           UNCHANGED <<drain, run, second, cur, final>>
    PROVE  DrainOK' /\ RunOK'
<1>1. \A m \in Msgs : to[m] \in Chats \cup {System} => to'[m] = to[m]
  BY DEF ToGrows, LoopAssumption, Sessions
<1>2. Sent \subseteq Sent'
  BY PlaceGrows
<1>3. DrainOK'
  BY <1>1, <1>2 DEF DrainOK
<1>4. RunOK'
  BY <1>1 DEF RunOK
<1> QED  BY <1>3, <1>4

LEMMA ArriveIInv ==
    ASSUME LoopAssumption, IInv, NEW m \in Msgs, NEW s \in Chats \cup {System}, Arrive(m, s)
    PROVE  IInv'
<1> USE DEF IInv
<1>1. ToGrows /\ m \in Sent'
  BY SendingGrows DEF Arrive
<1>2. QueueOK' /\ HeardOK'
  BY <1>1, QueueKept, HeardKept DEF Arrive
<1>3. TurnOK'
  BY DEF TurnOK, Arrive
<1>4. DrainOK' /\ RunOK'
  BY <1>1, ScopesKept DEF Arrive, runVars
<1>5. BusOK'
  <2>1. Seq(Sent) \subseteq Seq(Sent')
    BY <1>1, PlaceGrows, SeqGrows
  <2>2. inbound' \in Seq(Msgs) /\ inbound' \in Seq(Sent')
    BY <1>1, <2>1, AppendTyped DEF Arrive, BusOK
  <2>3. arrived' \in Seq(Msgs)
    BY AppendTyped DEF Arrive, BusOK
  <2> QED  BY <1>1, <2>2, <2>3 DEF Arrive, BusOK, ToGrows, histVars
<1> QED  BY <1>2, <1>3, <1>4, <1>5

LEMMA SteerIInv ==
    ASSUME LoopAssumption, IInv, NEW m \in Msgs, Steer(m)
    PROVE  IInv'
<1> USE DEF IInv
<1>1. ToGrows /\ m \in Sent' /\ \A q : m \in Place(q)'
  <2>1. Manual \notin Chats
    BY ManualNotChat
  <2> QED  BY <2>1, SendingGrows DEF Steer
<1>2. QueueOK' /\ dropped' \subseteq Msgs
  <2>1. PICK q \in Queues : Push(q, m)
    BY DEF Steer, TurnOK, Queues
  <2>2. dropped \subseteq Msgs
    BY DEF BusOK
  <2> QED  BY <1>1, <2>1, <2>2, PushKeeps
<1>3. HeardOK'
  BY <1>1, HeardKept DEF Steer
<1>4. TurnOK'
  BY DEF TurnOK, Steer
<1>5. DrainOK' /\ RunOK'
  BY <1>1, ScopesKept DEF Steer, runVars
<1>6. BusOK'
  <2>1. inbound \in Seq(Sent')
    BY <1>1, PlaceGrows, SeqGrows DEF BusOK
  <2> QED  BY <1>1, <1>2, <2>1 DEF Steer, BusOK, ToGrows, histVars
<1> QED  BY <1>2, <1>3, <1>4, <1>5, <1>6

\* A turn of another caller: only its own entry of turn changes.
LEMMA OtherIInv ==
    ASSUME LoopAssumption, IInv, OtherEnd \/ \E s \in Sessions : OtherBegin(s)
    PROVE  IInv'
<1> USE DEF IInv
<1>0. "other" \in Callers
  BY DEF Callers
<1>1. ToGrows
  BY ToStays DEF OtherEnd, OtherBegin
<1>2. QueueOK' /\ HeardOK'
  BY <1>1, QueueKept, HeardKept DEF OtherEnd, OtherBegin
<1>3. TurnOK'
  BY <1>0, BeginKeeps, EndKeeps DEF OtherEnd, OtherBegin
<1>4. DrainOK'
  BY DrainStandStill DEF OtherEnd, OtherBegin
<1>5. RunOK'
  BY DEF OtherEnd, OtherBegin, RunOK, runVars
<1>6. BusOK'
  <2>1. CASE OtherEnd
    BY <2>1, StandStill DEF OtherEnd, histVars, BusOK
  <2>2. CASE \E s \in Sessions : OtherBegin(s)
    <3>1. others' \in 0..MaxOthers
      BY <2>2 DEF OtherBegin, BusOK, LoopAssumption
    <3>2. Sent' = Sent
      BY <2>2 DEF OtherBegin, Sent
    <3> QED  BY <2>2, <3>1, <3>2 DEF OtherBegin, histVars, BusOK
  <2> QED  BY <2>1, <2>2
<1> QED  BY <1>2, <1>3, <1>4, <1>5, <1>6

LEMMA TurnIInv ==
    ASSUME LoopAssumption, IInv, NEW c \in Callers, TurnStep(c)
    PROVE  IInv'
<1> USE DEF IInv
<1>1. UNCHANGED <<to, arrived, inbound, drain, active, others, echoed, dropped, interfered,
                  run, second, cur, final, late, left>>
  BY DEF TurnStep, FirstPoll, Poll, LastPoll, runVars, histVars
<1>2. ToGrows
  BY <1>1, ToStays
<1>3. turn[c].phase # "none" /\ turn[c].scope \in Sessions
  BY DEF TurnStep, FirstPoll, Poll, LastPoll, TurnOK
<1>4. QueueOK' /\ HeardOK'
  <2>1. CASE UNCHANGED <<queue, heard>>
    BY <1>2, <2>1, QueueKept, HeardKept
  <2>2. CASE \E q \in {turn[c].scope, Manual} : queue[q] # <<>> /\ Hear(turn[c].scope, q)
    BY <1>1, <1>2, <1>3, <2>2, HearKeeps
  <2> QED  BY <1>3, <2>1, <2>2, FallbackQueue DEF TurnStep, FirstPoll, Poll, LastPoll
<1>5. TurnOK'
  BY <1>1, <1>3 DEF TurnStep, FirstPoll, Poll, LastPoll, TurnOK, Callers
<1>6. DrainOK'
  BY <1>1, DrainStandStill
<1>7. RunOK'
  BY <1>1 DEF RunOK
<1>8. BusOK'
  BY <1>1, StandStill DEF BusOK
<1> QED  BY <1>4, <1>5, <1>6, <1>7, <1>8

\* The drains, each for the message d it was started for.
LEMMA DrainIInv ==
    ASSUME LoopAssumption, IInv, NEW d \in Msgs, DrainStep(d)
    PROVE  IInv'
<1> USE DEF IInv
<1>1. UNCHANGED <<to, arrived, turn, active, others, heard, interfered, run, second, cur,
                  final, left>>
  BY DEF DrainStep, DrainReceive, DrainEnd, DrainSteer, DrainRequeue, runVars, histVars
<1>2. ToGrows /\ Sent' = Sent /\ \A q : Place(q)' = Place(q)
  BY <1>1, ToStays
<1>3. HeardOK' /\ TurnOK' /\ RunOK'
  BY <1>1, <1>2, HeardKept DEF TurnOK, RunOK
<1>4. CASE DrainReceive(d)
  <2>1. Head(inbound) \in Sent /\ Head(inbound) \in Msgs
    BY <1>4, TailTyped DEF DrainReceive, BusOK
  <2>2. inbound' \in Seq(Msgs) /\ inbound' \in Seq(Sent)
    BY <1>4, TailTyped DEF DrainReceive, BusOK
  <2>3. DrainOK'
    BY <1>1, <1>2, <1>4, <2>1 DEF DrainReceive, DrainOK
  <2>4. QueueOK'
    BY <1>2, <1>4, QueueKept DEF DrainReceive
  <2>5. BusOK'
    BY <1>1, <1>2, <1>4, <2>2 DEF DrainReceive, BusOK, histVars
  <2> QED  BY <1>3, <2>3, <2>4, <2>5
<1>5. CASE DrainEnd(d)
  <2>1. DrainOK'
    BY <1>1, <1>2, <1>5 DEF DrainEnd, DrainOK
  <2>2. QueueOK' /\ BusOK'
    BY <1>1, <1>2, <1>5, QueueKept, StandStill DEF DrainEnd, BusOK, histVars
  <2> QED  BY <1>3, <2>1, <2>2
<1>6. CASE DrainSteer(d)
  <2>1. drain[d].held \in Msgs /\ drain[d].held \in Sent /\ to[d] \in Chats
    BY <1>6 DEF DrainSteer, DrainOK, Sent
  <2>2. drain[d].held \in Place(to[d])' /\ to[d] \in Queues
    BY <1>2, <1>6, <2>1 DEF DrainSteer, Place, Queues, Sessions
  <2>3. QueueOK' /\ dropped' \subseteq Msgs
    BY <1>2, <1>6, <2>1, <2>2, PushKeeps DEF DrainSteer, BusOK
  <2>4. DrainOK'
    BY <1>1, <1>2, <1>6 DEF DrainSteer, DrainOK
  <2>5. BusOK'
    BY <1>1, <1>2, <1>6, <2>1, <2>3 DEF DrainSteer, BusOK
  <2> QED  BY <1>3, <2>3, <2>4, <2>5
<1>7. CASE DrainRequeue(d)
  <2>1. drain[d].held \in Msgs
    BY <1>7 DEF DrainRequeue, DrainOK, Sent
  <2>2. QueueOK'
    BY <1>2, <1>7, QueueKept DEF DrainRequeue
  <2>3. DrainOK'
    BY <1>1, <1>2, <1>7 DEF DrainRequeue, DrainOK
  <2>4. BusOK'
    BY <1>1, <1>2, <1>7, <2>1 DEF DrainRequeue, BusOK, histVars
  <2> QED  BY <1>3, <2>2, <2>3, <2>4
<1> QED  BY <1>4, <1>5, <1>6, <1>7 DEF DrainStep

LEMMA ReturnKeeps ==
    ASSUME Return
    PROVE  RunOK'
  BY DEF Return, RunOK

\* GiveUp ends a cycle in which Run has a message of a chat.
LEMMA GiveUpKeeps ==
    ASSUME QueueOK, DrainOK, BusOK, UNCHANGED to, cur \in Msgs, to[cur] \in Chats, GiveUp
    PROVE  RunOK' /\ DrainOK' /\ left' \subseteq Msgs
<1>1. RunOK'
  BY ReturnKeeps DEF GiveUp
<1>2. DrainOK'
  BY CancelDrainKeeps DEF GiveUp
<1>3. queue[to[cur]] \in Seq(Msgs)
  BY DEF QueueOK, Queues, Sessions
<1>4. left' \subseteq Msgs
  BY <1>3, ToSetTyped DEF GiveUp, BusOK
<1> QED  BY <1>1, <1>2, <1>4

\* Run takes a message.
LEMMA TakeIInv ==
    ASSUME LoopAssumption, IInv, Take \/ TakeSystem
    PROVE  IInv'
<1> USE DEF IInv
<1> DEFINE m == Head(inbound)
           s == IF Take THEN to[m] ELSE MainSession
<1>0. "run" \in Callers
  BY DEF Callers
<1>1. m \in Msgs /\ m \in Sent /\ inbound' \in Seq(Msgs) /\ inbound' \in Seq(Sent)
  <2>1. inbound # <<>> /\ inbound' = Tail(inbound)
    BY DEF Take, TakeSystem
  <2>2. inbound \in Seq(Msgs) /\ inbound \in Seq(Sent)
    BY DEF BusOK
  <2> QED  BY <2>1, <2>2, TailTyped DEF Sent
<1>2. ToGrows /\ Sent' = Sent /\ \A q : Place(q)' = Place(q)
  BY ToStays DEF Take, TakeSystem
<1>3. /\ s \in Sessions /\ m \in Place(s)
      /\ heard' = [heard EXCEPT ![s] = Append(@, m)]
  <2>1. System \notin Chats /\ MainSession \in Chats
    BY DEF LoopAssumption, Sessions
  <2>2. CASE Take
    BY <1>1, <2>2 DEF Take, Sessions, Place
  <2>3. CASE TakeSystem /\ ~Take
    BY <1>1, <2>1, <2>3 DEF TakeSystem, Sessions, Place
  <2> QED  BY <2>2, <2>3
<1>4. HeardOK'
  <2>1. /\ Append(heard[s], m) \in Seq(Msgs)
        /\ Append(heard[s], m) \in Seq(Place(s))
    BY <1>1, <1>3, AppendTyped DEF HeardOK
  <2> QED  BY <1>2, <1>3, <2>1 DEF HeardOK
<1>5. QueueOK'
  BY <1>2, QueueKept DEF Take, TakeSystem
<1>6. TurnOK'
  <2>1. CASE Begin("run", s, "first")
    BY <1>0, <1>3, <2>1, BeginKeeps
  <2>2. CASE UNCHANGED <<turn, active>>
    BY <2>2 DEF TurnOK
  <2> QED  BY <1>3, <2>1, <2>2 DEF Take, TakeSystem
<1>7. DrainOK'
  <2>1. CASE Take
    BY <1>1, <1>2, <2>1 DEF Take, DrainOK
  <2>2. CASE TakeSystem
    BY <2>2, DrainStandStill DEF TakeSystem
  <2> QED  BY <2>1, <2>2
<1>8. RunOK'
  BY <1>1 DEF Take, TakeSystem, RunOK
<1>9. BusOK'
  BY <1>1, <1>2 DEF Take, TakeSystem, BusOK, histVars
<1> QED  BY <1>4, <1>5, <1>6, <1>7, <1>8, <1>9

\* The rest of a cycle.
LEMMA CycleIInv ==
    ASSUME LoopAssumption, IInv,
           EndTurn \/ Check \/ Cancel \/ Continue \/ Dequeue \/ EndResumed \/ Publish
    PROVE  IInv'
<1> USE DEF IInv
<1>0. "run" \in Callers
  BY DEF Callers
<1>1. /\ UNCHANGED <<to, arrived, inbound, others, echoed, dropped, late, interfered>>
      /\ ToGrows
  BY ToStays
     DEF EndTurn, Check, Cancel, Continue, Dequeue, EndResumed, Publish, histVars
<1>2. ASSUME left' \subseteq Msgs PROVE BusOK'
  BY <1>1, <1>2, StandStill DEF BusOK
<1>3. left \subseteq Msgs
  BY DEF BusOK
<1>4. CASE EndTurn
  <2>1. QueueOK' /\ HeardOK' /\ DrainOK' /\ BusOK'
    BY <1>1, <1>2, <1>3, <1>4, QueueKept, HeardKept, DrainStandStill DEF EndTurn, histVars
  <2>2. TurnOK'
    BY <1>0, <1>4, EndKeeps DEF EndTurn
  <2>3. RunOK'
    <3>1. CASE Return
      BY <3>1, ReturnKeeps
    <3>2. CASE ~Return
      BY <1>1, <1>4, <3>2 DEF EndTurn, RunOK
    <3> QED  BY <3>1, <3>2
  <2> QED  BY <2>1, <2>2, <2>3
<1>5. CASE Check \/ Cancel \/ Publish
  <2>1. QueueOK' /\ HeardOK' /\ TurnOK' /\ BusOK'
    BY <1>1, <1>2, <1>3, <1>5, QueueKept, HeardKept
       DEF Check, Cancel, Publish, histVars, TurnOK
  <2>2. DrainOK'
    BY <1>1, <1>5, CancelDrainKeeps, DrainStandStill DEF Check, Cancel, Publish, RunOK
  <2>3. RunOK'
    BY <1>1, <1>5, ReturnKeeps DEF Check, Cancel, Publish, RunOK
  <2> QED  BY <2>1, <2>2, <2>3
<1>6. CASE Continue
  <2>1. cur \in Msgs /\ to[cur] \in Chats
    BY <1>6 DEF Continue, RunOK
  <2>2. QueueOK' /\ HeardOK' /\ TurnOK'
    BY <1>1, <1>6, QueueKept, HeardKept DEF Continue, TurnOK
  <2>3. CASE GiveUp
    BY <1>1, <1>2, <2>1, <2>2, <2>3, GiveUpKeeps
  <2>4. CASE run' = "dequeue" /\ UNCHANGED <<second, cur, final, drain, left>>
    BY <1>1, <1>2, <1>3, <2>1, <2>2, <2>4, DrainStandStill DEF RunOK
  <2> QED  BY <1>6, <2>3, <2>4 DEF Continue
<1>7. CASE Dequeue
  <2> DEFINE s == to[cur]
             q == Fallback(s)
  <2>1. cur \in Msgs /\ s \in Chats /\ s \in Sessions
    BY <1>7 DEF Dequeue, RunOK, Sessions
  <2>2. CASE queue[q] # <<>>
    <3>1. /\ Hear(s, q) /\ Begin("run", s, "body") /\ run' = "resume"
          /\ UNCHANGED <<second, cur, final, drain, left>>
      BY <1>7, <2>2 DEF Dequeue
    <3>2. QueueOK' /\ HeardOK'
      BY <1>1, <2>1, <2>2, <3>1, FallbackQueue, HearKeeps
    <3>3. TurnOK'
      BY <1>0, <2>1, <3>1, BeginKeeps
    <3>4. DrainOK' /\ RunOK' /\ BusOK'
      BY <1>1, <1>2, <1>3, <2>1, <3>1, DrainStandStill DEF RunOK
    <3> QED  BY <3>2, <3>3, <3>4
  <2>3. CASE queue[q] = <<>>
    <3>1. UNCHANGED <<turn, active, heard, queue>>
      BY <1>7, <2>3 DEF Dequeue
    <3>2. QueueOK' /\ HeardOK' /\ TurnOK'
      BY <1>1, <3>1, QueueKept, HeardKept DEF TurnOK
    <3>3. CASE GiveUp
      BY <1>1, <1>2, <2>1, <3>2, <3>3, GiveUpKeeps
    <3>4. CASE run' = "publish" /\ UNCHANGED <<second, cur, final, drain, left>>
      BY <1>1, <1>2, <1>3, <2>1, <3>2, <3>4, DrainStandStill DEF RunOK
    <3> QED  BY <1>7, <2>3, <3>3, <3>4 DEF Dequeue
  <2> QED  BY <2>2, <2>3
<1>8. CASE EndResumed
  <2>1. cur \in Msgs /\ to[cur] \in Chats
    BY <1>8 DEF EndResumed, RunOK
  <2>2. QueueOK' /\ HeardOK' /\ TurnOK'
    BY <1>0, <1>1, <1>8, QueueKept, HeardKept, EndKeeps DEF EndResumed
  <2>3. CASE GiveUp
    BY <1>1, <1>2, <2>1, <2>2, <2>3, GiveUpKeeps
  <2>4. CASE run' = "check" /\ final' = TRUE /\ UNCHANGED <<second, cur, drain, left>>
    BY <1>1, <1>2, <1>3, <2>1, <2>2, <2>4, DrainStandStill DEF RunOK
  <2>5. CASE /\ run' = "publish" /\ left' = left \cup ToSet(queue[to[cur]])
             /\ UNCHANGED <<final, second, cur, drain>>
    <3>1. queue[to[cur]] \in Seq(Msgs)
      BY <2>1 DEF QueueOK, Queues, Sessions
    <3>2. left' \subseteq Msgs
      BY <1>3, <2>5, <3>1, ToSetTyped
    <3> QED  BY <1>1, <1>2, <2>1, <2>2, <2>5, <3>2, DrainStandStill DEF RunOK
  <2>6. PICK how \in {"answer", "aborted", "error"} :
            CASE how = "answer" ->
                     run' = "check" /\ final' = TRUE /\ UNCHANGED <<second, cur, drain, left>>
              [] how = "aborted" /\ second ->
                     /\ run' = "publish" /\ left' = left \cup ToSet(queue[to[cur]])
                     /\ UNCHANGED <<final, second, cur, drain>>
              [] OTHER -> GiveUp
    BY <1>8, Zenon DEF EndResumed
  <2>7. CASE how = "answer"
    BY <2>4, <2>6, <2>7
  <2>8. CASE how = "aborted" /\ second
    BY <2>5, <2>6, <2>8
  <2>9. CASE how # "answer" /\ ~(how = "aborted" /\ second)
    BY <2>3, <2>6, <2>9
  <2> QED  BY <2>7, <2>8, <2>9
<1> QED  BY <1>4, <1>5, <1>6, <1>7, <1>8

LEMMA StutterIInv ==
    ASSUME IInv, UNCHANGED vars
    PROVE  IInv'
<1> USE DEF IInv
<1>1. QueueOK' /\ HeardOK'
  BY DEF vars, QueueOK, HeardOK, Place, Sent
<1>2. TurnOK' /\ RunOK'
  BY DEF vars, runVars, TurnOK, RunOK
<1>3. DrainOK' /\ BusOK'
  BY DEF vars, histVars, DrainOK, BusOK, Sent
<1> QED  BY <1>1, <1>2, <1>3

LEMMA StepIInv ==
    ASSUME LoopAssumption, IInv, [Next]_vars
    PROVE  IInv'
<1>1. CASE \E m \in Msgs : Steer(m) \/ \E s \in Chats \cup {System} : Arrive(m, s)
  BY <1>1, ArriveIInv, SteerIInv
<1>2. CASE OtherEnd \/ \E s \in Sessions : OtherBegin(s)
  BY <1>2, OtherIInv
<1>3. CASE \E c \in Callers : TurnStep(c)
  BY <1>3, TurnIInv
<1>4. CASE RunStep
  BY <1>4, TakeIInv, CycleIInv DEF RunStep
<1>5. CASE \E d \in Msgs : DrainStep(d)
  BY <1>5, DrainIInv
<1>6. CASE UNCHANGED vars
  BY <1>6, StutterIInv
<1> QED  BY <1>1, <1>2, <1>3, <1>4, <1>5, <1>6 DEF Next

-------------------------------------------------------------------------------
(* Exactly one place *)

\* Where a message can be: on the bus, in the hand of a drain, in a queue, in
\* a session, out in the chat, or lost.
Places == {<<"inbound", None>>, <<"echoed", None>>, <<"dropped", None>>}
          \cup ({"held"} \X Msgs) \cup ({"queue"} \X Queues) \cup ({"heard"} \X Sessions)
At(p) == CASE p[1] = "inbound" -> ToSet(inbound)
           [] p[1] = "held"    -> {drain[p[2]].held} \ {None}
           [] p[1] = "queue"   -> ToSet(queue[p[2]])
           [] p[1] = "heard"   -> ToSet(heard[p[2]])
           [] p[1] = "echoed"  -> echoed
           [] p[1] = "dropped" -> dropped

Once(s) == \A i, j \in DOMAIN s : s[i] = s[j] => i = j

Apart == \A p1, p2 \in Places : \A m \in Msgs : m \in At(p1) /\ m \in At(p2) => p1 = p2
Somewhere == \A m \in Msgs : m \in Sent <=> \E p \in Places : m \in At(p)
OnceOK ==
    /\ Once(inbound)
    /\ \A q \in Queues : Once(queue[q])
    /\ \A s \in Sessions : Once(heard[s])
\* A drain holds a message only while its state says so, and it was started
\* for a message that is already in its session.
HandOK ==
    \A d \in Msgs : /\ drain[d].st # "holding" => drain[d].held = None
                    /\ drain[d].st # "none" => \E s \in Sessions : d \in ToSet(heard[s])

PlaceInv == Apart /\ Somewhere /\ OnceOK /\ HandOK

LEMMA OnceAppend ==
    ASSUME NEW S, NEW s \in Seq(S), NEW e \in S
    PROVE  /\ ToSet(Append(s, e)) = ToSet(s) \cup {e}
           /\ Once(s) /\ e \notin ToSet(s) => Once(Append(s, e))
<1>1. /\ Len(s) \in Nat /\ DOMAIN s = 1..Len(s)
      /\ DOMAIN Append(s, e) = 1..(Len(s) + 1)
      /\ \A i \in 1..Len(s) : Append(s, e)[i] = s[i]
      /\ Append(s, e)[Len(s) + 1] = e
  OBVIOUS
<1>2. ToSet(Append(s, e)) = ToSet(s) \cup {e}
  <2>1. ASSUME NEW x \in ToSet(Append(s, e)) PROVE x \in ToSet(s) \cup {e}
    BY <1>1 DEF ToSet
  <2>2. ASSUME NEW x \in ToSet(s) PROVE x \in ToSet(Append(s, e))
    BY <1>1 DEF ToSet
  <2>3. e \in ToSet(Append(s, e))
    BY <1>1 DEF ToSet
  <2> QED  BY <2>1, <2>2, <2>3
<1>3. Once(s) /\ e \notin ToSet(s) => Once(Append(s, e))
  BY <1>1 DEF ToSet, Once
<1> QED  BY <1>2, <1>3

LEMMA OnceTail ==
    ASSUME NEW S, NEW s \in Seq(S), s # <<>>, Once(s)
    PROVE  /\ Head(s) \in ToSet(s) /\ ToSet(Tail(s)) = ToSet(s) \ {Head(s)}
           /\ Once(Tail(s))
<1>1. /\ Len(s) \in Nat \ {0} /\ DOMAIN s = 1..Len(s)
      /\ DOMAIN Tail(s) = 1..(Len(s) - 1)
      /\ \A i \in 1..(Len(s) - 1) : Tail(s)[i] = s[i + 1]
      /\ Head(s) = s[1]
  OBVIOUS
<1>2. Head(s) \in ToSet(s)
  BY <1>1 DEF ToSet
<1>3. ASSUME NEW x \in ToSet(Tail(s)) PROVE x \in ToSet(s) \ {Head(s)}
  <2>1. PICK i \in 1..(Len(s) - 1) : x = s[i + 1]
    BY <1>1, <1>3 DEF ToSet
  <2>2. i + 1 \in 1..Len(s) /\ i + 1 # 1
    BY <1>1
  <2> QED  BY <1>1, <2>1, <2>2 DEF ToSet, Once
<1>4. ASSUME NEW x \in ToSet(s) \ {Head(s)} PROVE x \in ToSet(Tail(s))
  <2>1. PICK i \in 1..Len(s) : x = s[i] /\ i # 1
    BY <1>1, <1>4 DEF ToSet
  <2>2. i - 1 \in 1..(Len(s) - 1) /\ (i - 1) + 1 = i
    BY <1>1, <2>1
  <2>3. Tail(s)[i - 1] = x
    BY <1>1, <2>1, <2>2
  <2> QED  BY <1>1, <2>2, <2>3 DEF ToSet
<1>5. Once(Tail(s))
  <2> SUFFICES ASSUME NEW i \in 1..(Len(s) - 1), NEW j \in 1..(Len(s) - 1), s[i + 1] = s[j + 1]
               PROVE  i = j
    BY <1>1 DEF Once
  <2>1. i + 1 \in 1..Len(s) /\ j + 1 \in 1..Len(s)
    BY <1>1
  <2>2. i + 1 = j + 1
    BY <1>1, <2>1 DEF Once
  <2> QED  BY <2>2
<1> QED  BY <1>2, <1>3, <1>4, <1>5

LEMMA OnceSplit ==
    ASSUME NEW S, NEW s \in Seq(S), NEW n \in 1..Len(s), Once(s)
    PROVE  LET b == SubSeq(s, 1, n)
               r == SubSeq(s, n + 1, Len(s))
           IN /\ Once(b) /\ Once(r) /\ ToSet(b) \subseteq ToSet(s)
              /\ ToSet(r) = ToSet(s) \ ToSet(b)
<1> DEFINE b == SubSeq(s, 1, n)
           r == SubSeq(s, n + 1, Len(s))
<1>1. /\ Len(s) \in Nat \ {0} /\ DOMAIN s = 1..Len(s) /\ n \in 1..Len(s)
      /\ DOMAIN b = 1..n /\ \A i \in 1..n : b[i] = s[i]
  OBVIOUS
<1>2. /\ DOMAIN r = 1..(Len(s) - n)
      /\ \A i \in 1..(Len(s) - n) : r[i] = s[n + i]
  OBVIOUS
<1> HIDE DEF b, r
<1>3. Once(b) /\ ToSet(b) \subseteq ToSet(s)
  BY <1>1 DEF Once, ToSet
<1>4. Once(r)
  <2> SUFFICES ASSUME NEW i \in 1..(Len(s) - n), NEW j \in 1..(Len(s) - n), s[n + i] = s[n + j]
               PROVE  i = j
    BY <1>2 DEF Once
  <2>1. n + i \in 1..Len(s) /\ n + j \in 1..Len(s)
    BY <1>1
  <2>2. n + i = n + j
    BY <1>1, <2>1 DEF Once
  <2> QED  BY <1>1, <2>2
<1>5. ASSUME NEW x \in ToSet(r) PROVE x \in ToSet(s) \ ToSet(b)
  <2>1. PICK i \in 1..(Len(s) - n) : x = s[n + i]
    BY <1>2, <1>5 DEF ToSet
  <2>2. n + i \in 1..Len(s) /\ \A j \in 1..n : n + i # j
    BY <1>1
  <2>3. \A j \in 1..n : s[n + i] # s[j]
    BY <1>1, <2>2 DEF Once
  <2> QED  BY <1>1, <2>1, <2>2, <2>3 DEF ToSet
<1>6. ASSUME NEW x \in ToSet(s) \ ToSet(b) PROVE x \in ToSet(r)
  <2>1. PICK i \in 1..Len(s) : x = s[i]
    BY <1>1, <1>6 DEF ToSet
  <2>2. i \notin 1..n
    BY <1>1, <1>6, <2>1 DEF ToSet
  <2>3. i - n \in 1..(Len(s) - n) /\ n + (i - n) = i
    BY <1>1, <2>2
  <2>4. r[i - n] = x
    BY <1>2, <2>1, <2>3
  <2> QED  BY <1>2, <2>3, <2>4 DEF ToSet
<1>7. ToSet(r) = ToSet(s) \ ToSet(b)
  BY <1>5, <1>6
<1> QED  BY <1>3, <1>4, <1>7 DEF b, r

LEMMA OnceConcat ==
    ASSUME NEW S, NEW s \in Seq(S), NEW b \in Seq(S)
    PROVE  /\ ToSet(s \o b) = ToSet(s) \cup ToSet(b)
           /\ Once(s) /\ Once(b) /\ ToSet(s) \cap ToSet(b) = {} => Once(s \o b)
<1> DEFINE c == s \o b
<1>1. /\ Len(s) \in Nat /\ Len(b) \in Nat /\ DOMAIN s = 1..Len(s) /\ DOMAIN b = 1..Len(b)
      /\ DOMAIN c = 1..(Len(s) + Len(b))
      /\ \A i \in 1..Len(s) : c[i] = s[i]
  OBVIOUS
<1>2. \A i \in 1..(Len(s) + Len(b)) : i > Len(s) => c[i] = b[i - Len(s)]
  OBVIOUS
<1> HIDE DEF c
<1>3. ASSUME NEW i \in 1..(Len(s) + Len(b))
      PROVE  \/ i \in 1..Len(s) /\ c[i] = s[i]
             \/ i - Len(s) \in 1..Len(b) /\ c[i] = b[i - Len(s)] /\ i = Len(s) + (i - Len(s))
  BY <1>1, <1>2
<1>4. ASSUME NEW x \in ToSet(c) PROVE x \in ToSet(s) \cup ToSet(b)
  BY <1>1, <1>3, <1>4 DEF ToSet
<1>5. ASSUME NEW x \in ToSet(s) PROVE x \in ToSet(c)
  <2>1. PICK i \in 1..Len(s) : x = s[i]
    BY <1>1, <1>5 DEF ToSet
  <2>2. i \in 1..(Len(s) + Len(b)) /\ c[i] = x
    BY <1>1, <2>1
  <2> QED  BY <1>1, <2>2 DEF ToSet
<1>6. ASSUME NEW x \in ToSet(b) PROVE x \in ToSet(c)
  <2>1. PICK i \in 1..Len(b) : x = b[i]
    BY <1>1, <1>6 DEF ToSet
  <2>2. /\ Len(s) + i \in 1..(Len(s) + Len(b)) /\ Len(s) + i > Len(s)
        /\ (Len(s) + i) - Len(s) = i
    BY <1>1
  <2>3. c[Len(s) + i] = x
    BY <1>2, <2>1, <2>2
  <2> QED  BY <1>1, <2>2, <2>3 DEF ToSet
<1>7. ASSUME Once(s), Once(b), ToSet(s) \cap ToSet(b) = {} PROVE Once(c)
  <2> SUFFICES ASSUME NEW i \in 1..(Len(s) + Len(b)), NEW j \in 1..(Len(s) + Len(b)), c[i] = c[j]
               PROVE  i = j
    BY <1>1 DEF Once
  <2>1. \A k \in 1..Len(s), l \in 1..Len(b) : s[k] # b[l]
    BY <1>1, <1>7 DEF ToSet
  <2>2. CASE i \in 1..Len(s) /\ j \in 1..Len(s)
    BY <1>1, <1>7, <2>2 DEF Once
  <2>3. CASE i - Len(s) \in 1..Len(b) /\ j - Len(s) \in 1..Len(b)
    <3>1. c[i] = b[i - Len(s)] /\ c[j] = b[j - Len(s)]
      BY <1>1, <1>2, <2>3
    <3>2. i - Len(s) = j - Len(s)
      BY <1>1, <1>7, <2>3, <3>1 DEF Once
    <3> QED  BY <1>1, <3>2
  <2> QED  BY <1>3, <2>1, <2>2, <2>3
<1> QED  BY <1>4, <1>5, <1>6, <1>7 DEF c

-------------------------------------------------------------------------------
\* The messages B go from place a to place b; m enters place b; nothing moves.
Moves(B, a, b) ==
    /\ a # b /\ B \subseteq At(a)
    /\ \A p \in Places : At(p)' = IF p = a THEN At(p) \ B
                                  ELSE IF p = b THEN At(p) \cup B ELSE At(p)
Enters(m, b) == \A p \in Places : At(p)' = IF p = b THEN At(p) \cup {m} ELSE At(p)
Stays == \A p \in Places : At(p)' = At(p)

LEMMA MovesKeeps ==
    ASSUME Apart, Somewhere, Sent' = Sent,
           NEW a \in Places, NEW b \in Places, NEW B, Moves(B, a, b)
    PROVE  Apart' /\ Somewhere'
<1>1. Apart'
  <2> SUFFICES ASSUME NEW p1 \in Places, NEW p2 \in Places, NEW m \in Msgs,
                      m \in At(p1)', m \in At(p2)'
               PROVE  p1 = p2
    BY DEF Apart, Places, Queues
  <2>1. CASE m \in B
    <3>1. m \in At(a)
      BY <2>1 DEF Moves
    <3>2. \A p \in Places : m \in At(p)' => p = b
      BY <2>1, <3>1 DEF Moves, Apart
    <3> QED  BY <3>2
  <2>2. CASE m \notin B
    <3>1. \A p \in Places : m \in At(p)' => m \in At(p)
      BY <2>2 DEF Moves
    <3> QED  BY <3>1 DEF Apart
  <2> QED  BY <2>1, <2>2
<1>2. Somewhere'
  <2> SUFFICES ASSUME NEW m \in Msgs
               PROVE  m \in Sent <=> \E p \in Places : m \in At(p)'
    BY DEF Somewhere, Places, Queues
  <2>1. (\E p \in Places : m \in At(p)) <=> (\E p \in Places : m \in At(p)')
    <3>1. CASE m \in B
      BY <3>1 DEF Moves
    <3>2. CASE m \notin B
      BY <3>2 DEF Moves
    <3> QED  BY <3>1, <3>2
  <2> QED  BY <2>1 DEF Somewhere
<1> QED  BY <1>1, <1>2

LEMMA EntersKeeps ==
    ASSUME Apart, Somewhere, NEW m \in Msgs, m \notin Sent, Sent' = Sent \cup {m},
           NEW b \in Places, Enters(m, b)
    PROVE  Apart' /\ Somewhere'
<1>1. \A p \in Places : m \notin At(p)
  BY DEF Somewhere
<1>2. \A p \in Places : m \in At(p)' <=> p = b
  BY <1>1 DEF Enters
<1>3. \A n \in Msgs \ {m} : \A p \in Places : n \in At(p)' <=> n \in At(p)
  BY DEF Enters
<1>4. Apart'
  <2> SUFFICES ASSUME NEW p1 \in Places, NEW p2 \in Places, NEW n \in Msgs,
                      n \in At(p1)', n \in At(p2)'
               PROVE  p1 = p2
    BY DEF Apart, Places, Queues
  <2> QED  BY <1>2, <1>3 DEF Apart
<1>5. Somewhere'
  <2> SUFFICES ASSUME NEW n \in Msgs
               PROVE  n \in Sent' <=> \E p \in Places : n \in At(p)'
    BY DEF Somewhere, Places, Queues
  <2> QED  BY <1>2, <1>3 DEF Somewhere
<1> QED  BY <1>4, <1>5

LEMMA StaysKeeps ==
    ASSUME Apart, Somewhere, Sent' = Sent, Stays
    PROVE  Apart' /\ Somewhere'
<1>1. Apart'
  BY DEF Apart, Stays, Places, Queues
<1>2. Somewhere'
  BY DEF Somewhere, Stays, Places, Queues
<1> QED  BY <1>1, <1>2

LEMMA AtPlaces ==
    /\ At(<<"inbound", None>>) = ToSet(inbound)
    /\ \A d \in Msgs : At(<<"held", d>>) = {drain[d].held} \ {None}
    /\ \A q \in Queues : At(<<"queue", q>>) = ToSet(queue[q])
    /\ \A s \in Sessions : At(<<"heard", s>>) = ToSet(heard[s])
    /\ At(<<"echoed", None>>) = echoed
    /\ At(<<"dropped", None>>) = dropped
  BY DEF At

LEMMA AtPlacesNext ==
    /\ At(<<"inbound", None>>)' = ToSet(inbound')
    /\ \A d \in Msgs : At(<<"held", d>>)' = {drain'[d].held} \ {None}
    /\ \A q \in Queues : At(<<"queue", q>>)' = ToSet(queue'[q])
    /\ \A s \in Sessions : At(<<"heard", s>>)' = ToSet(heard'[s])
    /\ At(<<"echoed", None>>)' = echoed'
    /\ At(<<"dropped", None>>)' = dropped'
  BY DEF At

LEMMA PlacesAre ==
    \A p \in Places :
        \/ p \in {<<"inbound", None>>, <<"echoed", None>>, <<"dropped", None>>}
        \/ \E d \in Msgs : p = <<"held", d>>
        \/ \E q \in Queues : p = <<"queue", q>>
        \/ \E s \in Sessions : p = <<"heard", s>>
  BY DEF Places

\* A turn of session s takes a batch from queue q.
LEMMA HearMoves ==
    ASSUME IInv, PlaceInv, UNCHANGED <<to, inbound, drain, echoed, dropped>>,
           NEW s \in Sessions, NEW q \in Queues, queue[q] # <<>>, Hear(s, q)
    PROVE  PlaceInv'
<1> DEFINE batch == SubSeq(queue[q], 1, Batch(q))
           rest == SubSeq(queue[q], Batch(q) + 1, Len(queue[q]))
           a == <<"queue", q>>
           b == <<"heard", s>>
<1>1. queue[q] \in Seq(Msgs) /\ heard[s] \in Seq(Msgs) /\ Once(queue[q]) /\ Once(heard[s])
  BY DEF IInv, QueueOK, HeardOK, Queues, PlaceInv, OnceOK
<1>2. Batch(q) \in 1..Len(queue[q])
  BY <1>1 DEF Batch
<1>3. batch \in Seq(Msgs) /\ rest \in Seq(Msgs)
  BY <1>1, <1>2, BatchTyped
<1>4. /\ Once(batch) /\ Once(rest) /\ ToSet(batch) \subseteq ToSet(queue[q])
      /\ ToSet(rest) = ToSet(queue[q]) \ ToSet(batch)
  BY <1>1, <1>2, OnceSplit
<1>5. ToSet(queue[q]) \subseteq Msgs
  BY <1>1, ToSetTyped
<1>6. a \in Places /\ b \in Places /\ a # b
  BY DEF Places
<1>7. At(a) = ToSet(queue[q]) /\ At(b) = ToSet(heard[s])
  BY AtPlaces
<1>8. ToSet(heard[s]) \cap ToSet(batch) = {}
  BY <1>4, <1>5, <1>6, <1>7 DEF PlaceInv, Apart
<1> HIDE DEF batch, rest
<1>9. /\ ToSet(heard[s] \o batch) = ToSet(heard[s]) \cup ToSet(batch)
      /\ Once(heard[s] \o batch)
  BY <1>1, <1>3, <1>4, <1>8, OnceConcat
<1>10. /\ heard' = [heard EXCEPT ![s] = heard[s] \o batch]
       /\ queue' = [queue EXCEPT ![q] = rest]
  BY DEF Hear, batch, rest
<1>11. /\ queue'[q] = rest /\ \A p \in Queues \ {q} : queue'[p] = queue[p]
       /\ heard'[s] = heard[s] \o batch /\ \A t \in Sessions \ {s} : heard'[t] = heard[t]
  BY <1>10 DEF IInv, QueueOK, HeardOK
<1>12. Moves(ToSet(batch), a, b)
  <2>1. \A p \in Places : At(p)' = IF p = a THEN At(p) \ ToSet(batch)
                                   ELSE IF p = b THEN At(p) \cup ToSet(batch) ELSE At(p)
    <3> SUFFICES ASSUME NEW p \in Places
                 PROVE  At(p)' = IF p = a THEN At(p) \ ToSet(batch)
                                 ELSE IF p = b THEN At(p) \cup ToSet(batch) ELSE At(p)
      OBVIOUS
    <3>1. CASE p \in {<<"inbound", None>>, <<"echoed", None>>, <<"dropped", None>>}
      BY <3>1, AtPlaces, AtPlacesNext
    <3>2. CASE \E d \in Msgs : p = <<"held", d>>
      BY <3>2, AtPlaces, AtPlacesNext
    <3>3. ASSUME NEW r \in Queues, p = <<"queue", r>>
          PROVE  At(p)' = IF p = a THEN At(p) \ ToSet(batch)
                          ELSE IF p = b THEN At(p) \cup ToSet(batch) ELSE At(p)
      BY <1>4, <1>11, <3>3, AtPlaces, AtPlacesNext
    <3>4. ASSUME NEW r \in Sessions, p = <<"heard", r>>
          PROVE  At(p)' = IF p = a THEN At(p) \ ToSet(batch)
                          ELSE IF p = b THEN At(p) \cup ToSet(batch) ELSE At(p)
      BY <1>9, <1>11, <3>4, AtPlaces, AtPlacesNext
    <3> QED  BY <3>1, <3>2, <3>3, <3>4, PlacesAre
  <2> QED  BY <1>4, <1>6, <1>7, <2>1 DEF Moves
<1>13. Apart' /\ Somewhere'
  BY <1>6, <1>12, MovesKeeps DEF PlaceInv, Sent
<1>14. OnceOK'
  BY <1>4, <1>9, <1>11 DEF PlaceInv, OnceOK
<1>15. HandOK'
  <2>1. \A t \in Sessions : ToSet(heard[t]) \subseteq ToSet(heard'[t])
    BY <1>9, <1>11
  <2> QED  BY <2>1 DEF PlaceInv, HandOK
<1> QED  BY <1>13, <1>14, <1>15 DEF PlaceInv

\* Nothing moves, and the drains' hands keep what they have.
LEMMA PlacesKept ==
    ASSUME PlaceInv, UNCHANGED <<to, inbound, queue, heard, echoed, dropped>>,
           \A d \in Msgs : /\ drain'[d].held = drain[d].held
                           /\ drain'[d].st # "holding" => drain[d].held = None
                           /\ drain'[d].st # "none" => drain[d].st # "none"
    PROVE  PlaceInv'
<1>1. Stays
  <2> SUFFICES ASSUME NEW p \in Places PROVE At(p)' = At(p)
    BY DEF Stays
  <2>1. CASE p \in {<<"inbound", None>>, <<"echoed", None>>, <<"dropped", None>>}
    BY <2>1, AtPlaces, AtPlacesNext
  <2>2. CASE \E d \in Msgs : p = <<"held", d>>
    BY <2>2, AtPlaces, AtPlacesNext
  <2>3. CASE \E q \in Queues : p = <<"queue", q>>
    BY <2>3, AtPlaces, AtPlacesNext
  <2>4. CASE \E s \in Sessions : p = <<"heard", s>>
    BY <2>4, AtPlaces, AtPlacesNext
  <2> QED  BY <2>1, <2>2, <2>3, <2>4, PlacesAre
<1>2. Apart' /\ Somewhere'
  BY <1>1, StaysKeeps DEF PlaceInv, Sent
<1>3. OnceOK'
  BY DEF PlaceInv, OnceOK
<1>4. HandOK'
  BY DEF PlaceInv, HandOK
<1> QED  BY <1>2, <1>3, <1>4 DEF PlaceInv

\* With the drains unchanged, or one cancelled.
LEMMA PlacesUndisturbed ==
    ASSUME IInv, PlaceInv, UNCHANGED <<to, inbound, queue, heard, echoed, dropped>>,
           UNCHANGED drain \/ CancelDrain
    PROVE  PlaceInv'
<1>1. \A d \in Msgs : drain'[d].held = drain[d].held /\ drain'[d].st = drain[d].st
  BY DEF CancelDrain, IInv, DrainOK
<1> QED  BY <1>1, PlacesKept DEF PlaceInv, HandOK

-------------------------------------------------------------------------------
\* A push takes effect outside the drains' hands: in the queue, or among the
\* lost messages.
LEMMA PushPlaces ==
    ASSUME IInv, OnceOK, UNCHANGED <<inbound, heard, echoed>>,
           NEW q \in Queues, NEW m \in Msgs, m \notin ToSet(queue[q]), Push(q, m)
    PROVE  /\ OnceOK'
           /\ \E b \in {<<"queue", q>>, <<"dropped", None>>} :
                \A p \in Places : (\A d \in Msgs : p # <<"held", d>>) =>
                    At(p)' = IF p = b THEN At(p) \cup {m} ELSE At(p)
<1>1. queue \in [Queues -> Seq(Msgs)] /\ Once(queue[q])
  BY DEF IInv, QueueOK, OnceOK
<1>2. CASE Len(queue[q]) < MaxQueueSize
  <2> DEFINE b == <<"queue", q>>
  <2>1. queue' = [queue EXCEPT ![q] = Append(queue[q], m)] /\ UNCHANGED dropped
    BY <1>2 DEF Push
  <2>2. /\ ToSet(Append(queue[q], m)) = ToSet(queue[q]) \cup {m}
        /\ Once(Append(queue[q], m))
    BY <1>1, OnceAppend
  <2>3. /\ queue'[q] = Append(queue[q], m)
        /\ \A r \in Queues \ {q} : queue'[r] = queue[r]
    BY <1>1, <2>1
  <2>4. OnceOK'
    BY <2>2, <2>3 DEF OnceOK
  <2>5. ASSUME NEW p \in Places, \A d \in Msgs : p # <<"held", d>>
        PROVE  At(p)' = IF p = b THEN At(p) \cup {m} ELSE At(p)
    <3>1. CASE p \in {<<"inbound", None>>, <<"echoed", None>>, <<"dropped", None>>}
      BY <2>1, <3>1, AtPlaces, AtPlacesNext
    <3>2. CASE \E s \in Sessions : p = <<"heard", s>>
      BY <3>2, AtPlaces, AtPlacesNext
    <3>3. ASSUME NEW r \in Queues, p = <<"queue", r>>
          PROVE  At(p)' = IF p = b THEN At(p) \cup {m} ELSE At(p)
      <4>1. At(p) = ToSet(queue[r]) /\ At(p)' = ToSet(queue'[r]) /\ (p = b <=> r = q)
        BY <3>3, AtPlaces, AtPlacesNext
      <4>2. ToSet(queue'[r]) = IF r = q THEN ToSet(queue[r]) \cup {m} ELSE ToSet(queue[r])
        BY <2>2, <2>3
      <4> QED  BY <4>1, <4>2
    <3> QED  BY <2>5, <3>1, <3>2, <3>3, PlacesAre
  <2> QED  BY <2>4, <2>5
<1>3. CASE ~(Len(queue[q]) < MaxQueueSize)
  <2> DEFINE b == <<"dropped", None>>
  <2>1. dropped' = dropped \cup {m} /\ UNCHANGED queue
    BY <1>3 DEF Push
  <2>2. OnceOK'
    BY <2>1 DEF OnceOK
  <2>3. ASSUME NEW p \in Places, \A d \in Msgs : p # <<"held", d>>
        PROVE  At(p)' = IF p = b THEN At(p) \cup {m} ELSE At(p)
    <3>1. CASE p \in {<<"inbound", None>>, <<"echoed", None>>, <<"dropped", None>>}
      BY <2>1, <3>1, AtPlaces, AtPlacesNext
    <3>2. CASE \E s \in Sessions : p = <<"heard", s>>
      BY <3>2, AtPlaces, AtPlacesNext
    <3>3. CASE \E r \in Queues : p = <<"queue", r>>
      BY <2>1, <3>3, AtPlaces, AtPlacesNext
    <3> QED  BY <2>3, <3>1, <3>2, <3>3, PlacesAre
  <2> QED  BY <2>2, <2>3
<1> QED  BY <1>2, <1>3

LEMMA SentOnce ==
    ASSUME LoopAssumption, BusOK, NEW m \in Msgs, NEW s \in Chats \cup {System, Manual},
           to[m] = None, to' = [to EXCEPT ![m] = s]
    PROVE  m \notin Sent /\ Sent' = Sent \cup {m}
<1>1. s # None
  BY DEF LoopAssumption, Sessions
<1> QED  BY <1>1 DEF Sent, BusOK

LEMMA UnsentNowhere ==
    ASSUME PlaceInv, NEW m \in Msgs, m \notin Sent
    PROVE  m \notin ToSet(inbound) /\ \A q \in Queues : m \notin ToSet(queue[q])
<1>1. <<"inbound", None>> \in Places /\ \A q \in Queues : <<"queue", q>> \in Places
  BY DEF Places
<1> QED  BY <1>1, AtPlaces DEF PlaceInv, Somewhere

LEMMA ArrivePlaces ==
    ASSUME LoopAssumption, IInv, PlaceInv,
           NEW m \in Msgs, NEW s \in Chats \cup {System}, Arrive(m, s)
    PROVE  PlaceInv'
<1> DEFINE b == <<"inbound", None>>
<1>1. m \notin Sent /\ Sent' = Sent \cup {m}
  BY SentOnce DEF Arrive, IInv
<1>2. inbound \in Seq(Msgs) /\ Once(inbound) /\ m \notin ToSet(inbound)
  BY <1>1, UnsentNowhere DEF IInv, BusOK, PlaceInv, OnceOK
<1>3. ToSet(inbound') = ToSet(inbound) \cup {m} /\ Once(inbound')
  BY <1>2, OnceAppend DEF Arrive
<1>4. UNCHANGED <<drain, queue, heard, echoed, dropped>>
  BY DEF Arrive
<1>5. Enters(m, b)
  <2> SUFFICES ASSUME NEW p \in Places
               PROVE  At(p)' = IF p = b THEN At(p) \cup {m} ELSE At(p)
    BY DEF Enters
  <2>1. CASE p \in {b, <<"echoed", None>>, <<"dropped", None>>}
    BY <1>3, <1>4, <2>1, AtPlaces, AtPlacesNext
  <2>2. CASE \E d \in Msgs : p = <<"held", d>>
    BY <1>4, <2>2, AtPlaces, AtPlacesNext
  <2>3. CASE \E q \in Queues : p = <<"queue", q>>
    BY <1>4, <2>3, AtPlaces, AtPlacesNext
  <2>4. CASE \E t \in Sessions : p = <<"heard", t>>
    BY <1>4, <2>4, AtPlaces, AtPlacesNext
  <2> QED  BY <2>1, <2>2, <2>3, <2>4, PlacesAre
<1>6. b \in Places
  BY DEF Places
<1>7. Apart' /\ Somewhere'
  BY <1>1, <1>5, <1>6, EntersKeeps DEF PlaceInv
<1>8. OnceOK' /\ HandOK'
  BY <1>3, <1>4 DEF PlaceInv, OnceOK, HandOK
<1> QED  BY <1>7, <1>8 DEF PlaceInv

LEMMA SteerPlaces ==
    ASSUME LoopAssumption, IInv, PlaceInv, NEW m \in Msgs, Steer(m)
    PROVE  PlaceInv'
<1>1. m \notin Sent /\ Sent' = Sent \cup {m}
  BY SentOnce DEF Steer, IInv
<1>2. PICK q \in Queues : Push(q, m)
  BY DEF Steer, IInv, TurnOK, Queues
<1>3. UNCHANGED <<drain, inbound, heard, echoed>>
  BY DEF Steer
<1>4. m \notin ToSet(queue[q])
  BY <1>1, UnsentNowhere
<1>5. PICK b \in {<<"queue", q>>, <<"dropped", None>>} :
        \A p \in Places : (\A d \in Msgs : p # <<"held", d>>) =>
            At(p)' = IF p = b THEN At(p) \cup {m} ELSE At(p)
  BY <1>2, <1>3, <1>4, PushPlaces DEF PlaceInv
<1>6. b \in Places /\ \A d \in Msgs : b # <<"held", d>>
  BY DEF Places
<1>7. Enters(m, b)
  <2> SUFFICES ASSUME NEW p \in Places
               PROVE  At(p)' = IF p = b THEN At(p) \cup {m} ELSE At(p)
    BY DEF Enters
  <2>1. CASE \E d \in Msgs : p = <<"held", d>>
    BY <1>3, <1>6, <2>1, AtPlaces, AtPlacesNext
  <2>2. CASE \A d \in Msgs : p # <<"held", d>>
    BY <1>5, <2>2
  <2> QED  BY <2>1, <2>2
<1>8. Apart' /\ Somewhere'
  BY <1>1, <1>6, <1>7, EntersKeeps DEF PlaceInv
<1>9. OnceOK'
  BY <1>2, <1>3, <1>4, PushPlaces DEF PlaceInv
<1>10. HandOK'
  BY <1>3 DEF PlaceInv, HandOK
<1> QED  BY <1>8, <1>9, <1>10 DEF PlaceInv

\* A drain receives a message, and gives the one it holds away.
LEMMA DrainReceivePlaces ==
    ASSUME LoopAssumption, IInv, PlaceInv, NEW d \in Msgs, DrainReceive(d)
    PROVE  PlaceInv'
<1> DEFINE m == Head(inbound)
           a == <<"inbound", None>>
           b == <<"held", d>>
<1>1. /\ inbound \in Seq(Msgs) /\ inbound # <<>> /\ Once(inbound)
      /\ drain[d].held = None /\ inbound' = Tail(inbound)
  BY DEF DrainReceive, IInv, BusOK, PlaceInv, OnceOK, HandOK
<1>2. /\ m \in ToSet(inbound) /\ ToSet(inbound') = ToSet(inbound) \ {m} /\ Once(inbound')
      /\ m \in Msgs /\ m # None
  BY <1>1, OnceTail, TailTyped DEF LoopAssumption
<1>3. UNCHANGED <<to, queue, heard, echoed, dropped>>
  BY DEF DrainReceive
<1>4. /\ drain'[d].held = m /\ drain'[d].st = "holding" /\ drain[d].st # "none"
      /\ \A e \in Msgs \ {d} : drain'[e] = drain[e]
  BY DEF DrainReceive, IInv, DrainOK
<1>5. a \in Places /\ b \in Places /\ a # b
  BY DEF Places
<1>6. Moves({m}, a, b)
  <2> SUFFICES ASSUME NEW p \in Places
               PROVE  At(p)' = IF p = a THEN At(p) \ {m}
                               ELSE IF p = b THEN At(p) \cup {m} ELSE At(p)
    BY <1>2, <1>5, AtPlaces DEF Moves
  <2>1. CASE p \in {a, <<"echoed", None>>, <<"dropped", None>>}
    BY <1>2, <1>3, <2>1, AtPlaces, AtPlacesNext
  <2>2. CASE p = b
    BY <1>1, <1>2, <1>4, <2>2, AtPlaces, AtPlacesNext
  <2>3. CASE \E e \in Msgs : p = <<"held", e>> /\ e # d
    BY <1>4, <2>3, AtPlaces, AtPlacesNext
  <2>4. CASE \E q \in Queues : p = <<"queue", q>>
    BY <1>3, <2>4, AtPlaces, AtPlacesNext
  <2>5. CASE \E s \in Sessions : p = <<"heard", s>>
    BY <1>3, <2>5, AtPlaces, AtPlacesNext
  <2> QED  BY <2>1, <2>2, <2>3, <2>4, <2>5, PlacesAre
<1>7. Apart' /\ Somewhere'
  BY <1>3, <1>5, <1>6, MovesKeeps DEF PlaceInv, Sent
<1>8. OnceOK' /\ HandOK'
  BY <1>2, <1>3, <1>4 DEF PlaceInv, OnceOK, HandOK
<1> QED  BY <1>7, <1>8 DEF PlaceInv

LEMMA DrainGivesPlaces ==
    ASSUME LoopAssumption, IInv, PlaceInv, NEW d \in Msgs, DrainSteer(d) \/ DrainRequeue(d)
    PROVE  PlaceInv'
<1> DEFINE m == drain[d].held
           a == <<"held", d>>
<1>1. /\ drain[d].st = "holding" /\ m \in Msgs /\ m # None
      /\ UNCHANGED <<to, inbound, heard>>
      /\ drain' = [drain EXCEPT ![d].st = "draining", ![d].held = None]
  BY DEF DrainSteer, DrainRequeue, IInv, DrainOK, Sent, LoopAssumption
<1>2. /\ drain'[d].held = None /\ drain'[d].st = "draining"
      /\ \A e \in Msgs \ {d} : drain'[e] = drain[e]
  BY <1>1 DEF IInv, DrainOK
<1>3. a \in Places /\ At(a) = {m} /\ At(a)' = {}
  BY <1>1, <1>2, AtPlaces, AtPlacesNext DEF Places
<1>4. /\ OnceOK'
      /\ \E b \in Places :
           /\ \A e \in Msgs : b # <<"held", e>>
           /\ \A p \in Places : (\A e \in Msgs : p # <<"held", e>>) =>
                At(p)' = IF p = b THEN At(p) \cup {m} ELSE At(p)
  <2>1. CASE DrainSteer(d)
    <3>1. to[d] \in Queues /\ Push(to[d], m) /\ UNCHANGED echoed
      BY <2>1 DEF DrainSteer, IInv, DrainOK, Queues, Sessions
    <3>2. <<"queue", to[d]>> \in Places /\ <<"queue", to[d]>> # a
      BY <3>1 DEF Places
    <3>3. m \notin ToSet(queue[to[d]])
      BY <1>1, <1>3, <3>1, <3>2, AtPlaces DEF PlaceInv, Apart
    <3>4. \A b \in {<<"queue", to[d]>>, <<"dropped", None>>} :
            b \in Places /\ \A e \in Msgs : b # <<"held", e>>
      BY <3>2 DEF Places
    <3> QED  BY <1>1, <3>1, <3>3, <3>4, PushPlaces DEF PlaceInv
  <2>2. CASE DrainRequeue(d)
    <3>1. PICK b \in {<<"echoed", None>>, <<"dropped", None>>} :
             /\ b = <<"echoed", None>> => echoed' = echoed \cup {m} /\ UNCHANGED dropped
             /\ b = <<"dropped", None>> => dropped' = dropped \cup {m} /\ UNCHANGED echoed
      BY <2>2 DEF DrainRequeue
    <3>2. UNCHANGED queue
      BY <2>2 DEF DrainRequeue
    <3>3. OnceOK'
      BY <1>1, <3>2 DEF PlaceInv, OnceOK
    <3>4. b \in Places /\ \A e \in Msgs : b # <<"held", e>>
      BY DEF Places
    <3>5. ASSUME NEW p \in Places, \A e \in Msgs : p # <<"held", e>>
          PROVE  At(p)' = IF p = b THEN At(p) \cup {m} ELSE At(p)
      <4>1. CASE p \in {<<"inbound", None>>, <<"echoed", None>>, <<"dropped", None>>}
        BY <1>1, <3>1, <4>1, AtPlaces, AtPlacesNext
      <4>2. CASE \E s \in Sessions : p = <<"heard", s>>
        BY <1>1, <4>2, AtPlaces, AtPlacesNext
      <4>3. CASE \E r \in Queues : p = <<"queue", r>>
        BY <3>2, <4>3, AtPlaces, AtPlacesNext
      <4> QED  BY <3>5, <4>1, <4>2, <4>3, PlacesAre
    <3> QED  BY <3>3, <3>4, <3>5
  <2> QED  BY <2>1, <2>2
<1>5. PICK b \in Places :
        /\ \A e \in Msgs : b # <<"held", e>>
        /\ \A p \in Places : (\A e \in Msgs : p # <<"held", e>>) =>
             At(p)' = IF p = b THEN At(p) \cup {m} ELSE At(p)
  BY <1>4
<1>6. Moves({m}, a, b)
  <2> SUFFICES ASSUME NEW p \in Places
               PROVE  At(p)' = IF p = a THEN At(p) \ {m}
                               ELSE IF p = b THEN At(p) \cup {m} ELSE At(p)
    BY <1>3, <1>5 DEF Moves
  <2>1. CASE p = a
    BY <1>3, <2>1
  <2>2. CASE \E e \in Msgs : p = <<"held", e>> /\ e # d
    BY <1>2, <1>5, <2>2, AtPlaces, AtPlacesNext
  <2>3. CASE \A e \in Msgs : p # <<"held", e>>
    BY <1>5, <2>3
  <2> QED  BY <2>1, <2>2, <2>3
<1>7. Apart' /\ Somewhere'
  BY <1>1, <1>3, <1>6, MovesKeeps DEF PlaceInv, Sent
<1>8. HandOK'
  BY <1>1, <1>2 DEF PlaceInv, HandOK
<1> QED  BY <1>4, <1>7, <1>8 DEF PlaceInv

\* Run takes a message into its session; the drain it starts is a new one.
LEMMA TakePlaces ==
    ASSUME LoopAssumption, IInv, PlaceInv, Take \/ TakeSystem
    PROVE  PlaceInv'
<1> DEFINE m == Head(inbound)
           s == IF Take THEN to[m] ELSE MainSession
           a == <<"inbound", None>>
           b == <<"heard", s>>
<1>1. /\ inbound \in Seq(Msgs) /\ inbound # <<>> /\ Once(inbound) /\ inbound' = Tail(inbound)
      /\ UNCHANGED <<to, queue, echoed, dropped>>
  BY DEF Take, TakeSystem, IInv, BusOK, PlaceInv, OnceOK
<1>2. /\ m \in ToSet(inbound) /\ ToSet(inbound') = ToSet(inbound) \ {m} /\ Once(inbound')
      /\ m \in Msgs
  BY <1>1, OnceTail, TailTyped
<1>3. s \in Sessions /\ heard' = [heard EXCEPT ![s] = Append(heard[s], m)]
  <2>1. MainSession \in Sessions
    BY DEF LoopAssumption, Sessions
  <2>2. CASE Take
    BY <2>2 DEF Take, Sessions
  <2>3. CASE ~Take
    BY <2>1, <2>3 DEF TakeSystem
  <2> QED  BY <2>2, <2>3
<1>4. a \in Places /\ b \in Places /\ a # b /\ \A t \in Sessions : <<"heard", t>> \in Places
  BY <1>3 DEF Places
<1>5. \A t \in Sessions : m \notin ToSet(heard[t])
  <2> SUFFICES ASSUME NEW t \in Sessions, m \in ToSet(heard[t]) PROVE FALSE
    OBVIOUS
  <2>1. m \in At(a) /\ m \in At(<<"heard", t>>) /\ a # <<"heard", t>>
    BY <1>2, AtPlaces
  <2> QED  BY <1>2, <1>4, <2>1 DEF PlaceInv, Apart
<1>6. /\ ToSet(Append(heard[s], m)) = ToSet(heard[s]) \cup {m}
      /\ Once(Append(heard[s], m))
  <2>1. heard[s] \in Seq(Msgs) /\ Once(heard[s])
    BY <1>3 DEF IInv, HeardOK, PlaceInv, OnceOK
  <2> QED  BY <1>2, <1>3, <1>5, <2>1, OnceAppend
<1> HIDE DEF s
<1>7. heard'[s] = Append(heard[s], m) /\ \A t \in Sessions \ {s} : heard'[t] = heard[t]
  BY <1>3 DEF IInv, HeardOK
<1>8. /\ \A d \in Msgs : drain'[d].held = drain[d].held
      /\ \A d \in Msgs \ {m} : drain'[d].st = drain[d].st
      /\ drain[m].held = None
  <2>1. drain[m].st = "none"
    BY <1>2, <1>5 DEF PlaceInv, HandOK
  <2>2. drain[m].held = None
    BY <1>2, <2>1 DEF PlaceInv, HandOK
  <2>3. UNCHANGED drain \/ drain' = [drain EXCEPT ![m].st = "blocking"]
    BY DEF Take, TakeSystem
  <2> QED  BY <1>2, <2>2, <2>3 DEF IInv, DrainOK
<1>9. Moves({m}, a, b)
  <2> SUFFICES ASSUME NEW p \in Places
               PROVE  At(p)' = IF p = a THEN At(p) \ {m}
                               ELSE IF p = b THEN At(p) \cup {m} ELSE At(p)
    BY <1>2, <1>4, AtPlaces DEF Moves
  <2>1. CASE p = a
    BY <1>2, <2>1, AtPlaces, AtPlacesNext
  <2>6. CASE p \in {<<"echoed", None>>, <<"dropped", None>>}
    <3>1. p # a /\ p # b
      BY <2>6
    <3>2. At(p)' = At(p)
      BY <1>1, <2>6, AtPlaces, AtPlacesNext
    <3> QED  BY <3>1, <3>2
  <2>2. CASE p = b
    BY <1>3, <1>6, <1>7, <2>2, AtPlaces, AtPlacesNext
  <2>3. CASE \E e \in Msgs : p = <<"held", e>>
    BY <1>8, <2>3, AtPlaces, AtPlacesNext
  <2>4. CASE \E q \in Queues : p = <<"queue", q>>
    BY <1>1, <2>4, AtPlaces, AtPlacesNext
  <2>5. CASE \E t \in Sessions : p = <<"heard", t>> /\ t # s
    BY <1>7, <2>5, AtPlaces, AtPlacesNext
  <2> QED  BY <2>1, <2>2, <2>3, <2>4, <2>5, <2>6, PlacesAre
<1>10. Apart' /\ Somewhere'
  BY <1>1, <1>4, <1>9, MovesKeeps DEF PlaceInv, Sent
<1>11. OnceOK'
  BY <1>1, <1>2, <1>6, <1>7 DEF PlaceInv, OnceOK
<1>12. HandOK'
  <2>1. \A t \in Sessions : ToSet(heard[t]) \subseteq ToSet(heard'[t])
    BY <1>6, <1>7
  <2>2. m \in ToSet(heard'[s])
    BY <1>6, <1>7
  <2>3. ASSUME NEW d \in Msgs
        PROVE  /\ drain'[d].st # "holding" => drain'[d].held = None
               /\ drain'[d].st # "none" => \E t \in Sessions : d \in ToSet(heard'[t])
    BY <1>3, <1>8, <2>1, <2>2 DEF PlaceInv, HandOK
  <2> QED  BY <2>3 DEF HandOK
<1> QED  BY <1>10, <1>11, <1>12 DEF PlaceInv

LEMMA CyclePlaces ==
    ASSUME LoopAssumption, IInv, PlaceInv,
           EndTurn \/ Check \/ Cancel \/ Continue \/ Dequeue \/ EndResumed \/ Publish
    PROVE  PlaceInv'
<1>1. UNCHANGED <<to, inbound, echoed, dropped>> /\ (UNCHANGED drain \/ CancelDrain)
  <2>1. CASE EndTurn \/ Check \/ Cancel \/ Publish
    BY <2>1 DEF EndTurn, Check, Cancel, Publish
  <2>2. CASE Continue \/ Dequeue
    BY <2>2 DEF Continue, Dequeue, GiveUp
  <2>3. CASE EndResumed
    <3>1. PICK how \in {"answer", "aborted", "error"} :
            CASE how = "answer" ->
                     run' = "check" /\ final' = TRUE /\ UNCHANGED <<second, cur, drain, left>>
              [] how = "aborted" /\ second ->
                     /\ run' = "publish" /\ left' = left \cup ToSet(queue[to[cur]])
                     /\ UNCHANGED <<final, second, cur, drain>>
              [] OTHER -> GiveUp
      BY <2>3, Zenon DEF EndResumed
    <3>2. CASE how = "answer"
      BY <2>3, <3>1, <3>2 DEF EndResumed
    <3>3. CASE how = "aborted" /\ second
      BY <2>3, <3>1, <3>3 DEF EndResumed
    <3>4. CASE how # "answer" /\ ~(how = "aborted" /\ second)
      BY <2>3, <3>1, <3>4 DEF EndResumed, GiveUp
    <3> QED  BY <3>2, <3>3, <3>4
  <2> QED  BY <2>1, <2>2, <2>3
<1>2. CASE UNCHANGED <<queue, heard>>
  BY <1>1, <1>2, PlacesUndisturbed
<1>3. CASE Dequeue /\ ~UNCHANGED <<queue, heard>>
  <2>1. to[cur] \in Sessions
    BY <1>3 DEF Dequeue, IInv, RunOK, Sessions
  <2>2. Fallback(to[cur]) \in Queues
    BY <2>1, FallbackQueue DEF Queues
  <2>3. /\ queue[Fallback(to[cur])] # <<>>
        /\ Hear(to[cur], Fallback(to[cur])) /\ UNCHANGED drain
    BY <1>3 DEF Dequeue
  <2> QED  BY <1>1, <2>1, <2>2, <2>3, HearMoves
<1> QED  BY <1>2, <1>3 DEF EndTurn, Check, Cancel, Continue, EndResumed, Publish

LEMMA TurnPlaces ==
    ASSUME LoopAssumption, IInv, PlaceInv, NEW c \in Callers, TurnStep(c)
    PROVE  PlaceInv'
<1>1. UNCHANGED <<to, inbound, drain, echoed, dropped>>
  BY DEF TurnStep, FirstPoll, Poll, LastPoll
<1>2. turn[c].scope \in Sessions
  BY DEF TurnStep, FirstPoll, Poll, LastPoll, IInv, TurnOK
<1>3. CASE UNCHANGED <<queue, heard>>
  BY <1>1, <1>3, PlacesUndisturbed
<1>4. CASE \E q \in {turn[c].scope, Manual} : queue[q] # <<>> /\ Hear(turn[c].scope, q)
  BY <1>1, <1>2, <1>4, HearMoves DEF Queues
<1> QED  BY <1>2, <1>3, <1>4, FallbackQueue DEF TurnStep, FirstPoll, Poll, LastPoll

LEMMA InitPlaces ==
    ASSUME LoopAssumption, Init
    PROVE  PlaceInv
<1>1. ToSet(<<>>) = {} /\ Once(<<>>)
  BY DEF ToSet, Once
<1>2. /\ inbound = <<>> /\ echoed = {} /\ dropped = {}
      /\ \A d \in Msgs : drain[d].held = None /\ drain[d].st = "none"
      /\ \A q \in Queues : queue[q] = <<>>
      /\ \A s \in Sessions : heard[s] = <<>>
  BY DEF Init, NoDrain, Queues
<1>3. \A p \in Places : At(p) = {}
  BY <1>1, <1>2, PlacesAre, AtPlaces
<1>4. Sent = {}
  BY DEF Init, Sent
<1>5. OnceOK /\ HandOK
  BY <1>1, <1>2 DEF OnceOK, HandOK
<1> QED  BY <1>3, <1>4, <1>5 DEF PlaceInv, Apart, Somewhere

LEMMA StepPlaces ==
    ASSUME LoopAssumption, IInv, PlaceInv, [Next]_vars
    PROVE  PlaceInv'
<1>1. CASE \E m \in Msgs : Steer(m) \/ \E s \in Chats \cup {System} : Arrive(m, s)
  BY <1>1, ArrivePlaces, SteerPlaces
<1>2. CASE OtherEnd \/ (\E s \in Sessions : OtherBegin(s)) \/ UNCHANGED vars
  BY <1>2, PlacesUndisturbed DEF OtherEnd, OtherBegin, vars
<1>3. CASE \E c \in Callers : TurnStep(c)
  BY <1>3, TurnPlaces
<1>4. CASE RunStep
  BY <1>4, TakePlaces, CyclePlaces DEF RunStep
<1>5. CASE \E d \in Msgs : DrainStep(d)
  <2> SUFFICES ASSUME NEW d \in Msgs, DrainStep(d) PROVE PlaceInv'
    BY <1>5
  <2>1. CASE DrainEnd(d)
    <3>1. \A e \in Msgs : /\ drain'[e].held = drain[e].held
                          /\ drain'[e].st # "holding" => drain[e].st # "holding"
                          /\ drain'[e].st # "none" => drain[e].st # "none"
      BY <2>1 DEF DrainEnd, IInv, DrainOK
    <3> QED  BY <2>1, <3>1, PlacesKept DEF DrainEnd, PlaceInv, HandOK
  <2> QED  BY <2>1, DrainReceivePlaces, DrainGivesPlaces DEF DrainStep
<1> QED  BY <1>1, <1>2, <1>3, <1>4, <1>5 DEF Next

\* The places of a message in sequences that hold it at most once.
LEMMA CountOnce ==
    ASSUME NEW s, Once(s), NEW m
    PROVE  Cardinality({i \in DOMAIN s : s[i] = m}) = IF m \in ToSet(s) THEN 1 ELSE 0
<1>1. CASE m \in ToSet(s)
  <2>1. PICK i \in DOMAIN s : s[i] = m
    BY <1>1 DEF ToSet
  <2>2. {j \in DOMAIN s : s[j] = m} = {i}
    BY <2>1 DEF Once
  <2> QED  BY <1>1, <2>2, FS_Singleton
<1>2. CASE m \notin ToSet(s)
  <2>1. {j \in DOMAIN s : s[j] = m} = {}
    BY <1>2 DEF ToSet
  <2> QED  BY <1>2, <2>1, FS_EmptySet
<1> QED  BY <1>1, <1>2

LEMMA CountSpots ==
    ASSUME NEW f, NEW m, \A q \in DOMAIN f : Once(f[q]),
           \A p, q \in DOMAIN f : m \in ToSet(f[p]) /\ m \in ToSet(f[q]) => p = q
    PROVE  Cardinality(Spots(f, m)) = IF \E q \in DOMAIN f : m \in ToSet(f[q]) THEN 1 ELSE 0
<1>1. CASE \E q \in DOMAIN f : m \in ToSet(f[q])
  <2>0. PICK q \in DOMAIN f : m \in ToSet(f[q])
    BY <1>1
  <2>1. PICK i \in DOMAIN f[q] : f[q][i] = m
    BY <2>0 DEF ToSet
  <2>2. ASSUME NEW x \in Spots(f, m) PROVE x = <<q, i>>
    <3>1. PICK p \in DOMAIN f : x \in {p} \X {j \in DOMAIN f[p] : f[p][j] = m}
      BY <2>2 DEF Spots
    <3>2. PICK j \in DOMAIN f[p] : f[p][j] = m /\ x = <<p, j>>
      BY <3>1
    <3>3. p = q
      BY <2>0, <3>2 DEF ToSet
    <3>4. i = j
      BY <2>1, <3>2, <3>3 DEF Once
    <3> QED  BY <3>2, <3>3, <3>4
  <2>3. <<q, i>> \in Spots(f, m)
    BY <2>1 DEF Spots
  <2>4. Spots(f, m) = {<<q, i>>}
    BY <2>2, <2>3
  <2> QED  BY <1>1, <2>4, FS_Singleton
<1>2. CASE ~\E q \in DOMAIN f : m \in ToSet(f[q])
  <2>1. Spots(f, m) = {}
    BY <1>2 DEF Spots, ToSet
  <2> QED  BY <1>2, <2>1, FS_EmptySet
<1> QED  BY <1>1, <1>2

\* Of the six kinds of places exactly one has the message.
LEMMA OneKind ==
    ASSUME LoopAssumption, IInv, PlaceInv, NEW m \in Msgs, m \in Sent
    PROVE  LET in == IF m \in ToSet(inbound) THEN 1 ELSE 0
               held == IF \E d \in Msgs : drain[d].held = m THEN 1 ELSE 0
               queued == IF \E q \in Queues : m \in ToSet(queue[q]) THEN 1 ELSE 0
               known == IF \E s \in Sessions : m \in ToSet(heard[s]) THEN 1 ELSE 0
               out == IF m \in echoed THEN 1 ELSE 0
               lost == IF m \in dropped THEN 1 ELSE 0
           IN in + held + queued + known + out + lost = 1
<1>1. /\ {<<"inbound", None>>, <<"echoed", None>>, <<"dropped", None>>} \subseteq Places
      /\ \A d \in Msgs : <<"held", d>> \in Places
      /\ \A q \in Queues : <<"queue", q>> \in Places
      /\ \A s \in Sessions : <<"heard", s>> \in Places
  BY DEF Places
<1>2. PICK p \in Places : m \in At(p) /\ \A r \in Places : m \in At(r) => r = p
  BY DEF PlaceInv, Somewhere, Apart
<1>3. m # None
  BY DEF LoopAssumption
<1>4. /\ m \in ToSet(inbound) <=> p = <<"inbound", None>>
      /\ (\E d \in Msgs : drain[d].held = m) <=> \E d \in Msgs : p = <<"held", d>>
      /\ (\E q \in Queues : m \in ToSet(queue[q])) <=> \E q \in Queues : p = <<"queue", q>>
      /\ (\E s \in Sessions : m \in ToSet(heard[s])) <=> \E s \in Sessions : p = <<"heard", s>>
      /\ m \in echoed <=> p = <<"echoed", None>>
      /\ m \in dropped <=> p = <<"dropped", None>>
  <2>1. /\ m \in ToSet(inbound) <=> p = <<"inbound", None>>
        /\ m \in echoed <=> p = <<"echoed", None>>
        /\ m \in dropped <=> p = <<"dropped", None>>
    BY <1>1, <1>2, AtPlaces
  <2>2. \A d \in Msgs : drain[d].held = m <=> p = <<"held", d>>
    BY <1>1, <1>2, <1>3, AtPlaces
  <2>3. \A q \in Queues : m \in ToSet(queue[q]) <=> p = <<"queue", q>>
    <3> SUFFICES ASSUME NEW q \in Queues
                 PROVE  m \in ToSet(queue[q]) <=> p = <<"queue", q>>
      OBVIOUS
    <3>1. At(<<"queue", q>>) = ToSet(queue[q]) /\ <<"queue", q>> \in Places
      BY <1>1, AtPlaces
    <3> QED  BY <1>2, <3>1
  <2>4. \A s \in Sessions : m \in ToSet(heard[s]) <=> p = <<"heard", s>>
    <3> SUFFICES ASSUME NEW s \in Sessions
                 PROVE  m \in ToSet(heard[s]) <=> p = <<"heard", s>>
      OBVIOUS
    <3>1. At(<<"heard", s>>) = ToSet(heard[s]) /\ <<"heard", s>> \in Places
      BY <1>1, AtPlaces
    <3> QED  BY <1>2, <3>1
  <2> QED  BY <2>1, <2>2, <2>3, <2>4
<1>5. CASE p \in {<<"inbound", None>>, <<"echoed", None>>, <<"dropped", None>>}
  BY <1>4, <1>5
<1>6. CASE \E d \in Msgs : p = <<"held", d>>
  BY <1>4, <1>6
<1>7. CASE \E q \in Queues : p = <<"queue", q>>
  BY <1>4, <1>7
<1>8. CASE \E s \in Sessions : p = <<"heard", s>>
  BY <1>4, <1>8
<1> QED  BY <1>5, <1>6, <1>7, <1>8, PlacesAre

-------------------------------------------------------------------------------
(* The theorems *)

\* The messages a queue, a session, a drain and Run hold are those of its own
\* chat, in every reachable state.
THEOREM LoopInvariant == Spec => []IInv
<1>1. Init => IInv
  BY LoopAssumption, InitIInv
<1>2. IInv /\ [Next]_vars => IInv'
  BY LoopAssumption, StepIInv
<1> QED  BY <1>1, <1>2, PTL DEF Spec

\* In every reachable state each message that was sent is in exactly one place.
THEOREM LoopPlaces == Spec => []PlaceInv
<1>1. Init => PlaceInv
  BY LoopAssumption, InitPlaces
<1>2. IInv /\ PlaceInv /\ [Next]_vars => PlaceInv'
  BY LoopAssumption, StepPlaces
<1> QED  BY <1>1, <1>2, LoopInvariant, PTL DEF Spec

\* Every variable keeps its type: the queues their limit, Run its place.
THEOREM LoopTypeOK == Spec => []TypeOK
<1>1. IInv => TypeOK
  BY DEF IInv, QueueOK, HeardOK, TurnOK, DrainOK, RunOK, BusOK, TypeOK, Queues
<1> QED  BY <1>1, LoopInvariant, PTL

\* No session ever hears a message of another chat, for any number of chats,
\* messages and concurrent drains (drainBusToSteering, loop.go:646-656).
THEOREM LoopIsolatesScopes == Spec => []ScopeIsolation
<1>1. IInv => ScopeIsolation
  <2> SUFFICES ASSUME IInv, NEW s \in Sessions, NEW i \in DOMAIN heard[s],
                      to[heard[s][i]] \in Chats
               PROVE  to[heard[s][i]] = s
    BY DEF ScopeIsolation
  <2>1. heard[s] \in Seq(Place(s))
    BY DEF IInv, HeardOK
  <2>2. heard[s][i] \in Place(s)
    BY <2>1
  <2> QED  BY <2>2 DEF Place
<1> QED  BY <1>1, LoopInvariant, PTL

\* No message is lost silently or handled twice, for any number of sessions,
\* messages, concurrent drains and turns (loop.go:482, 616-681,
\* steering.go:90-135).
THEOREM LoopLosesNothing == Spec => []ExactlyOnePlace
<1>1. IInv /\ PlaceInv => ExactlyOnePlace
  <2> SUFFICES ASSUME IInv, PlaceInv, NEW m \in Msgs, to[m] # None
               PROVE  Cardinality({i \in DOMAIN inbound : inbound[i] = m})
                      + Cardinality({d \in Msgs : drain[d].held = m})
                      + Cardinality(Spots(queue, m)) + Cardinality(Spots(heard, m))
                      + Cardinality({m} \cap echoed)
                      + Cardinality({m} \cap dropped) = 1
    BY DEF ExactlyOnePlace
  <2>1. Cardinality({i \in DOMAIN inbound : inbound[i] = m})
            = IF m \in ToSet(inbound) THEN 1 ELSE 0
    BY CountOnce DEF PlaceInv, OnceOK
  <2>2. Cardinality({d \in Msgs : drain[d].held = m})
            = IF \E d \in Msgs : drain[d].held = m THEN 1 ELSE 0
    <3>1. \A d, e \in Msgs : drain[d].held = m /\ drain[e].held = m => d = e
      <4> SUFFICES ASSUME NEW d \in Msgs, NEW e \in Msgs, drain[d].held = m, drain[e].held = m
                   PROVE  d = e
        OBVIOUS
      <4>1. m # None
        BY LoopAssumption DEF LoopAssumption
      <4>2. <<"held", d>> \in Places /\ <<"held", e>> \in Places
        BY DEF Places
      <4>3. <<"held", d>> = <<"held", e>>
        BY <4>1, <4>2, AtPlaces DEF PlaceInv, Apart
      <4> QED  BY <4>3
    <3>2. CASE \E d \in Msgs : drain[d].held = m
      <4>1. PICK d \in Msgs : {e \in Msgs : drain[e].held = m} = {d}
        BY <3>1, <3>2
      <4> QED  BY <3>2, <4>1, FS_Singleton
    <3>3. CASE ~\E d \in Msgs : drain[d].held = m
      <4>1. {e \in Msgs : drain[e].held = m} = {}
        BY <3>3
      <4> QED  BY <3>3, <4>1, FS_EmptySet
    <3> QED  BY <3>2, <3>3
  <2>3. Cardinality(Spots(queue, m)) = IF \E q \in Queues : m \in ToSet(queue[q]) THEN 1 ELSE 0
    <3>1. DOMAIN queue = Queues /\ \A q \in Queues : <<"queue", q>> \in Places
      BY DEF IInv, QueueOK, Places
    <3>2. \A q \in Queues : At(<<"queue", q>>) = ToSet(queue[q])
      BY AtPlaces
    <3>3. \A p, q \in Queues : m \in ToSet(queue[p]) /\ m \in ToSet(queue[q]) => p = q
      <4> SUFFICES ASSUME NEW p \in Queues, NEW q \in Queues,
                          m \in ToSet(queue[p]), m \in ToSet(queue[q])
                   PROVE  p = q
        OBVIOUS
      <4>1. <<"queue", p>> = <<"queue", q>>
        BY <3>1, <3>2 DEF PlaceInv, Apart
      <4> QED  BY <4>1
    <3> QED  BY <3>1, <3>3, CountSpots DEF PlaceInv, OnceOK
  <2>4. Cardinality(Spots(heard, m)) = IF \E s \in Sessions : m \in ToSet(heard[s]) THEN 1 ELSE 0
    <3>1. DOMAIN heard = Sessions /\ \A s \in Sessions : <<"heard", s>> \in Places
      BY DEF IInv, HeardOK, Places
    <3>2. \A s \in Sessions : At(<<"heard", s>>) = ToSet(heard[s])
      BY AtPlaces
    <3>3. \A s, t \in Sessions : m \in ToSet(heard[s]) /\ m \in ToSet(heard[t]) => s = t
      <4> SUFFICES ASSUME NEW s \in Sessions, NEW t \in Sessions,
                          m \in ToSet(heard[s]), m \in ToSet(heard[t])
                   PROVE  s = t
        OBVIOUS
      <4>1. <<"heard", s>> = <<"heard", t>>
        BY <3>1, <3>2 DEF PlaceInv, Apart
      <4> QED  BY <4>1
    <3> QED  BY <3>1, <3>3, CountSpots DEF PlaceInv, OnceOK
  <2>5. ASSUME NEW S
        PROVE  Cardinality({m} \cap S) = IF m \in S THEN 1 ELSE 0
    <3>1. {m} \cap S = IF m \in S THEN {m} ELSE {}
      OBVIOUS
    <3> QED  BY <3>1, FS_Singleton, FS_EmptySet
  <2>6. /\ Cardinality({m} \cap echoed) = IF m \in echoed THEN 1 ELSE 0
        /\ Cardinality({m} \cap dropped) = IF m \in dropped THEN 1 ELSE 0
    BY <2>5
  <2>7. m \in Sent
    BY DEF Sent
  <2> QED  BY <2>1, <2>2, <2>3, <2>4, <2>6, <2>7, LoopAssumption, OneKind
<1> QED  BY <1>1, LoopInvariant, LoopPlaces, PTL

-------------------------------------------------------------------------------
(* Where a cycle is, and what is still queued *)

\* A turn of another caller has been seen; Run's own turn is in progress just
\* while Run waits for it.
RunTurnOK ==
    /\ turn["run"] # NoTurn <=> run \in {"process", "resume"}
    /\ active \subseteq {turn[c].scope : c \in {k \in Callers : turn[k] # NoTurn}}
    /\ run # "select" /\ turn["other"] # NoTurn => interfered

\* Which of the two continuation loops: the first with the drain of this
\* cycle, the second without it.
PhaseOK ==
    /\ run \in {"select", "process", "cancel"} => ~second
    /\ run = "publish" => second
    /\ run \in {"select", "process"} => ~final
    /\ \A d \in Msgs : drain[d].st # "none" /\ ~drain[d].cancelled
                         => cur = d /\ run # "select" /\ ~second

\* A message in its chat's queue is one that Run will still look for.
QueuedOK ==
    \A c \in Chats : \A m \in ToSet(queue[c]) :
        to[m] = c /\ m \notin late \cup left
          => cur \in Msgs /\ to[cur] = c /\ run \notin {"select", "publish"}

\* Run found something queued, and only another caller's turn can take it.
FoundOK == run \in {"continue", "dequeue"} /\ ~interfered => queue[to[cur]] # <<>>

CycleInv == RunTurnOK /\ PhaseOK /\ QueuedOK /\ FoundOK

-------------------------------------------------------------------------------
\* x is at an earlier place of s than m.
Ahead(s, x, m) == \E i, j \in DOMAIN s : i < j /\ s[i] = x /\ s[j] = m

\* A drain that has not been cancelled holds m.
InHand(m) == \E d \in Msgs : drain[d].st = "holding" /\ drain[d].held = m
                             /\ ~drain[d].cancelled

\* What is still on the bus has arrived last.
ArrivedOK ==
    /\ arrived \in Seq(Sent) /\ Once(arrived)
    /\ \A m \in ToSet(inbound) : \A x \in Msgs :
          Ahead(arrived, m, x) => Ahead(inbound, m, x)

\* m arrived before x in the same chat, and neither is excused.
InTurn(c, m, x) ==
    /\ to[m] = c /\ to[x] = c /\ Ahead(arrived, m, x)
    /\ m \notin late \cup left /\ x \notin late
OrderOK ==
    \A c \in Chats : \A m, x \in Msgs : InTurn(c, m, x) =>
        /\ ~Ahead(heard[c], x, m)
        /\ ~Ahead(queue[c], x, m)
        /\ x \in ToSet(heard[c]) => m \notin ToSet(queue[c])
        /\ x \in ToSet(heard[c]) \cup ToSet(queue[c]) => ~InHand(m)
OrderInv == ArrivedOK /\ OrderOK

-------------------------------------------------------------------------------
LEMMA PushGrows ==
    ASSUME QueueOK, NEW q \in Queues, NEW m \in Msgs, Push(q, m)
    PROVE  /\ \A r \in Queues : ToSet(queue'[r]) \subseteq ToSet(queue[r]) \cup {m}
           /\ \A r \in Queues \ {q} : queue'[r] = queue[r]
           /\ \A r \in Queues : queue[r] # <<>> => queue'[r] # <<>>
<1>1. queue \in [Queues -> Seq(Msgs)]
  BY DEF QueueOK
<1>2. CASE Len(queue[q]) < MaxQueueSize
  <2>1. queue' = [queue EXCEPT ![q] = Append(queue[q], m)]
    BY <1>2 DEF Push
  <2>2. queue'[q] = Append(queue[q], m) /\ \A r \in Queues \ {q} : queue'[r] = queue[r]
    BY <1>1, <2>1
  <2>3. queue[q] \in Seq(Msgs)
    BY <1>1
  <2>4. ToSet(Append(queue[q], m)) = ToSet(queue[q]) \cup {m}
    BY <2>3, OnceAppend
  <2>5. Append(queue[q], m) # <<>>
    BY <2>3
  <2> QED  BY <2>2, <2>4, <2>5
<1>3. CASE ~(Len(queue[q]) < MaxQueueSize)
  BY <1>3 DEF Push
<1> QED  BY <1>2, <1>3

LEMMA HearShrinks ==
    ASSUME IInv, PlaceInv, NEW s \in Sessions, NEW q \in Queues, queue[q] # <<>>, Hear(s, q)
    PROVE  /\ \A r \in Queues : ToSet(queue'[r]) \subseteq ToSet(queue[r])
           /\ \A r \in Queues \ {q} : queue'[r] = queue[r]
<1> DEFINE rest == SubSeq(queue[q], Batch(q) + 1, Len(queue[q]))
<1>1. queue \in [Queues -> Seq(Msgs)] /\ queue[q] \in Seq(Msgs) /\ Once(queue[q])
  BY DEF IInv, QueueOK, PlaceInv, OnceOK
<1>2. Batch(q) \in 1..Len(queue[q])
  BY <1>1 DEF Batch
<1>3. ToSet(rest) \subseteq ToSet(queue[q])
  BY <1>1, <1>2, OnceSplit
<1>4. queue' = [queue EXCEPT ![q] = rest]
  BY DEF Hear
<1> HIDE DEF rest
<1> QED  BY <1>1, <1>3, <1>4

\* What is queued or heard has been sent.
LEMMA QueuedSent ==
    ASSUME IInv
    PROVE  /\ \A q \in Queues : ToSet(queue[q]) \subseteq Sent
           /\ \A s \in Sessions : ToSet(heard[s]) \subseteq Sent
<1>1. \A q : Place(q) \subseteq Sent
  BY DEF Place
<1>2. ASSUME NEW q \in Queues PROVE ToSet(queue[q]) \subseteq Place(q)
  BY ToSetTyped DEF IInv, QueueOK
<1>3. ASSUME NEW s \in Sessions PROVE ToSet(heard[s]) \subseteq Place(s)
  BY ToSetTyped DEF IInv, HeardOK
<1> QED  BY <1>1, <1>2, <1>3

LEMMA ChatQueues ==
    Chats \subseteq Sessions /\ Chats \subseteq Queues /\ Sessions \subseteq Queues
    /\ "run" \in Callers /\ "other" \in Callers
  BY DEF Sessions, Queues, Callers

-------------------------------------------------------------------------------
(* CycleInv *)

LEMMA InitCycle ==
    ASSUME Init
    PROVE  CycleInv
<1>1. RunTurnOK /\ PhaseOK
  BY DEF Init, RunTurnOK, PhaseOK, NoDrain, Callers
<1>2. \A c \in Chats : ToSet(queue[c]) = {}
  BY ChatQueues DEF Init, ToSet, Queues
<1>3. QueuedOK /\ FoundOK
  BY <1>2 DEF Init, QueuedOK, FoundOK
<1> QED  BY <1>1, <1>3 DEF CycleInv

\* A user sends m, and it may go to one queue.
LEMMA SendCycle ==
    ASSUME LoopAssumption, IInv, CycleInv, ToGrows, NEW m \in Msgs, to[m] = None,
           UNCHANGED <<run, second, cur, final, drain, turn, active, interfered, late, left>>,
           \A r \in Queues : ToSet(queue'[r]) \subseteq ToSet(queue[r])
                             \/ (to'[m] = Manual /\ ToSet(queue'[r]) \subseteq ToSet(queue[r]) \cup {m}),
           \A r \in Queues : queue[r] # <<>> => queue'[r] # <<>>
    PROVE  CycleInv'
<1>1. RunTurnOK' /\ PhaseOK'
  BY DEF CycleInv, RunTurnOK, PhaseOK
<1>2. run # "select" => cur \in Msgs /\ to'[cur] = to[cur]
  BY DEF IInv, RunOK, ToGrows, LoopAssumption, Sessions
<1>3. Manual \notin Chats
  BY ManualNotChat
<1>4. QueuedOK'
  <2> SUFFICES ASSUME NEW c \in Chats, NEW n \in ToSet(queue'[c]), to'[n] = c,
                      n \notin late \cup left
               PROVE  cur \in Msgs /\ to'[cur] = c /\ run \notin {"select", "publish"}
    BY DEF QueuedOK
  <2>1. n \in ToSet(queue[c])
    BY <1>3, ChatQueues
  <2>2. n \in Msgs /\ to[n] # None
    BY <2>1, QueuedSent, ChatQueues DEF Sent
  <2>3. to[n] = c
    BY <2>2 DEF ToGrows
  <2> QED  BY <1>2, <2>1, <2>3 DEF CycleInv, QueuedOK
<1>5. FoundOK'
  <2>1. ASSUME run \in {"continue", "dequeue"}, ~interfered PROVE queue'[to'[cur]] # <<>>
    <3>1. to[cur] \in Queues
      BY <2>1, ChatQueues DEF IInv, RunOK
    <3> QED  BY <1>2, <2>1, <3>1 DEF CycleInv, FoundOK
  <2> QED  BY <2>1 DEF FoundOK
<1> QED  BY <1>1, <1>4, <1>5 DEF CycleInv

LEMMA UserCycle ==
    ASSUME LoopAssumption, IInv, CycleInv, NEW m \in Msgs,
           Steer(m) \/ \E s \in Chats \cup {System} : Arrive(m, s)
    PROVE  CycleInv'
<1>1. CASE Steer(m)
  <2>1. ToGrows
    BY <1>1, SendingGrows DEF Steer, IInv
  <2>2. PICK q \in Queues : Push(q, m)
    BY <1>1 DEF Steer, IInv, TurnOK, Queues
  <2>3. to'[m] = Manual
    BY <1>1 DEF Steer, IInv, BusOK
  <2> QED  BY <1>1, <2>1, <2>2, <2>3, PushGrows, SendCycle
           DEF Steer, runVars, histVars, IInv
<1>2. ASSUME NEW s \in Chats \cup {System}, Arrive(m, s) PROVE CycleInv'
  <2>1. ToGrows
    BY <1>2, SendingGrows DEF Arrive, IInv
  <2> QED  BY <1>2, <2>1, SendCycle DEF Arrive, runVars, histVars
<1> QED  BY <1>1, <1>2

\* A turn of another caller begins or ends.
LEMMA OtherCycle ==
    ASSUME LoopAssumption, IInv, CycleInv, OtherEnd \/ \E s \in Sessions : OtherBegin(s)
    PROVE  CycleInv'
<1>1. UNCHANGED <<to, run, second, cur, final, drain, queue, late, left>>
  BY DEF OtherEnd, OtherBegin, runVars, histVars
<1>2. interfered => interfered'
  BY DEF OtherEnd, OtherBegin
<1>3. turn'["run"] = turn["run"]
  BY DEF OtherEnd, OtherBegin, Begin, End, IInv, TurnOK, Callers
<1>4. RunTurnOK'
  <2>1. CASE OtherEnd
    <3>1. turn'["other"] = NoTurn /\ active' = active \ {turn["other"].scope}
      BY <2>1 DEF OtherEnd, End, IInv, TurnOK, Callers
    <3> QED  BY <1>1, <1>3, <2>1, <3>1 DEF CycleInv, RunTurnOK, Callers, OtherEnd
  <2>2. ASSUME NEW s \in Sessions, OtherBegin(s) PROVE RunTurnOK'
    <3>1. /\ turn'["other"] = [scope |-> s, phase |-> "first"]
          /\ turn["other"] = NoTurn
          /\ active' = active \cup {s} /\ interfered'
      BY <2>2 DEF OtherBegin, Begin, IInv, TurnOK, Callers
    <3>2. turn'["other"] # NoTurn
      BY <3>1 DEF NoTurn
    <3> QED  BY <1>1, <1>3, <3>1, <3>2 DEF CycleInv, RunTurnOK, Callers
  <2> QED  BY <2>1, <2>2
<1>5. PhaseOK' /\ QueuedOK'
  BY <1>1 DEF CycleInv, PhaseOK, QueuedOK
<1>6. FoundOK'
  BY <1>1, <1>2 DEF CycleInv, FoundOK
<1> QED  BY <1>4, <1>5, <1>6 DEF CycleInv

\* A turn polls.
LEMMA TurnCycle ==
    ASSUME LoopAssumption, IInv, PlaceInv, CycleInv, NEW c \in Callers, TurnStep(c)
    PROVE  CycleInv'
<1>1. UNCHANGED <<to, run, second, cur, final, drain, active, interfered, late, left>>
  BY DEF TurnStep, FirstPoll, Poll, LastPoll, runVars, histVars
<1>2. turn[c].phase # "none" /\ turn[c] # NoTurn /\ turn[c].scope \in Sessions
  BY DEF TurnStep, FirstPoll, Poll, LastPoll, IInv, TurnOK, NoTurn
<1>3. /\ turn'[c].scope = turn[c].scope /\ turn'[c] # NoTurn
      /\ \A k \in Callers \ {c} : turn'[k] = turn[k]
  BY <1>2 DEF TurnStep, FirstPoll, Poll, LastPoll, IInv, TurnOK, NoTurn
<1>4. RunTurnOK'
  BY <1>1, <1>2, <1>3 DEF CycleInv, RunTurnOK, Callers
<1>5. PhaseOK'
  BY <1>1 DEF CycleInv, PhaseOK
<1>6. \A r \in Queues : ToSet(queue'[r]) \subseteq ToSet(queue[r])
  <2>1. CASE UNCHANGED queue
    BY <2>1
  <2>2. CASE \E q \in {turn[c].scope, Manual} : queue[q] # <<>> /\ Hear(turn[c].scope, q)
    BY <1>2, <2>2, HearShrinks, ChatQueues DEF Queues
  <2> QED  BY <1>2, <2>1, <2>2, FallbackQueue DEF TurnStep, FirstPoll, Poll, LastPoll
<1>7. QueuedOK'
  BY <1>1, <1>6, ChatQueues DEF CycleInv, QueuedOK
<1>8. FoundOK'
  <2>1. CASE c = "run"
    BY <1>1, <1>2, <2>1 DEF CycleInv, RunTurnOK, FoundOK
  <2>2. CASE c = "other"
    BY <1>1, <1>2, <2>2 DEF CycleInv, RunTurnOK, FoundOK
  <2> QED  BY <2>1, <2>2 DEF Callers
<1> QED  BY <1>4, <1>5, <1>7, <1>8 DEF CycleInv

\* A drain takes a step: what it enqueues is late, or Run will look for it.
LEMMA DrainCycle ==
    ASSUME LoopAssumption, IInv, CycleInv, NEW d \in Msgs, DrainStep(d)
    PROVE  CycleInv'
<1>1. UNCHANGED <<to, run, second, cur, final, turn, active, interfered, left>>
  BY DEF DrainStep, DrainReceive, DrainEnd, DrainSteer, DrainRequeue, runVars, histVars
<1>2. /\ \A e \in Msgs : drain'[e].cancelled = drain[e].cancelled
      /\ \A e \in Msgs : drain'[e].st # "none" => drain[e].st # "none"
  BY DEF DrainStep, DrainReceive, DrainEnd, DrainSteer, DrainRequeue, IInv, DrainOK
<1>3. RunTurnOK' /\ PhaseOK'
  BY <1>1, <1>2 DEF CycleInv, RunTurnOK, PhaseOK
<1>4. CASE UNCHANGED <<queue, late>>
  BY <1>1, <1>3, <1>4 DEF CycleInv, QueuedOK, FoundOK
<1>5. CASE DrainSteer(d)
  <2> DEFINE m == drain[d].held
  <2>1. m \in Msgs /\ to[d] \in Chats /\ to[m] = to[d] /\ Push(to[d], m)
    BY <1>5 DEF DrainSteer, IInv, DrainOK, Sent
  <2>2. /\ \A r \in Queues : ToSet(queue'[r]) \subseteq ToSet(queue[r]) \cup {m}
        /\ \A r \in Queues : queue[r] # <<>> => queue'[r] # <<>>
    BY <2>1, PushGrows, ChatQueues DEF IInv
  <2>3. m \in late' \/ (cur = d /\ run # "select" /\ ~second)
    BY <1>5 DEF DrainSteer, CycleInv, PhaseOK
  <2>4. late \subseteq late'
    BY <1>5 DEF DrainSteer
  <2>5. QueuedOK'
    <3> SUFFICES ASSUME NEW c \in Chats, NEW n \in ToSet(queue'[c]), to[n] = c,
                        n \notin late' \cup left
                 PROVE  cur \in Msgs /\ to[cur] = c /\ run \notin {"select", "publish"}
      BY <1>1 DEF QueuedOK
    <3>1. CASE n \in ToSet(queue[c])
      BY <2>4, <3>1 DEF CycleInv, QueuedOK
    <3>2. CASE n = m
      BY <2>1, <2>3, <3>2 DEF CycleInv, PhaseOK
    <3> QED  BY <2>2, <3>1, <3>2, ChatQueues
  <2>6. FoundOK'
    <3>1. run \in {"continue", "dequeue"} => to[cur] \in Queues
      BY ChatQueues DEF IInv, RunOK
    <3> QED  BY <1>1, <2>2, <3>1 DEF CycleInv, FoundOK
  <2> QED  BY <1>3, <2>5, <2>6 DEF CycleInv
<1> QED  BY <1>4, <1>5 DEF DrainStep, DrainReceive, DrainEnd, DrainRequeue, histVars

\* Run's turn begins or ends.
LEMMA RunBegins ==
    ASSUME IInv, CycleInv, NEW s \in Sessions, NEW phase \in {"first", "body"},
           Begin("run", s, phase), run \notin {"process", "resume"},
           run' \in {"process", "resume"},
           turn["other"] # NoTurn => interfered'
    PROVE  RunTurnOK'
<1>1. /\ turn'["run"] = [scope |-> s, phase |-> phase] /\ turn'["other"] = turn["other"]
      /\ active' = active \cup {s}
  BY DEF Begin, IInv, TurnOK, Callers
<1>2. turn'["run"] # NoTurn
  BY <1>1 DEF NoTurn
<1> QED  BY <1>1, <1>2 DEF CycleInv, RunTurnOK, Callers

LEMMA RunEnds ==
    ASSUME IInv, CycleInv, End("run"), run' \notin {"process", "resume"},
           run # "select", UNCHANGED interfered
    PROVE  RunTurnOK'
<1>1. /\ turn'["run"] = NoTurn /\ turn'["other"] = turn["other"]
      /\ active' = active \ {turn["run"].scope}
  BY DEF End, IInv, TurnOK, Callers
<1> QED  BY <1>1 DEF CycleInv, RunTurnOK, Callers

\* The drains are cancelled, and what is queued is left: the cycle may end.
LEMMA GiveUpCycle ==
    ASSUME IInv, CycleInv, cur \in Msgs, to[cur] \in Chats, run # "select",
           UNCHANGED <<to, queue, late>>, GiveUp
    PROVE  PhaseOK' /\ QueuedOK' /\ FoundOK'
<1>1. /\ run' = "select" /\ second' = FALSE /\ final' = FALSE
      /\ drain' = [drain EXCEPT ![cur].cancelled = TRUE]
      /\ left' = left \cup ToSet(queue[to[cur]])
  BY DEF GiveUp, Return, CancelDrain
<1>2. \A d \in Msgs : drain'[d].st = drain[d].st
                      /\ (drain'[d].cancelled <=> (drain[d].cancelled \/ d = cur))
  BY <1>1 DEF IInv, DrainOK
<1>3. PhaseOK'
  BY <1>1, <1>2 DEF CycleInv, PhaseOK
<1>4. QueuedOK'
  BY <1>1 DEF CycleInv, QueuedOK
<1>5. FoundOK'
  BY <1>1 DEF FoundOK
<1> QED  BY <1>3, <1>4, <1>5

LEMMA TakeCycle ==
    ASSUME LoopAssumption, IInv, CycleInv, Take \/ TakeSystem
    PROVE  CycleInv'
<1> DEFINE m == Head(inbound)
<1>1. /\ run = "select" /\ m \in Msgs /\ to[m] \in Chats \cup {System}
      /\ UNCHANGED <<to, queue, second, late, left>> /\ MainSession \in Sessions
      /\ Chats \subseteq Sessions
  BY TailTyped DEF Take, TakeSystem, IInv, BusOK, histVars, LoopAssumption, Sessions
<1>2. turn["run"] = NoTurn /\ ~second /\ ~final
  BY <1>1 DEF CycleInv, RunTurnOK, PhaseOK
<1>3. QueuedOK'
  BY <1>1 DEF CycleInv, QueuedOK
<1>4. CASE Take
  <2>1. RunTurnOK'
    <3>1. CASE Begin("run", to[m], "first") /\ run' = "process"
      <4>1. to[m] \in Sessions /\ (turn["other"] # NoTurn => interfered')
        BY <1>1, <1>4 DEF Take
      <4> QED  BY <1>1, <3>1, <4>1, RunBegins
    <3>2. CASE UNCHANGED <<turn, active>> /\ run' = "check"
      BY <1>2, <1>4, <3>2 DEF Take, CycleInv, RunTurnOK
    <3> QED  BY <1>4, <3>1, <3>2 DEF Take
  <2>2. run' \in {"process", "check"} /\ cur' = m /\ (run' = "process" => ~final')
    BY <1>2, <1>4 DEF Take
  <2>3. \A d \in Msgs \ {m} : drain'[d] = drain[d]
    BY <1>4 DEF Take, IInv, DrainOK
  <2>4. PhaseOK'
    BY <1>1, <1>2, <2>2, <2>3 DEF CycleInv, PhaseOK
  <2>5. FoundOK'
    BY <2>2 DEF FoundOK
  <2> QED  BY <1>3, <2>1, <2>4, <2>5 DEF CycleInv
<1>5. CASE TakeSystem
  <2>1. CASE Begin("run", MainSession, "first") /\ run' = "process"
             /\ interfered' = (turn["other"] # NoTurn)
    <3>1. RunTurnOK'
      BY <1>1, <2>1, RunBegins
    <3>2. PhaseOK' /\ FoundOK'
      BY <1>1, <1>2, <1>5, <2>1 DEF TakeSystem, CycleInv, PhaseOK, FoundOK
    <3> QED  BY <1>3, <3>1, <3>2 DEF CycleInv
  <2>2. CASE UNCHANGED <<turn, active, run, cur, interfered>>
    <3>1. RunTurnOK' /\ PhaseOK' /\ FoundOK'
      BY <1>1, <1>2, <1>5, <2>2 DEF TakeSystem, CycleInv, RunTurnOK, PhaseOK, FoundOK
    <3> QED  BY <1>3, <3>1 DEF CycleInv
  <2> QED  BY <1>5, <2>1, <2>2 DEF TakeSystem
<1> QED  BY <1>4, <1>5

LEMMA EndTurnCycle ==
    ASSUME LoopAssumption, IInv, CycleInv, EndTurn
    PROVE  CycleInv'
<1>1. /\ run = "process" /\ cur \in Msgs /\ to[cur] \in Chats \cup {System}
      /\ UNCHANGED <<to, queue, drain, late, left, interfered>> /\ System \notin Chats
  BY DEF EndTurn, IInv, RunOK, histVars, LoopAssumption, Sessions
<1>2. \/ to[cur] = System /\ run' = "select" /\ ~second' /\ ~final'
      \/ to[cur] \in Chats /\ run' = "check" /\ UNCHANGED <<second, cur>>
  BY <1>1 DEF EndTurn, Return
<1>3. RunTurnOK'
  BY <1>1, <1>2, RunEnds DEF EndTurn
<1>4. PhaseOK'
  <2>1. \A d \in Msgs : drain[d].st # "none" => to[d] \in Chats
    BY DEF IInv, DrainOK
  <2> QED  BY <1>1, <1>2, <2>1 DEF CycleInv, PhaseOK
<1>5. QueuedOK' /\ FoundOK'
  BY <1>1, <1>2 DEF CycleInv, QueuedOK, FoundOK
<1> QED  BY <1>3, <1>4, <1>5 DEF CycleInv

\* A step of Run between its turns.
LEMMA BetweenTurns ==
    ASSUME CycleInv, UNCHANGED <<turn, active, interfered>>,
           run \notin {"process", "resume", "select"}, run' \notin {"process", "resume"}
    PROVE  RunTurnOK'
  BY DEF CycleInv, RunTurnOK

LEMMA CheckCycle ==
    ASSUME LoopAssumption, IInv, CycleInv, Check \/ Cancel \/ Publish
    PROVE  CycleInv'
<1>1. /\ UNCHANGED <<to, queue, late, left, turn, active, interfered>>
      /\ run \in {"check", "cancel", "publish"} /\ cur \in Msgs /\ to[cur] \in Chats
  BY DEF Check, Cancel, Publish, histVars, IInv, RunOK
<1>2. RunTurnOK'
  BY <1>1, BetweenTurns DEF Check, Cancel, Publish, Return
<1>3. CASE Check
  <2>1. /\ UNCHANGED <<second, cur, final, drain>>
        /\ \/ run' = "continue" /\ queue[to[cur]] # <<>>
           \/ run' = "publish" /\ queue[to[cur]] = <<>> /\ second
           \/ run' = "cancel" /\ ~second
    BY <1>3 DEF Check
  <2>2. queue[to[cur]] = <<>> => ToSet(queue[to[cur]]) = {}
    BY DEF ToSet
  <2>3. PhaseOK'
    BY <1>1, <2>1 DEF CycleInv, PhaseOK
  <2>4. QueuedOK'
    BY <1>1, <2>1, <2>2 DEF CycleInv, QueuedOK
  <2>5. FoundOK'
    BY <1>1, <2>1 DEF FoundOK
  <2> QED  BY <1>2, <2>3, <2>4, <2>5 DEF CycleInv
<1>4. CASE Cancel
  <2>1. \A d \in Msgs : /\ drain'[d].st = drain[d].st
                        /\ drain'[d].cancelled <=> (drain[d].cancelled \/ d = cur)
    BY <1>1, <1>4 DEF Cancel, CancelDrain, IInv, DrainOK
  <2>2. PhaseOK' /\ QueuedOK' /\ FoundOK'
    BY <1>1, <1>4, <2>1 DEF Cancel, CycleInv, PhaseOK, QueuedOK, FoundOK
  <2> QED  BY <1>2, <2>2 DEF CycleInv
<1>5. CASE Publish
  <2>1. PhaseOK' /\ QueuedOK' /\ FoundOK'
    BY <1>1, <1>5 DEF Publish, Return, CycleInv, PhaseOK, QueuedOK, FoundOK
  <2> QED  BY <1>2, <2>1 DEF CycleInv
<1> QED  BY <1>3, <1>4, <1>5

LEMMA ContinueCycle ==
    ASSUME LoopAssumption, IInv, CycleInv, Continue
    PROVE  CycleInv'
<1>1. /\ UNCHANGED <<to, queue, late, turn, active, interfered>>
      /\ run = "continue" /\ cur \in Msgs /\ to[cur] \in Chats
      /\ run' \in {"dequeue", "select"}
  BY DEF Continue, IInv, RunOK, GiveUp, Return
<1>2. RunTurnOK'
  BY <1>1, BetweenTurns
<1>3. CASE GiveUp
  BY <1>1, <1>2, <1>3, GiveUpCycle DEF CycleInv
<1>4. CASE run' = "dequeue" /\ UNCHANGED <<second, cur, final, drain, left>>
  BY <1>1, <1>2, <1>4 DEF CycleInv, PhaseOK, QueuedOK, FoundOK
<1> QED  BY <1>3, <1>4 DEF Continue

LEMMA DequeueCycle ==
    ASSUME LoopAssumption, IInv, PlaceInv, CycleInv, Dequeue
    PROVE  CycleInv'
<1> DEFINE s == to[cur]
           q == Fallback(s)
<1>1. /\ UNCHANGED <<to, late, interfered>>
      /\ run = "dequeue" /\ cur \in Msgs /\ s \in Chats /\ s \in Sessions /\ q \in Queues
  BY FallbackQueue DEF Dequeue, IInv, RunOK, Sessions, Queues
<1>2. CASE queue[q] # <<>>
  <2>1. /\ Hear(s, q) /\ Begin("run", s, "body") /\ run' = "resume"
        /\ UNCHANGED <<second, cur, final, drain, left>>
    BY <1>2 DEF Dequeue
  <2>2. \A r \in Queues : ToSet(queue'[r]) \subseteq ToSet(queue[r])
    BY <1>1, <1>2, <2>1, HearShrinks
  <2>3. RunTurnOK'
    BY <1>1, <2>1, RunBegins DEF CycleInv, RunTurnOK
  <2>4. PhaseOK' /\ FoundOK'
    BY <1>1, <2>1 DEF CycleInv, PhaseOK, FoundOK
  <2>5. QueuedOK'
    BY <1>1, <2>1, <2>2, ChatQueues DEF CycleInv, QueuedOK
  <2> QED  BY <2>3, <2>4, <2>5 DEF CycleInv
<1>3. CASE queue[q] = <<>>
  <2>1. UNCHANGED <<turn, active, heard, queue>>
    BY <1>3 DEF Dequeue
  <2>2. queue[s] = <<>> /\ ToSet(queue[s]) = {}
    BY <1>3 DEF Fallback, ToSet
  <2>3. run' \in {"publish", "select"}
    BY <1>3 DEF Dequeue, GiveUp, Return
  <2>4. RunTurnOK'
    BY <1>1, <2>1, <2>3, BetweenTurns
  <2>5. CASE second /\ run' = "publish" /\ UNCHANGED <<second, cur, final, drain, left>>
    <3>1. PhaseOK' /\ QueuedOK' /\ FoundOK'
      BY <1>1, <2>1, <2>2, <2>5 DEF CycleInv, PhaseOK, QueuedOK, FoundOK
    <3> QED  BY <2>4, <3>1 DEF CycleInv
  <2>6. CASE GiveUp
    BY <1>1, <2>1, <2>4, <2>6, GiveUpCycle DEF CycleInv
  <2> QED  BY <1>3, <2>5, <2>6 DEF Dequeue
<1> QED  BY <1>2, <1>3

\* The three ways a continuation turn ends.
LEMMA EndResumedCases ==
    ASSUME EndResumed
    PROVE  \/ run' = "check" /\ final' = TRUE /\ UNCHANGED <<second, cur, drain, left>>
           \/ /\ second /\ run' = "publish" /\ left' = left \cup ToSet(queue[to[cur]])
              /\ UNCHANGED <<final, second, cur, drain>>
           \/ GiveUp
<1>1. PICK how \in {"answer", "aborted", "error"} :
          CASE how = "answer" ->
                   run' = "check" /\ final' = TRUE /\ UNCHANGED <<second, cur, drain, left>>
            [] how = "aborted" /\ second ->
                   /\ run' = "publish" /\ left' = left \cup ToSet(queue[to[cur]])
                   /\ UNCHANGED <<final, second, cur, drain>>
            [] OTHER -> GiveUp
  BY Zenon DEF EndResumed
<1>2. CASE how = "answer"
  BY <1>1, <1>2
<1>3. CASE how = "aborted" /\ second
  BY <1>1, <1>3
<1>4. CASE how # "answer" /\ ~(how = "aborted" /\ second)
  BY <1>1, <1>4
<1> QED  BY <1>2, <1>3, <1>4

LEMMA EndResumedCycle ==
    ASSUME LoopAssumption, IInv, CycleInv, EndResumed
    PROVE  CycleInv'
<1>1. /\ UNCHANGED <<to, queue, late, interfered>> /\ End("run")
      /\ run = "resume" /\ cur \in Msgs /\ to[cur] \in Chats
  BY DEF EndResumed, IInv, RunOK
<1>2. run' \in {"check", "publish", "select"}
  BY EndResumedCases DEF GiveUp, Return
<1>3. RunTurnOK'
  BY <1>1, <1>2, RunEnds
<1>4. CASE run' = "check" /\ final' = TRUE /\ UNCHANGED <<second, cur, drain, left>>
  BY <1>1, <1>3, <1>4 DEF CycleInv, PhaseOK, QueuedOK, FoundOK
<1>5. CASE /\ second /\ run' = "publish" /\ left' = left \cup ToSet(queue[to[cur]])
           /\ UNCHANGED <<final, second, cur, drain>>
  BY <1>1, <1>3, <1>5 DEF CycleInv, PhaseOK, QueuedOK, FoundOK
<1>6. CASE GiveUp
  BY <1>1, <1>3, <1>6, GiveUpCycle DEF CycleInv
<1> QED  BY <1>4, <1>5, <1>6, EndResumedCases

LEMMA StepCycle ==
    ASSUME LoopAssumption, IInv, PlaceInv, CycleInv, [Next]_vars
    PROVE  CycleInv'
<1>1. CASE \E m \in Msgs : Steer(m) \/ \E s \in Chats \cup {System} : Arrive(m, s)
  BY <1>1, UserCycle
<1>2. CASE OtherEnd \/ \E s \in Sessions : OtherBegin(s)
  BY <1>2, OtherCycle
<1>3. CASE \E c \in Callers : TurnStep(c)
  BY <1>3, TurnCycle
<1>4. CASE RunStep
  BY <1>4, TakeCycle, EndTurnCycle, CheckCycle, ContinueCycle, DequeueCycle, EndResumedCycle
     DEF RunStep
<1>5. CASE \E d \in Msgs : DrainStep(d)
  BY <1>5, DrainCycle
<1>6. CASE UNCHANGED vars
  <2>1. RunTurnOK' /\ PhaseOK'
    BY <1>6 DEF CycleInv, RunTurnOK, PhaseOK, vars, runVars
  <2>2. QueuedOK' /\ FoundOK'
    BY <1>6 DEF CycleInv, QueuedOK, FoundOK, vars, runVars, histVars
  <2> QED  BY <2>1, <2>2 DEF CycleInv
<1> QED  BY <1>1, <1>2, <1>3, <1>4, <1>5, <1>6 DEF Next

\* Only interference lets a cycle with an answer end before it publishes.
LEMMA StepPublishes ==
    ASSUME LoopAssumption, IInv, CycleInv, Next
    PROVE  run # "select" /\ run' = "select" /\ final /\ run # "publish"
             => interfered \/ run = "resume"
<1> SUFFICES ASSUME run # "select", run' = "select", final, run # "publish", run # "resume"
             PROVE  interfered
  OBVIOUS
<1>1. RunStep
  BY DEF Next, Steer, Arrive, OtherBegin, OtherEnd, TurnStep, FirstPoll, Poll, LastPoll,
         DrainStep, DrainReceive, DrainEnd, DrainSteer, DrainRequeue, runVars
<1>2. run # "process"
  BY DEF CycleInv, PhaseOK
<1>3. CASE Continue
  <2>1. active # {} /\ run = "continue"
    BY <1>3 DEF Continue
  <2>2. turn["run"] = NoTurn
    BY <2>1 DEF CycleInv, RunTurnOK
  <2>3. turn["other"] # NoTurn
    BY <2>1, <2>2 DEF CycleInv, RunTurnOK, Callers
  <2> QED  BY <2>3 DEF CycleInv, RunTurnOK
<1>4. CASE Dequeue
  <2>1. queue[Fallback(to[cur])] = <<>> /\ run = "dequeue"
    BY <1>4 DEF Dequeue
  <2> QED  BY <2>1 DEF CycleInv, FoundOK, Fallback
<1> QED  BY <1>1, <1>2, <1>3, <1>4
         DEF RunStep, Take, TakeSystem, EndTurn, Check, Cancel, EndResumed, Publish

-------------------------------------------------------------------------------
(* Order: the lemmas about sequences *)

LEMMA AheadAppend ==
    ASSUME NEW S, NEW s \in Seq(S), NEW e \in S, NEW x, NEW m, Ahead(Append(s, e), x, m)
    PROVE  Ahead(s, x, m) \/ (x \in ToSet(s) /\ m = e)
<1>1. PICK i, j \in 1..(Len(s) + 1) : /\ i < j /\ Append(s, e)[i] = x
                                      /\ Append(s, e)[j] = m
  BY DEF Ahead
<1>2. i \in 1..Len(s) /\ s[i] = x
  BY <1>1
<1>3. CASE j = Len(s) + 1
  BY <1>1, <1>2, <1>3 DEF ToSet
<1>4. CASE j # Len(s) + 1
  <2>1. j \in 1..Len(s) /\ s[j] = m
    BY <1>1, <1>4
  <2> QED  BY <1>1, <1>2, <2>1 DEF Ahead
<1> QED  BY <1>3, <1>4

LEMMA AheadGrows ==
    ASSUME NEW S, NEW s \in Seq(S), NEW e \in S, NEW x, NEW m
    PROVE  /\ Ahead(s, x, m) => Ahead(Append(s, e), x, m)
           /\ x \in ToSet(s) => Ahead(Append(s, e), x, e)
<1>1. \A i \in DOMAIN s : i \in DOMAIN Append(s, e) /\ Append(s, e)[i] = s[i]
                          /\ i < Len(s) + 1
  OBVIOUS
<1>2. Len(s) + 1 \in DOMAIN Append(s, e) /\ Append(s, e)[Len(s) + 1] = e
  OBVIOUS
<1>3. Ahead(s, x, m) => Ahead(Append(s, e), x, m)
  BY <1>1 DEF Ahead
<1>4. x \in ToSet(s) => Ahead(Append(s, e), x, e)
  BY <1>1, <1>2 DEF Ahead, ToSet
<1> QED  BY <1>3, <1>4

LEMMA AheadConcat ==
    ASSUME NEW S, NEW s \in Seq(S), NEW t \in Seq(S), NEW x, NEW m, Ahead(s \o t, x, m)
    PROVE  Ahead(s, x, m) \/ Ahead(t, x, m) \/ (x \in ToSet(s) /\ m \in ToSet(t))
<1> DEFINE c == s \o t
<1>1. /\ DOMAIN c = 1..(Len(s) + Len(t)) /\ Len(s) \in Nat /\ Len(t) \in Nat
      /\ DOMAIN s = 1..Len(s) /\ DOMAIN t = 1..Len(t)
  OBVIOUS
<1>2. \A i \in 1..(Len(s) + Len(t)) :
          c[i] = IF i <= Len(s) THEN s[i] ELSE t[i - Len(s)]
  OBVIOUS
<1>3. PICK i, j \in DOMAIN c : i < j /\ c[i] = x /\ c[j] = m
  BY DEF Ahead
<1> HIDE DEF c
<1>4. i \in Nat /\ j \in Nat
  BY <1>1, <1>3
<1>5. CASE j <= Len(s)
  <2>1. i \in DOMAIN s /\ j \in DOMAIN s /\ s[i] = x /\ s[j] = m
    BY <1>1, <1>2, <1>3, <1>4, <1>5
  <2> QED  BY <1>3, <2>1 DEF Ahead
<1>6. CASE ~(j <= Len(s)) /\ i <= Len(s)
  <2>1. i \in DOMAIN s /\ s[i] = x /\ j - Len(s) \in DOMAIN t /\ t[j - Len(s)] = m
    BY <1>1, <1>2, <1>3, <1>4, <1>6
  <2> QED  BY <2>1 DEF ToSet
<1>7. CASE ~(j <= Len(s)) /\ ~(i <= Len(s))
  <2>1. /\ i - Len(s) \in DOMAIN t /\ t[i - Len(s)] = x
        /\ j - Len(s) \in DOMAIN t /\ t[j - Len(s)] = m
        /\ i - Len(s) < j - Len(s)
    BY <1>1, <1>2, <1>3, <1>4, <1>7
  <2> QED  BY <2>1 DEF Ahead
<1> QED  BY <1>5, <1>6, <1>7

\* A batch and the rest of a queue.
LEMMA AheadSplit ==
    ASSUME NEW S, NEW s \in Seq(S), NEW n \in 1..Len(s), NEW x, NEW m
    PROVE  /\ Ahead(SubSeq(s, 1, n), x, m) => Ahead(s, x, m)
           /\ Ahead(SubSeq(s, n + 1, Len(s)), x, m) => Ahead(s, x, m)
           /\ x \in ToSet(SubSeq(s, 1, n)) /\ m \in ToSet(SubSeq(s, n + 1, Len(s)))
                => Ahead(s, x, m)
<1> DEFINE a == SubSeq(s, 1, n)
           b == SubSeq(s, n + 1, Len(s))
<1>1. /\ DOMAIN a = 1..n /\ DOMAIN b = 1..(Len(s) - n) /\ DOMAIN s = 1..Len(s)
      /\ Len(s) \in Nat /\ n \in Nat /\ n <= Len(s)
  OBVIOUS
<1>2. /\ \A i \in 1..n : a[i] = s[i]
      /\ \A i \in 1..(Len(s) - n) : b[i] = s[n + i]
  OBVIOUS
<1> HIDE DEF a, b
<1>3. \A i \in DOMAIN a : i \in DOMAIN s /\ a[i] = s[i] /\ i \in Nat /\ i <= n
  BY <1>1, <1>2
<1>4. \A i \in DOMAIN b : i \in Nat /\ i >= 1 /\ n + i \in DOMAIN s /\ b[i] = s[n + i]
  BY <1>1, <1>2
<1>5. Ahead(a, x, m) => Ahead(s, x, m)
  BY <1>3 DEF Ahead
<1>6. Ahead(b, x, m) => Ahead(s, x, m)
  <2> SUFFICES ASSUME NEW i \in DOMAIN b, NEW j \in DOMAIN b, i < j, b[i] = x, b[j] = m
               PROVE  Ahead(s, x, m)
    BY DEF Ahead
  <2>1. n + i \in DOMAIN s /\ n + j \in DOMAIN s /\ n + i < n + j
        /\ s[n + i] = x /\ s[n + j] = m
    BY <1>1, <1>4
  <2> QED  BY <2>1 DEF Ahead
<1>7. x \in ToSet(a) /\ m \in ToSet(b) => Ahead(s, x, m)
  <2> SUFFICES ASSUME NEW i \in DOMAIN a, NEW j \in DOMAIN b, a[i] = x, b[j] = m
               PROVE  Ahead(s, x, m)
    BY DEF ToSet
  <2>1. i \in DOMAIN s /\ n + j \in DOMAIN s /\ i < n + j /\ s[i] = x /\ s[n + j] = m
    BY <1>1, <1>3, <1>4
  <2> QED  BY <2>1 DEF Ahead
<1> QED  BY <1>5, <1>6, <1>7 DEF a, b

\* Behind the head of a sequence without repetitions.
LEMMA AheadTail ==
    ASSUME NEW S, NEW s \in Seq(S), s # <<>>, Once(s), NEW x, NEW m
    PROVE  /\ ~Ahead(s, x, Head(s))
           /\ Ahead(s, x, m) /\ x # Head(s) => Ahead(Tail(s), x, m)
<1>1. /\ DOMAIN s = 1..Len(s) /\ Len(s) \in Nat /\ Len(s) >= 1 /\ Head(s) = s[1]
      /\ DOMAIN Tail(s) = 1..(Len(s) - 1)
      /\ \A i \in 1..(Len(s) - 1) : Tail(s)[i] = s[i + 1]
  OBVIOUS
<1>2. ~Ahead(s, x, Head(s))
  <2> SUFFICES ASSUME NEW i \in DOMAIN s, NEW j \in DOMAIN s, i < j, s[j] = Head(s)
               PROVE  FALSE
    BY DEF Ahead
  <2>1. j = 1
    BY <1>1 DEF Once
  <2> QED  BY <1>1, <2>1
<1>3. ASSUME Ahead(s, x, m), x # Head(s) PROVE Ahead(Tail(s), x, m)
  <2>1. PICK i, j \in DOMAIN s : i < j /\ s[i] = x /\ s[j] = m
    BY <1>3 DEF Ahead
  <2>2. i # 1
    BY <1>1, <1>3, <2>1
  <2>3. i - 1 \in 1..(Len(s) - 1) /\ j - 1 \in 1..(Len(s) - 1) /\ i - 1 < j - 1
    BY <1>1, <2>1, <2>2
  <2>4. Tail(s)[i - 1] = x /\ Tail(s)[j - 1] = m
    <3>1. (i - 1) + 1 = i /\ (j - 1) + 1 = j
      BY <1>1, <2>1
    <3> QED  BY <1>1, <2>1, <2>3, <3>1
  <2> QED  BY <1>1, <2>3, <2>4 DEF Ahead
<1> QED  BY <1>2, <1>3

LEMMA AheadOnce ==
    ASSUME NEW S, NEW s \in Seq(S), Once(s), NEW x, NEW m, Ahead(s, x, m)
    PROVE  /\ x \in ToSet(s) /\ m \in ToSet(s) /\ x # m
           /\ ~Ahead(s, m, x)
<1>1. PICK i, j \in DOMAIN s : i < j /\ s[i] = x /\ s[j] = m
  BY DEF Ahead
<1>2. DOMAIN s \subseteq Nat
  OBVIOUS
<1>3. x \in ToSet(s) /\ m \in ToSet(s) /\ x # m
  BY <1>1, <1>2 DEF ToSet, Once
<1>4. ASSUME Ahead(s, m, x) PROVE FALSE
  <2>1. PICK k, l \in DOMAIN s : k < l /\ s[k] = m /\ s[l] = x
    BY <1>4 DEF Ahead
  <2>2. k = j /\ l = i
    BY <1>1, <2>1 DEF Once
  <2> QED  BY <1>1, <1>2, <2>1, <2>2
<1> QED  BY <1>3, <1>4

-------------------------------------------------------------------------------
(* OrderInv *)

\* A message of one place is in none of the others.
LEMMA PlacesApart ==
    ASSUME IInv, PlaceInv, NEW s \in Sessions
    PROVE  /\ ToSet(inbound) \cap ToSet(heard[s]) = {}
           /\ ToSet(inbound) \cap ToSet(queue[s]) = {}
           /\ ToSet(heard[s]) \cap ToSet(queue[s]) = {}
           /\ \A d \in Msgs : drain[d].held # None =>
                 drain[d].held \notin ToSet(heard[s]) \cup ToSet(queue[s])
<1>1. /\ <<"inbound", None>> \in Places /\ <<"heard", s>> \in Places
      /\ <<"queue", s>> \in Places /\ \A d \in Msgs : <<"held", d>> \in Places
  BY DEF Places, Queues
<1>2. /\ ToSet(inbound) \subseteq Msgs /\ ToSet(heard[s]) \subseteq Msgs
      /\ ToSet(queue[s]) \subseteq Msgs
  BY ToSetTyped, ChatQueues DEF IInv, BusOK, HeardOK, QueueOK
<1>3. \A p1, p2 \in Places : \A m \in Msgs : m \in At(p1) /\ m \in At(p2) => p1 = p2
  BY DEF PlaceInv, Apart
<1>4. s \in Queues
  BY ChatQueues
<1>5. /\ At(<<"inbound", None>>) = ToSet(inbound) /\ At(<<"heard", s>>) = ToSet(heard[s])
      /\ At(<<"queue", s>>) = ToSet(queue[s])
      /\ \A d \in Msgs : At(<<"held", d>>) = {drain[d].held} \ {None}
  BY <1>4, AtPlaces
<1>6. /\ ToSet(inbound) \cap ToSet(heard[s]) = {}
      /\ ToSet(inbound) \cap ToSet(queue[s]) = {}
      /\ ToSet(heard[s]) \cap ToSet(queue[s]) = {}
  BY <1>1, <1>2, <1>3, <1>5
<1>7. ASSUME NEW d \in Msgs, drain[d].held # None
      PROVE  drain[d].held \notin ToSet(heard[s]) \cup ToSet(queue[s])
  <2>1. drain[d].held \in At(<<"held", d>>)
    BY <1>5, <1>7
  <2>2. <<"held", d>> # <<"heard", s>> /\ <<"held", d>> # <<"queue", s>>
    OBVIOUS
  <2>3. <<"held", d>> \in Places
    BY <1>1
  <2>4. drain[d].held \notin ToSet(heard[s])
    BY <1>1, <1>2, <1>3, <1>5, <2>1, <2>2, <2>3
  <2>5. drain[d].held \notin ToSet(queue[s])
    BY <1>1, <1>2, <1>3, <1>5, <2>1, <2>2, <2>3
  <2> QED  BY <2>4, <2>5
<1> QED  BY <1>6, <1>7

\* What is ahead of what: only things that are there.
LEMMA AheadIn ==
    ASSUME NEW s, NEW x, NEW m, Ahead(s, x, m)
    PROVE  x \in ToSet(s) /\ m \in ToSet(s)
  BY DEF Ahead, ToSet

LEMMA ArrivedSent ==
    ASSUME OrderInv, NEW x, NEW m, Ahead(arrived, m, x)
    PROVE  x \in Sent /\ m \in Sent /\ x # m /\ ~Ahead(arrived, x, m)
<1>1. arrived \in Seq(Sent) /\ Once(arrived)
  BY DEF OrderInv, ArrivedOK
<1>2. ToSet(arrived) \subseteq Sent
  BY <1>1, ToSetTyped
<1> QED  BY <1>1, <1>2, AheadOnce

LEMMA InitOrder ==
    ASSUME Init
    PROVE  OrderInv
<1>1. \A x, m : ~Ahead(<<>>, x, m)
  BY DEF Ahead
<1>2. arrived = <<>> /\ inbound = <<>>
  BY DEF Init
<1>3. ArrivedOK
  BY <1>2 DEF ArrivedOK, Once, ToSet
<1>4. OrderOK
  BY <1>1, <1>2 DEF OrderOK, InTurn
<1> QED  BY <1>3, <1>4 DEF OrderInv

\* Nothing arrives: the bus stays as it is, or loses its head.
LEMMA ArrivedKept ==
    ASSUME IInv, PlaceInv, OrderInv, ToGrows, UNCHANGED arrived,
           UNCHANGED inbound \/ (inbound # <<>> /\ inbound' = Tail(inbound))
    PROVE  ArrivedOK'
<1>1. arrived \in Seq(Sent') /\ Once(arrived)
  BY PlaceGrows, SeqGrows DEF OrderInv, ArrivedOK
<1>2. inbound \in Seq(Msgs) /\ Once(inbound)
  BY DEF IInv, BusOK, PlaceInv, OnceOK
<1>3. \A m \in ToSet(inbound) : \A x \in Msgs :
          Ahead(arrived, m, x) => Ahead(inbound, m, x)
  BY DEF OrderInv, ArrivedOK
<1>4. CASE UNCHANGED inbound
  BY <1>1, <1>3, <1>4 DEF ArrivedOK
<1>5. CASE inbound # <<>> /\ inbound' = Tail(inbound)
  <2>1. ToSet(Tail(inbound)) = ToSet(inbound) \ {Head(inbound)}
    BY <1>2, <1>5, OnceTail
  <2>2. \A m \in ToSet(Tail(inbound)) : \A x \in Msgs :
          Ahead(arrived, m, x) => Ahead(Tail(inbound), m, x)
    BY <1>2, <1>3, <1>5, <2>1, AheadTail
  <2> QED  BY <1>1, <1>5, <2>2 DEF ArrivedOK
<1> QED  BY <1>4, <1>5

\* Queues and sessions stay as they are, and no hand gets a message.
LEMMA OrderKept ==
    ASSUME IInv, OrderInv, UNCHANGED <<to, arrived, heard, queue>>,
           late \subseteq late', left \subseteq left',
           \A m \in Msgs : InHand(m)' => InHand(m)
    PROVE  OrderOK'
  BY DEF OrderInv, OrderOK, InTurn

\* A message that is of no chat, or late, or not held by a drain of its own
\* turn, may be enqueued.
LEMMA PushOrder ==
    ASSUME LoopAssumption, IInv, PlaceInv, OrderInv, NEW q \in Queues, NEW e \in Msgs, Push(q, e),
           UNCHANGED <<arrived, heard>>, late \subseteq late', left \subseteq left',
           \A m \in Msgs : to'[m] \in Chats => to'[m] = to[m],
           \A m \in Msgs : InHand(m)' => InHand(m),
           to'[e] \notin Chats \/ e \in late'
    PROVE  OrderOK'
<1> SUFFICES ASSUME NEW c \in Chats, NEW m \in Msgs, NEW x \in Msgs, InTurn(c, m, x)'
             PROVE  /\ ~Ahead(heard[c], x, m)
                    /\ ~Ahead(queue'[c], x, m)
                    /\ x \in ToSet(heard[c]) => m \notin ToSet(queue'[c])
                    /\ x \in ToSet(heard[c]) \cup ToSet(queue'[c]) => ~InHand(m)'
  BY DEF OrderOK
<1>1. InTurn(c, m, x) /\ m # e /\ x # e
  BY DEF InTurn
<1>2. /\ ~Ahead(heard[c], x, m)
      /\ ~Ahead(queue[c], x, m)
      /\ x \in ToSet(heard[c]) => m \notin ToSet(queue[c])
      /\ x \in ToSet(heard[c]) \cup ToSet(queue[c]) => ~InHand(m)
  BY <1>1 DEF OrderInv, OrderOK
<1>3. c \in Queues /\ ToSet(queue'[c]) \subseteq ToSet(queue[c]) \cup {e}
  BY PushGrows, ChatQueues DEF IInv
<1>4. queue' = [queue EXCEPT ![q] = Append(@, e)] \/ UNCHANGED queue
  BY DEF Push
<1>5. queue \in [Queues -> Seq(Msgs)]
  BY DEF IInv, QueueOK
<1>6. queue'[c] = Append(queue[c], e) \/ queue'[c] = queue[c]
  BY <1>3, <1>4, <1>5
<1>7. ~Ahead(queue'[c], x, m)
  <2>1. queue[c] \in Seq(Msgs)
    BY <1>3, <1>5
  <2>2. ~Ahead(Append(queue[c], e), x, m)
    BY <1>1, <1>2, <2>1, AheadAppend
  <2> QED  BY <1>2, <1>6, <2>2
<1> QED  BY <1>1, <1>2, <1>3, <1>7

LEMMA SteerOrder ==
    ASSUME LoopAssumption, IInv, PlaceInv, OrderInv, NEW m \in Msgs, Steer(m)
    PROVE  OrderInv'
<1>1. ToGrows /\ to'[m] = Manual /\ \A n \in Msgs \ {m} : to'[n] = to[n]
  BY SendingGrows DEF Steer, IInv, BusOK
<1>2. PICK q \in Queues : Push(q, m)
  BY DEF Steer, IInv, TurnOK, Queues
<1>3. UNCHANGED <<inbound, arrived, heard, drain, late, left>>
  BY DEF Steer, histVars
<1>4. \A n : InHand(n)' <=> InHand(n)
  BY <1>3 DEF InHand
<1>5. OrderOK'
  BY <1>1, <1>2, <1>3, <1>4, ManualNotChat, PushOrder
<1>6. ArrivedOK'
  BY <1>1, <1>3, ArrivedKept
<1> QED  BY <1>5, <1>6 DEF OrderInv

LEMMA ArriveOrder ==
    ASSUME LoopAssumption, IInv, PlaceInv, OrderInv, NEW e \in Msgs, NEW s \in Chats \cup {System},
           Arrive(e, s)
    PROVE  OrderInv'
<1>1. /\ ToGrows /\ e \in Sent' /\ e \notin Sent /\ to[e] = None
      /\ \A n \in Msgs \ {e} : to'[n] = to[n]
  BY SendingGrows DEF Arrive, IInv, BusOK, Sent
<1>2. /\ UNCHANGED <<heard, queue, drain, late, left>>
      /\ arrived' = Append(arrived, e) /\ inbound' = Append(inbound, e)
  BY DEF Arrive, histVars
<1>3. /\ arrived \in Seq(Sent) /\ arrived \in Seq(Sent') /\ Once(arrived)
      /\ ToSet(arrived) \subseteq Sent
  BY <1>1, PlaceGrows, SeqGrows, ToSetTyped DEF OrderInv, ArrivedOK
<1>4. /\ inbound \in Seq(Msgs) /\ inbound \in Seq(Sent) /\ ToSet(inbound) \subseteq Sent
  BY ToSetTyped DEF IInv, BusOK
<1>5. arrived' \in Seq(Sent') /\ Once(arrived')
  BY <1>1, <1>2, <1>3, AppendTyped, OnceAppend
<1>6. \A x, m : Ahead(arrived', m, x) => Ahead(arrived, m, x) \/ (m \in ToSet(arrived) /\ x = e)
  BY <1>1, <1>2, <1>3, AheadAppend
<1>7. ToSet(inbound') = ToSet(inbound) \cup {e}
  BY <1>2, <1>4, OnceAppend
<1>8. ArrivedOK'
  <2> SUFFICES ASSUME NEW m \in ToSet(inbound'), NEW x \in Msgs, Ahead(arrived', m, x)
               PROVE  Ahead(inbound', m, x)
    BY <1>5 DEF ArrivedOK
  <2>1. m \in Sent
    BY <1>3, <1>6, AheadIn
  <2>2. m \in ToSet(inbound)
    BY <1>1, <1>7, <2>1
  <2>3. CASE Ahead(arrived, m, x)
    <3>1. Ahead(inbound, m, x)
      BY <2>2, <2>3 DEF OrderInv, ArrivedOK
    <3> QED  BY <1>2, <1>4, <3>1, AheadGrows
  <2>4. CASE x = e
    BY <1>2, <1>4, <2>2, <2>4, AheadGrows
  <2> QED  BY <1>6, <2>3, <2>4
<1>9. OrderOK'
  <2> SUFFICES ASSUME NEW c \in Chats, NEW m \in Msgs, NEW x \in Msgs, InTurn(c, m, x)'
               PROVE  /\ ~Ahead(heard[c], x, m)
                      /\ ~Ahead(queue[c], x, m)
                      /\ x \in ToSet(heard[c]) => m \notin ToSet(queue[c])
                      /\ x \in ToSet(heard[c]) \cup ToSet(queue[c]) => ~InHand(m)'
    BY <1>2 DEF OrderOK
  <2>1. Ahead(arrived', m, x) /\ to'[m] = c /\ to'[x] = c /\ m \notin late \cup left /\ x \notin late
    BY <1>2 DEF InTurn
  <2>2. InHand(m)' <=> InHand(m)
    BY <1>2 DEF InHand
  <2>3. CASE Ahead(arrived, m, x)
    <3>1. m # e /\ x # e
      BY <1>1, <1>3, <2>3, AheadIn
    <3>2. InTurn(c, m, x)
      BY <1>1, <2>1, <2>3, <3>1 DEF InTurn
    <3> QED  BY <2>2, <3>2 DEF OrderInv, OrderOK
  <2>4. CASE x = e
    <3>1. e \notin ToSet(heard[c]) /\ e \notin ToSet(queue[c])
      BY <1>1, QueuedSent, ChatQueues
    <3> QED  BY <2>4, <3>1, AheadIn
  <2> QED  BY <1>6, <2>1, <2>3, <2>4
<1> QED  BY <1>8, <1>9 DEF OrderInv

\* A drain that is not cancelled enqueues what it holds: it is the only such
\* drain, and nothing that arrived later has been enqueued or heard.
LEMMA SteerInTurn ==
    ASSUME LoopAssumption, IInv, PlaceInv, CycleInv, OrderInv, NEW d \in Msgs,
           DrainSteer(d), ~drain[d].cancelled
    PROVE  OrderOK'
<1> DEFINE e == drain[d].held
<1>1. /\ e \in Msgs /\ e # None /\ to[d] \in Chats /\ to[e] = to[d] /\ Push(to[d], e)
      /\ UNCHANGED <<to, arrived, heard, left, late>> /\ drain[d].st = "holding"
  BY DEF DrainSteer, IInv, DrainOK, Sent, LoopAssumption
<1>2. InHand(e)
  BY <1>1 DEF InHand
<1>3. drain' = [drain EXCEPT ![d].st = "draining", ![d].held = None]
  BY DEF DrainSteer
<1>4. \A n : ~InHand(n)'
  <2> SUFFICES ASSUME NEW f \in Msgs, drain'[f].st = "holding", ~drain'[f].cancelled
               PROVE  FALSE
    BY DEF InHand
  <2>1. f # d
    BY <1>3 DEF IInv, DrainOK
  <2>2. drain[f] = drain'[f]
    BY <1>3, <2>1 DEF IInv, DrainOK
  <2>3. cur = d /\ cur = f
    BY <1>1, <2>2 DEF CycleInv, PhaseOK
  <2> QED  BY <2>1, <2>3
<1> SUFFICES ASSUME NEW c \in Chats, NEW m \in Msgs, NEW x \in Msgs, InTurn(c, m, x)
             PROVE  /\ ~Ahead(heard[c], x, m)
                    /\ ~Ahead(queue'[c], x, m)
                    /\ x \in ToSet(heard[c]) => m \notin ToSet(queue'[c])
  BY <1>1, <1>4 DEF OrderOK, InTurn
<1>5. /\ ~Ahead(heard[c], x, m)
      /\ ~Ahead(queue[c], x, m)
      /\ x \in ToSet(heard[c]) => m \notin ToSet(queue[c])
      /\ x \in ToSet(heard[c]) \cup ToSet(queue[c]) => m # e
  BY <1>2 DEF OrderInv, OrderOK
<1>6. x # m
  BY ArrivedSent DEF InTurn
<1>7. e \notin ToSet(heard[c]) \cup ToSet(queue[c])
  BY <1>1, PlacesApart, ChatQueues
<1>8. queue' = [queue EXCEPT ![to[d]] = Append(@, e)] \/ UNCHANGED queue
  BY <1>1 DEF Push
<1>9. queue \in [Queues -> Seq(Msgs)] /\ c \in Queues
  BY ChatQueues DEF IInv, QueueOK
<1>10. queue'[c] = Append(queue[c], e) \/ queue'[c] = queue[c]
  BY <1>8, <1>9
<1>11. CASE queue'[c] = Append(queue[c], e)
  <2>1. queue[c] \in Seq(Msgs)
    BY <1>9
  <2>2. ToSet(queue'[c]) = ToSet(queue[c]) \cup {e}
    BY <1>1, <1>11, <2>1, OnceAppend
  <2>3. Ahead(queue'[c], x, m) => m = e /\ x \in ToSet(queue[c])
    BY <1>1, <1>5, <1>11, <2>1, AheadAppend
  <2> QED  BY <1>5, <2>2, <2>3
<1>12. CASE queue'[c] = queue[c]
  BY <1>5, <1>12
<1> QED  BY <1>10, <1>11, <1>12

LEMMA DrainOrder ==
    ASSUME LoopAssumption, IInv, PlaceInv, CycleInv, OrderInv, NEW d \in Msgs, DrainStep(d)
    PROVE  OrderInv'
<1>1. UNCHANGED <<to, arrived, heard, left>> /\ late \subseteq late'
  BY DEF DrainStep, DrainReceive, DrainEnd, DrainSteer, DrainRequeue, histVars
<1>2. ToGrows
  BY <1>1, ToStays DEF IInv
<1>3. ArrivedOK'
  BY <1>1, <1>2, ArrivedKept
     DEF DrainStep, DrainReceive, DrainEnd, DrainSteer, DrainRequeue
<1>4. \A f \in Msgs \ {d} : drain'[f] = drain[f]
  BY DEF DrainStep, DrainReceive, DrainEnd, DrainSteer, DrainRequeue, IInv, DrainOK
<1>5. CASE DrainReceive(d)
  <2> DEFINE e == Head(inbound)
  <2>1. UNCHANGED <<queue, late>> /\ inbound # <<>> /\ drain'[d].held = e
    BY <1>5 DEF DrainReceive, histVars, IInv, DrainOK
  <2>2. e \in ToSet(inbound) /\ e \in Msgs
    BY <2>1, TailTyped, OnceTail DEF IInv, BusOK, PlaceInv, OnceOK
  <2>3. \A n \in Msgs : InHand(n)' => InHand(n) \/ n = e
    BY <1>4, <2>1 DEF InHand
  <2>4. ASSUME NEW c \in Chats, NEW x \in Msgs, Ahead(arrived, e, x)
        PROVE  x \notin ToSet(heard[c]) \cup ToSet(queue[c])
    <3>1. x \in ToSet(inbound)
      BY <2>2, <2>4, AheadIn DEF OrderInv, ArrivedOK
    <3> QED  BY <3>1, PlacesApart, ChatQueues
  <2>5. OrderOK'
    BY <1>1, <2>1, <2>3, <2>4 DEF OrderInv, OrderOK, InTurn
  <2> QED  BY <1>3, <2>5 DEF OrderInv
<1>6. CASE DrainEnd(d) \/ DrainRequeue(d)
  <2>1. UNCHANGED <<queue, late>> /\ drain'[d].st # "holding"
    BY <1>6 DEF DrainEnd, DrainRequeue, histVars, IInv, DrainOK
  <2>2. \A n \in Msgs : InHand(n)' => InHand(n)
    BY <1>4, <2>1 DEF InHand
  <2>3. OrderOK'
    BY <1>1, <2>1, <2>2, OrderKept
  <2> QED  BY <1>3, <2>3 DEF OrderInv
<1>7. CASE DrainSteer(d) /\ drain[d].cancelled
  <2>1. /\ drain[d].held \in Msgs /\ to[d] \in Queues /\ Push(to[d], drain[d].held)
        /\ drain[d].held \in late'
    BY <1>7, ChatQueues DEF DrainSteer, IInv, DrainOK, Sent
  <2>2. drain'[d].st # "holding"
    BY <1>7 DEF DrainSteer, IInv, DrainOK
  <2>3. \A n \in Msgs : InHand(n)' => InHand(n)
    BY <1>4, <2>2 DEF InHand
  <2>4. OrderOK'
    BY <1>1, <2>1, <2>3, PushOrder
  <2> QED  BY <1>3, <2>4 DEF OrderInv
<1>8. CASE DrainSteer(d) /\ ~drain[d].cancelled
  BY <1>3, <1>8, SteerInTurn DEF OrderInv
<1> QED  BY <1>5, <1>6, <1>7, <1>8 DEF DrainStep

\* A turn of session s takes a batch from its own queue or from the manual one.
LEMMA HearOrder ==
    ASSUME LoopAssumption, IInv, PlaceInv, OrderInv, NEW s \in Sessions, NEW q \in {s, Manual},
           queue[q] # <<>>, Hear(s, q), UNCHANGED <<to, arrived, drain, late, left>>
    PROVE  OrderOK'
<1> DEFINE batch == SubSeq(queue[q], 1, Batch(q))
           rest == SubSeq(queue[q], Batch(q) + 1, Len(queue[q]))
<1>1. /\ q \in Queues /\ queue[q] \in Seq(Msgs) /\ queue[q] \in Seq(Place(q))
      /\ heard[s] \in Seq(Msgs) /\ Once(queue[q])
  BY DEF IInv, QueueOK, HeardOK, PlaceInv, OnceOK, Queues
<1>2. Batch(q) \in 1..Len(queue[q])
  BY <1>1 DEF Batch
<1>3. batch \in Seq(Msgs) /\ rest \in Seq(Msgs)
  BY <1>1, <1>2, BatchTyped
<1>4. /\ Once(batch) /\ Once(rest) /\ ToSet(batch) \subseteq ToSet(queue[q])
      /\ ToSet(rest) = ToSet(queue[q]) \ ToSet(batch)
  BY <1>1, <1>2, OnceSplit
<1>5. \A x, m : /\ Ahead(batch, x, m) => Ahead(queue[q], x, m)
                /\ Ahead(rest, x, m) => Ahead(queue[q], x, m)
                /\ x \in ToSet(batch) /\ m \in ToSet(rest) => Ahead(queue[q], x, m)
  BY <1>1, <1>2, AheadSplit
<1>6. /\ heard' = [heard EXCEPT ![s] = heard[s] \o batch]
      /\ queue' = [queue EXCEPT ![q] = rest]
  BY DEF Hear
<1> HIDE DEF batch, rest
<1>7. /\ queue'[q] = rest /\ \A p \in Queues \ {q} : queue'[p] = queue[p]
      /\ heard'[s] = heard[s] \o batch /\ \A t \in Sessions \ {s} : heard'[t] = heard[t]
  BY <1>1, <1>6 DEF IInv, QueueOK, HeardOK
<1>8. \A n : InHand(n)' <=> InHand(n)
  BY DEF InHand
<1> SUFFICES ASSUME NEW c \in Chats, NEW m \in Msgs, NEW x \in Msgs, InTurn(c, m, x)
             PROVE  /\ ~Ahead(heard'[c], x, m)
                    /\ ~Ahead(queue'[c], x, m)
                    /\ x \in ToSet(heard'[c]) => m \notin ToSet(queue'[c])
                    /\ x \in ToSet(heard'[c]) \cup ToSet(queue'[c]) => ~InHand(m)
  BY <1>8 DEF OrderOK, InTurn
<1>9. /\ ~Ahead(heard[c], x, m)
      /\ ~Ahead(queue[c], x, m)
      /\ x \in ToSet(heard[c]) => m \notin ToSet(queue[c])
      /\ x \in ToSet(heard[c]) \cup ToSet(queue[c]) => ~InHand(m)
  BY DEF OrderInv, OrderOK
<1>10. c # Manual /\ c \in Sessions /\ c \in Queues
  BY ManualNotChat, ChatQueues
<1>11. CASE c # s
  BY <1>7, <1>9, <1>10, <1>11
<1>12. CASE c = s
  <2>1. /\ ToSet(heard'[c]) = ToSet(heard[c]) \cup ToSet(batch)
        /\ Ahead(heard'[c], x, m) => \/ Ahead(heard[c], x, m) \/ Ahead(batch, x, m)
                                     \/ (x \in ToSet(heard[c]) /\ m \in ToSet(batch))
    <3>1. ToSet(heard[s]) \cap ToSet(batch) = {}
      <4>1. CASE q = s
        BY <1>4, <4>1, PlacesApart
      <4>2. CASE q = Manual
        <5>1. <<"heard", s>> \in Places /\ <<"queue", Manual>> \in Places
              /\ <<"heard", s>> # <<"queue", Manual>>
          BY DEF Places, Queues
        <5>2. /\ At(<<"heard", s>>) = ToSet(heard[s])
              /\ At(<<"queue", Manual>>) = ToSet(queue[Manual])
          BY AtPlaces DEF Queues
        <5>3. ToSet(heard[s]) \subseteq Msgs
          BY <1>1, ToSetTyped
        <5> QED  BY <1>4, <4>2, <5>1, <5>2, <5>3 DEF PlaceInv, Apart
      <4> QED  BY <4>1, <4>2
    <3>2. Once(heard[s])
      BY DEF PlaceInv, OnceOK
    <3>3. ToSet(heard[s] \o batch) = ToSet(heard[s]) \cup ToSet(batch)
      BY <1>1, <1>3, <1>4, <3>1, <3>2, OnceConcat
    <3>4. Ahead(heard[s] \o batch, x, m) =>
            \/ Ahead(heard[s], x, m) \/ Ahead(batch, x, m)
            \/ (x \in ToSet(heard[s]) /\ m \in ToSet(batch))
      BY <1>1, <1>3, AheadConcat
    <3> QED  BY <1>7, <1>12, <3>3, <3>4
  <2>2. CASE q = s
    <3>1. queue'[c] = rest
      BY <1>7, <1>12, <2>2
    <3>2. ~Ahead(heard'[c], x, m) /\ ~Ahead(queue'[c], x, m)
      BY <1>4, <1>5, <1>9, <1>12, <2>1, <2>2, <3>1
    <3>3. x \in ToSet(heard'[c]) => m \notin ToSet(queue'[c])
      BY <1>4, <1>5, <1>9, <1>12, <2>1, <2>2, <3>1
    <3>4. ToSet(heard'[c]) \cup ToSet(queue'[c]) \subseteq ToSet(heard[c]) \cup ToSet(queue[c])
      BY <1>4, <1>12, <2>1, <2>2, <3>1
    <3> QED  BY <1>9, <3>2, <3>3, <3>4
  <2>3. CASE q = Manual
    <3>1. queue'[c] = queue[c]
      BY <1>7, <1>10, <2>3
    <3>2. ToSet(queue[Manual]) \subseteq Place(Manual)
      BY <1>1, <2>3, ToSetTyped
    <3>3. x \notin ToSet(batch) /\ m \notin ToSet(batch)
      BY <1>4, <1>10, <2>3, <3>2 DEF InTurn, Place
    <3>4. ~Ahead(heard'[c], x, m)
      BY <1>9, <2>1, <3>3, AheadIn
    <3> QED  BY <1>9, <2>1, <3>1, <3>3, <3>4
  <2> QED  BY <2>2, <2>3
<1> QED  BY <1>11, <1>12

LEMMA TurnOrder ==
    ASSUME LoopAssumption, IInv, PlaceInv, OrderInv, NEW c \in Callers, TurnStep(c)
    PROVE  OrderInv'
<1>1. UNCHANGED <<to, arrived, inbound, drain, late, left>>
  BY DEF TurnStep, FirstPoll, Poll, LastPoll, histVars
<1>2. turn[c].scope \in Sessions
  BY DEF TurnStep, FirstPoll, Poll, LastPoll, IInv, TurnOK
<1>3. ArrivedOK'
  BY <1>1, ToStays, ArrivedKept DEF IInv
<1>4. CASE UNCHANGED <<heard, queue>>
  <2>1. \A n : InHand(n)' <=> InHand(n)
    BY <1>1 DEF InHand
  <2>2. OrderOK'
    BY <1>1, <1>4, <2>1, OrderKept
  <2> QED  BY <1>3, <2>2 DEF OrderInv
<1>5. CASE \E q \in {turn[c].scope, Manual} : queue[q] # <<>> /\ Hear(turn[c].scope, q)
  BY <1>1, <1>2, <1>3, <1>5, HearOrder DEF OrderInv
<1> QED  BY <1>2, <1>4, <1>5, FallbackQueue DEF TurnStep, FirstPoll, Poll, LastPoll

\* Run takes the message at the head of the bus.
LEMMA TakeOrder ==
    ASSUME LoopAssumption, IInv, PlaceInv, CycleInv, OrderInv, Take \/ TakeSystem
    PROVE  OrderInv'
<1> DEFINE e == Head(inbound)
           s == IF Take THEN to[e] ELSE MainSession
<1>1. /\ run = "select" /\ inbound # <<>> /\ inbound' = Tail(inbound)
      /\ UNCHANGED <<to, arrived, queue, late, left>>
  BY DEF Take, TakeSystem, histVars
<1>2. e \in ToSet(inbound) /\ e \in Msgs
  BY <1>1, TailTyped, OnceTail DEF IInv, BusOK, PlaceInv, OnceOK
<1>3. s \in Chats /\ heard' = [heard EXCEPT ![s] = Append(@, e)]
  BY DEF Take, TakeSystem, LoopAssumption
<1>4. ArrivedOK'
  BY <1>1, ToStays, ArrivedKept DEF IInv
<1>5. \A n : ~InHand(n)'
  <2> SUFFICES ASSUME NEW d \in Msgs, drain'[d].st = "holding", ~drain'[d].cancelled
               PROVE  FALSE
    BY DEF InHand
  <2>1. drain'[d] = drain[d]
    BY <1>2 DEF Take, TakeSystem, IInv, DrainOK
  <2> QED  BY <1>1, <2>1 DEF CycleInv, PhaseOK
<1>6. OrderOK'
  <2> SUFFICES ASSUME NEW c \in Chats, NEW m \in Msgs, NEW x \in Msgs, InTurn(c, m, x)
               PROVE  /\ ~Ahead(heard'[c], x, m)
                      /\ ~Ahead(queue[c], x, m)
                      /\ x \in ToSet(heard'[c]) => m \notin ToSet(queue[c])
    BY <1>1, <1>5 DEF OrderOK, InTurn
  <2>1. /\ ~Ahead(heard[c], x, m)
        /\ ~Ahead(queue[c], x, m)
        /\ x \in ToSet(heard[c]) => m \notin ToSet(queue[c])
    BY DEF OrderInv, OrderOK
  <2>2. m \notin ToSet(queue[c])
    BY <1>1 DEF InTurn, CycleInv, QueuedOK
  <2>3. heard[c] \in Seq(Msgs) /\ heard \in [Sessions -> Seq(Msgs)] /\ c \in Sessions
    BY ChatQueues DEF IInv, HeardOK
  <2>4. CASE heard'[c] = heard[c]
    BY <2>1, <2>2, <2>4
  <2>5. CASE heard'[c] = Append(heard[c], e)
    <3>1. x \in ToSet(heard[c]) => m # e
      <4> SUFFICES ASSUME x \in ToSet(heard[c]), m = e PROVE FALSE
        OBVIOUS
      <4>1. x \in ToSet(inbound)
        BY <1>2, AheadIn DEF InTurn, OrderInv, ArrivedOK
      <4> QED  BY <2>3, <4>1, PlacesApart
    <3>2. ~Ahead(heard'[c], x, m)
      BY <1>2, <2>1, <2>3, <2>5, <3>1, AheadAppend
    <3> QED  BY <2>1, <2>2, <3>2
  <2> QED  BY <1>3, <2>3, <2>4, <2>5
<1> QED  BY <1>4, <1>6 DEF OrderInv

LEMMA CycleOrder ==
    ASSUME LoopAssumption, IInv, PlaceInv, OrderInv,
           EndTurn \/ Check \/ Cancel \/ Continue \/ Dequeue \/ EndResumed \/ Publish
    PROVE  OrderInv'
<1>1. UNCHANGED <<to, arrived, inbound, late>> /\ left \subseteq left'
  BY EndResumedCases
     DEF EndTurn, Check, Cancel, Continue, Dequeue, EndResumed, Publish, histVars, GiveUp
<1>2. ArrivedOK'
  BY <1>1, ToStays, ArrivedKept DEF IInv
<1>3. UNCHANGED drain \/ CancelDrain
  BY EndResumedCases
     DEF EndTurn, Check, Cancel, Continue, Dequeue, EndResumed, Publish, GiveUp
<1>4. \A d \in Msgs : /\ drain'[d].st = drain[d].st /\ drain'[d].held = drain[d].held
                      /\ drain[d].cancelled => drain'[d].cancelled
  BY <1>3 DEF CancelDrain, IInv, DrainOK
<1>5. \A n : InHand(n)' => InHand(n)
  BY <1>4 DEF InHand
<1>6. CASE UNCHANGED <<heard, queue>>
  BY <1>1, <1>2, <1>5, <1>6, OrderKept DEF OrderInv
<1>7. CASE Dequeue /\ queue[Fallback(to[cur])] # <<>>
  <2>1. /\ Hear(to[cur], Fallback(to[cur])) /\ UNCHANGED <<drain, left>>
        /\ to[cur] \in Sessions
    BY <1>7, ChatQueues DEF Dequeue, IInv, RunOK
  <2> QED  BY <1>1, <1>2, <1>7, <2>1, HearOrder, FallbackQueue DEF OrderInv
<1> QED  BY <1>6, <1>7 DEF EndTurn, Check, Cancel, Continue, Dequeue, EndResumed, Publish

LEMMA StepOrder ==
    ASSUME LoopAssumption, IInv, PlaceInv, CycleInv, OrderInv, [Next]_vars
    PROVE  OrderInv'
<1>1. CASE \E m \in Msgs : Steer(m) \/ \E s \in Chats \cup {System} : Arrive(m, s)
  BY <1>1, SteerOrder, ArriveOrder
<1>2. CASE (OtherEnd \/ \E s \in Sessions : OtherBegin(s)) \/ UNCHANGED vars
  <2>1. UNCHANGED <<to, arrived, inbound, heard, queue, drain, late, left>>
    BY <1>2 DEF OtherEnd, OtherBegin, histVars, vars
  <2>2. ArrivedOK'
    BY <2>1, ToStays, ArrivedKept DEF IInv
  <2>3. \A n : InHand(n)' <=> InHand(n)
    BY <2>1 DEF InHand
  <2> QED  BY <2>1, <2>2, <2>3, OrderKept DEF OrderInv
<1>3. CASE \E c \in Callers : TurnStep(c)
  BY <1>3, TurnOrder
<1>4. CASE RunStep
  BY <1>4, TakeOrder, CycleOrder DEF RunStep
<1>5. CASE \E d \in Msgs : DrainStep(d)
  BY <1>5, DrainOrder
<1> QED  BY <1>1, <1>2, <1>3, <1>4, <1>5 DEF Next
-------------------------------------------------------------------------------
\* Where a cycle is and what is still queued, at any time.
THEOREM LoopCycles == Spec => []CycleInv
<1>1. LoopAssumption
  BY LoopAssumption
<1>2. Init => CycleInv
  BY InitCycle
<1>3. IInv /\ PlaceInv /\ CycleInv /\ [Next]_vars => CycleInv'
  BY <1>1, StepCycle
<1> QED  BY <1>2, <1>3, LoopInvariant, LoopPlaces, PTL DEF Spec

\* When Run waits for the next message, a chat's queue holds only messages that
\* a cancelled drain enqueued or that Run left behind when it gave up.
THEOREM LoopStrandsNothing == Spec => []NothingStranded
<1>1. IInv /\ CycleInv => NothingStranded
  <2> SUFFICES ASSUME IInv, CycleInv, run = "select", NEW c \in Chats, NEW i \in DOMAIN queue[c],
                      to[queue[c][i]] = c
               PROVE  queue[c][i] \in late \cup left
    BY DEF NothingStranded
  <2>1. queue[c][i] \in ToSet(queue[c])
    BY DEF ToSet
  <2> QED  BY <2>1 DEF CycleInv, QueuedOK
<1> QED  BY <1>1, LoopInvariant, LoopCycles, PTL

\* An answer Run holds is published unless the continuation turn failed or a
\* turn of another caller ran during the cycle.
THEOREM LoopPublishes == Spec => AnswerPublished
<1>1. LoopAssumption
  BY LoopAssumption
<1>2. IInv /\ CycleInv /\ [Next]_vars
        => [run # "select" /\ run' = "select" /\ final /\ run # "publish"
              => interfered \/ run = "resume"]_vars
  BY <1>1, StepPublishes
<1> QED  BY <1>2, LoopInvariant, LoopCycles, PTL DEF Spec, AnswerPublished

\* Queues, sessions and hands keep the order of arrival, at any time.
THEOREM LoopOrder == Spec => []OrderInv
<1>1. LoopAssumption
  BY LoopAssumption
<1>2. Init => OrderInv
  BY InitOrder
<1>3. IInv /\ PlaceInv /\ CycleInv /\ OrderInv /\ [Next]_vars => OrderInv'
  BY <1>1, StepOrder
<1> QED  BY <1>2, <1>3, LoopInvariant, LoopPlaces, LoopCycles, PTL DEF Spec

\* The messages of a chat are heard in the order they arrived, except for those
\* a cancelled drain enqueued or Run left behind.
THEOREM LoopKeepsOrder == Spec => []ArrivalOrderKept
<1>1. IInv /\ OrderInv => ArrivalOrderKept
  <2> SUFFICES ASSUME IInv, OrderInv, NEW c \in Chats, NEW i \in DOMAIN heard[c],
                      NEW j \in DOMAIN heard[c], i < j,
                      ArrivedBefore(heard[c][j], heard[c][i]),
                      to[heard[c][i]] = c, to[heard[c][j]] = c
               PROVE  heard[c][j] \in late \cup left \/ heard[c][i] \in late
    BY DEF ArrivalOrderKept
  <2> DEFINE x == heard[c][i]
             m == heard[c][j]
  <2>1. Ahead(heard[c], x, m) /\ Ahead(arrived, m, x)
    BY DEF Ahead, ArrivedBefore
  <2>2. x \in Msgs /\ m \in Msgs
    BY ChatQueues DEF IInv, HeardOK
  <2> HIDE DEF x, m
  <2>3. ASSUME m \notin late \cup left, x \notin late PROVE FALSE
    <3>1. InTurn(c, m, x)
      BY <2>1, <2>3 DEF InTurn, x, m
    <3> QED  BY <2>1, <2>2, <3>1 DEF OrderInv, OrderOK
  <2> QED  BY <2>3 DEF x, m
<1> QED  BY <1>1, LoopInvariant, LoopOrder, PTL

-------------------------------------------------------------------------------
(* Why a cycle ends *)

\* What a cycle can still do: the messages that no session has heard yet, the
\* continuation loops it still has to enter, and the places of one round.  A
\* round is added only by Continue, and that takes a message from a queue.
Unheard == {m \in Msgs : \A s \in Sessions : m \notin ToSet(heard[s])}
LoopsLeft == IF second THEN 0 ELSE 1
RunOrder == [process |-> 7, resume |-> 6, check |-> 5, continue |-> 4, dequeue |-> 3, cancel |-> 2,
              publish |-> 1, select |-> 0]
Step == RunOrder[run]
CycleRank == <<Cardinality(Unheard), LoopsLeft, Step>>

\* The messages that are on their way to the bus or on it, and what a drain that
\* is to leave still does: it empties the bus and hands over what it holds.
Waiting == {m \in Msgs : to[m] = None \/ m \in ToSet(inbound)}
Leaving(d) == drain[d].st \in {"draining", "holding"} \/ (drain[d].st = "blocking" /\ drain[d].cancelled)
HandsLeft(d) == IF drain[d].st \in {"blocking", "holding"} THEN 1 ELSE 0
DrainRank(d) == <<Cardinality(Waiting), HandsLeft(d)>>

\* What the code's scheduler relies on: Run has a step to take until it is back
\* at its select, and a drain has one until it is done.
RunCanGo == run = "select" \/ ENABLED <<RunStep>>_vars
DrainCanGo(d) == Leaving(d) => ENABLED <<DrainStep(d)>>_vars

CycleFalls ==
    \/ Unheard' # Unheard /\ Unheard' \subseteq Unheard
    \/ Unheard' \subseteq Unheard /\ LoopsLeft' < LoopsLeft
    \/ Unheard' \subseteq Unheard /\ LoopsLeft' = LoopsLeft /\ Step' < Step
DrainFalls(d) ==
    \/ Waiting' # Waiting /\ Waiting' \subseteq Waiting
    \/ Waiting' \subseteq Waiting /\ HandsLeft(d)' < HandsLeft(d)

\* Where nothing is in the way: neither rank is touched, or Unheard and Waiting
\* lose something.
CycleRests == Unheard' = Unheard /\ LoopsLeft' = LoopsLeft /\ Step' = Step
DrainRests(d) == Waiting' = Waiting /\ HandsLeft(d)' = HandsLeft(d)

\* A poll of a session puts the head of a queue into it, which nobody has heard.
LEMMA HearHears ==
    ASSUME IInv, PlaceInv, NEW s \in Sessions, NEW q \in Queues, queue[q] # <<>>, Hear(s, q)
    PROVE  Unheard' # Unheard /\ Unheard' \subseteq Unheard
<1> DEFINE batch == SubSeq(queue[q], 1, Batch(q))
           m == queue[q][1]
<1>1. queue[q] \in Seq(Msgs) /\ heard[s] \in Seq(Msgs) /\ heard \in [Sessions -> Seq(Msgs)]
  BY DEF IInv, QueueOK, HeardOK
<1>2. Batch(q) \in 1..Len(queue[q])
  BY <1>1 DEF Batch
<1>3. batch \in Seq(Msgs)
  BY <1>1, <1>2, BatchTyped
<1>4. m \in ToSet(batch) /\ m \in ToSet(queue[q]) /\ m \in Msgs
  <2>1. DOMAIN batch = 1..Batch(q) /\ batch[1] = m /\ 1 \in 1..Batch(q) /\ 1 \in DOMAIN queue[q]
    BY <1>1, <1>2
  <2> HIDE DEF batch, m
  <2>2. m \in ToSet(batch)
    BY <2>1 DEF ToSet
  <2>3. m \in ToSet(queue[q])
    BY <2>1 DEF ToSet, m
  <2>4. m \in Msgs
    BY <1>1, <2>1 DEF m
  <2> QED  BY <2>2, <2>3, <2>4
<1> HIDE DEF batch, m
<1>5. ToSet(heard[s] \o batch) = ToSet(heard[s]) \cup ToSet(batch)
  BY <1>1, <1>3, OnceConcat
<1>6. heard' = [heard EXCEPT ![s] = heard[s] \o batch]
  BY DEF Hear, batch
<1>7. heard'[s] = heard[s] \o batch /\ \A t \in Sessions \ {s} : heard'[t] = heard[t]
  BY <1>1, <1>6
<1>8. \A t \in Sessions : ToSet(heard[t]) \subseteq ToSet(heard'[t])
  BY <1>5, <1>7
<1>9. m \in Unheard
  <2> SUFFICES ASSUME NEW t \in Sessions, m \in ToSet(heard[t])
               PROVE  FALSE
    BY <1>4 DEF Unheard
  <2>1. <<"queue", q>> \in Places /\ <<"heard", t>> \in Places /\ <<"queue", q>> # <<"heard", t>>
    BY DEF Places
  <2>2. At(<<"queue", q>>) = ToSet(queue[q]) /\ At(<<"heard", t>>) = ToSet(heard[t])
    BY AtPlaces
  <2> QED  BY <1>4, <2>1, <2>2 DEF PlaceInv, Apart
<1>10. m \notin Unheard'
  BY <1>4, <1>5, <1>7 DEF Unheard
<1> QED  BY <1>8, <1>9, <1>10 DEF Unheard

\* Each step of Run ends the cycle or lowers its rank.
LEMMA RunStepFalls ==
    ASSUME LoopAssumption, IInv, PlaceInv, CycleInv, RunStep, run # "select"
    PROVE  run' = "select" \/ CycleFalls
<1>1. Unheard' = Unheard \/ heard' # heard
  BY DEF Unheard
<1>2. CASE EndTurn
  BY <1>1, <1>2 DEF EndTurn, Return, CycleFalls, LoopsLeft, Step, RunOrder
<1>3. CASE Check
  BY <1>1, <1>3 DEF Check, CycleFalls, LoopsLeft, Step, RunOrder
<1>4. CASE Cancel
  <2>1. ~second /\ second' /\ heard' = heard
    BY <1>4 DEF Cancel, CycleInv, PhaseOK
  <2> QED  BY <1>1, <2>1 DEF CycleFalls, LoopsLeft
<1>5. CASE Continue
  BY <1>1, <1>5 DEF Continue, GiveUp, Return, CycleFalls, LoopsLeft, Step, RunOrder
<1>6. CASE Dequeue
  <2>1. run = "dequeue" /\ to[cur] \in Sessions /\ Fallback(to[cur]) \in Queues
    BY <1>6, FallbackQueue DEF Dequeue, IInv, RunOK, Sessions, Queues
  <2>2. CASE queue[Fallback(to[cur])] # <<>>
    BY <1>6, <2>1, <2>2, HearHears DEF Dequeue, CycleFalls
  <2>3. CASE queue[Fallback(to[cur])] = <<>>
    BY <1>1, <1>6, <2>3 DEF Dequeue, GiveUp, Return, CycleFalls, LoopsLeft, Step, RunOrder
  <2> QED  BY <2>2, <2>3
<1>7. CASE EndResumed
  <2>1. run = "resume" /\ heard' = heard
    BY <1>7 DEF EndResumed
  <2>2. \/ UNCHANGED second /\ run' \in {"check", "publish"}
        \/ run' = "select"
    BY <1>7, EndResumedCases DEF GiveUp, Return
  <2> QED  BY <1>1, <2>1, <2>2 DEF CycleFalls, LoopsLeft, Step, RunOrder
<1>8. CASE Publish
  BY <1>8 DEF Publish, Return
<1>9. CASE Take \/ TakeSystem
  BY <1>9 DEF Take, TakeSystem
<1> QED  BY <1>2, <1>3, <1>4, <1>5, <1>6, <1>7, <1>8, <1>9 DEF RunStep

\* What the others do does not touch the rank, or lowers it.
LEMMA OthersSpareCycle ==
    ASSUME LoopAssumption, IInv, PlaceInv, [Next]_vars, ~RunStep
    PROVE  CycleFalls \/ CycleRests
<1>1. UNCHANGED <<run, second>>
  BY DEF Next, vars, runVars, Steer, Arrive, OtherBegin, OtherEnd, TurnStep, FirstPoll, Poll, LastPoll,
         DrainStep, DrainReceive, DrainEnd, DrainSteer, DrainRequeue
<1>2. LoopsLeft' = LoopsLeft /\ Step' = Step
  BY <1>1 DEF LoopsLeft, Step
<1>3. CASE UNCHANGED heard
  BY <1>2, <1>3 DEF CycleRests, Unheard
<1>4. CASE heard' # heard
  <2>1. PICK c \in Callers : TurnStep(c)
    BY <1>4 DEF Next, vars, Steer, Arrive, OtherBegin, OtherEnd, DrainStep, DrainReceive, DrainEnd,
                DrainSteer, DrainRequeue
  <2>2. turn[c].scope \in Sessions /\ turn[c].phase \in {"first", "body"}
    BY <2>1 DEF TurnStep, FirstPoll, Poll, LastPoll, IInv, TurnOK
  <2>3. Fallback(turn[c].scope) \in Queues /\ turn[c].scope \in Queues
    BY <2>2, FallbackQueue DEF Queues
  <2>4. \E q \in Queues : queue[q] # <<>> /\ Hear(turn[c].scope, q)
    BY <1>4, <2>1, <2>3 DEF TurnStep, FirstPoll, Poll, LastPoll
  <2> QED  BY <2>2, <2>4, HearHears DEF CycleFalls
<1> QED  BY <1>3, <1>4

\* Every cycle makes progress: from every rank Run comes back to its select or
\* to a lower rank, if Run is scheduled, can take a step until then, and users
\* send a finite number of messages.  There is no infinite chain of ranks
\* (RanksWellFounded), so that the continuation loops end (RunComesBack,
\* loop.go:545-602).
THEOREM LoopProgress ==
    ASSUME IsFiniteSet(Msgs), NEW r \in Ranks(3)
    PROVE  Spec /\ WF_vars(RunStep) /\ []RunCanGo
             => ((run # "select" /\ CycleRank = r) ~> (run = "select" \/ Lower(3, CycleRank, r)))
<1> DEFINE Here == run # "select" /\ CycleRank = r
           On == run = "select" \/ Lower(3, CycleRank, r)
           Kept == IInv /\ PlaceInv /\ CycleInv
<1>1. IInv /\ Here /\ IInv' /\ CycleFalls => On'
  <2> SUFFICES ASSUME IInv, Here, IInv', CycleFalls
               PROVE  On'
    OBVIOUS
  <2> DEFINE a == Cardinality(Unheard)
             b == Cardinality(Unheard')
  <2>1. IsFiniteSet(Unheard) /\ Unheard' \subseteq Unheard
    BY FS_Subset DEF Unheard, CycleFalls
  <2>2. a \in Nat /\ b \in Nat /\ b <= a /\ (Unheard' # Unheard => b < a)
    BY <2>1, Fewer, Zenon
  <2> HIDE DEF a, b
  <2>3. LoopsLeft \in Nat /\ LoopsLeft' \in Nat
    BY DEF LoopsLeft
  <2>4. Step \in Nat /\ Step' \in Nat
    BY DEF Step, RunOrder, IInv, RunOK
  <2>5. b < a \/ (b = a /\ LoopsLeft' < LoopsLeft) \/ (b = a /\ LoopsLeft' = LoopsLeft /\ Step' < Step)
    BY <2>2 DEF CycleFalls
  <2>6. Lower(3, <<b, LoopsLeft', Step'>>, <<a, LoopsLeft, Step>>)
    BY <2>2, <2>3, <2>4, <2>5, LowerOfThree
  <2> QED  BY <2>6 DEF CycleRank, a, b
<1>2. Here /\ CycleRests => run' = "select" \/ Here'
  BY DEF CycleRests, CycleRank
<1>3. Kept /\ Kept' /\ Here /\ <<RunStep>>_vars => On'
  BY <1>1, LoopAssumption, RunStepFalls
<1>4. Kept /\ Kept' /\ Here /\ [Next]_vars => Here' \/ On'
  BY <1>1, <1>2, LoopAssumption, RunStepFalls, OthersSpareCycle
<1>5. (run = "select" => On) /\ (Here => run # "select")
  OBVIOUS
<1>6. Spec => []Kept
  BY LoopInvariant, LoopPlaces, LoopCycles, PTL
<1>7. WF_vars(RunStep) /\ []RunCanGo => []<>(run = "select") \/ []<><<RunStep>>_vars
  BY PTL DEF RunCanGo
<1> HIDE DEF Here, On, Kept
<1>8. Spec /\ WF_vars(RunStep) /\ []RunCanGo => (Here ~> On)
  BY <1>3, <1>4, <1>5, <1>6, <1>7, PTL DEF Spec
<1> QED  BY <1>8, PTL DEF Here, On

-------------------------------------------------------------------------------
(* Why a drain ends *)

\* Whoever takes the head of the bus leaves less to drain.
LEMMA BusEmpties ==
    ASSUME IInv, PlaceInv, inbound # <<>>, inbound' = Tail(inbound), to' = to
    PROVE  Waiting' # Waiting /\ Waiting' \subseteq Waiting
<1>1. inbound \in Seq(Msgs) /\ inbound \in Seq(Sent) /\ Once(inbound)
  BY DEF IInv, BusOK, PlaceInv, OnceOK
<1>2. Head(inbound) \in ToSet(inbound) /\ ToSet(inbound') = ToSet(inbound) \ {Head(inbound)}
  BY <1>1, OnceTail
<1>3. Head(inbound) \in Sent
  BY <1>1, TailTyped
<1> QED  BY <1>2, <1>3 DEF Waiting, Sent

\* A message waits once: it is sent, stays on the bus, and is taken from it.
LEMMA WaitingShrinks ==
    ASSUME IInv, PlaceInv, [Next]_vars
    PROVE  Waiting' \subseteq Waiting
<1>1. CASE UNCHANGED <<to, inbound>>
  BY <1>1 DEF Waiting
<1>2. ASSUME NEW m \in Msgs, NEW s \in Chats \cup {System}, Arrive(m, s)
      PROVE  Waiting' \subseteq Waiting
  <2>1. inbound \in Seq(Msgs) /\ to \in [Msgs -> Chats \cup {System, Manual, None}]
    BY DEF IInv, BusOK
  <2>2. to[m] = None /\ to' = [to EXCEPT ![m] = s] /\ inbound' = Append(inbound, m)
    BY <1>2 DEF Arrive
  <2>3. ToSet(inbound') = ToSet(inbound) \cup {m} /\ \A n \in Msgs \ {m} : to'[n] = to[n]
    BY <2>1, <2>2, OnceAppend
  <2> QED  BY <2>2, <2>3 DEF Waiting
<1>3. ASSUME NEW m \in Msgs, Steer(m)
      PROVE  Waiting' \subseteq Waiting
  <2>1. to \in [Msgs -> Chats \cup {System, Manual, None}]
    BY DEF IInv, BusOK
  <2>2. to[m] = None /\ to' = [to EXCEPT ![m] = Manual] /\ inbound' = inbound
    BY <1>3 DEF Steer
  <2>3. \A n \in Msgs \ {m} : to'[n] = to[n]
    BY <2>1, <2>2
  <2> QED  BY <2>2, <2>3 DEF Waiting
<1>4. CASE Take \/ TakeSystem \/ \E d \in Msgs : DrainReceive(d)
  BY <1>4, BusEmpties DEF Take, TakeSystem, DrainReceive
<1>5. CASE \/ \E s \in Sessions : OtherBegin(s)
           \/ \E c \in Callers : TurnStep(c)
           \/ OtherEnd \/ EndTurn \/ Check \/ Cancel \/ Continue \/ Dequeue \/ EndResumed \/ Publish
           \/ \E d \in Msgs : DrainEnd(d) \/ DrainSteer(d) \/ DrainRequeue(d)
           \/ UNCHANGED vars
  <2>1. UNCHANGED <<to, inbound>>
    BY <1>5 DEF OtherBegin, TurnStep, FirstPoll, Poll, LastPoll, OtherEnd, EndTurn, Check, Cancel, Continue,
                Dequeue, EndResumed, Publish, DrainEnd, DrainSteer, DrainRequeue, vars
  <2> QED  BY <1>1, <2>1
<1> QED  BY <1>2, <1>3, <1>4, <1>5 DEF Next, RunStep, DrainStep

\* A step of a drain that is to leave ends it or lowers its rank.
LEMMA DrainStepFalls ==
    ASSUME IInv, PlaceInv, NEW d \in Msgs, Leaving(d), DrainStep(d)
    PROVE  drain'[d].st = "done" \/ (Leaving(d)' /\ DrainFalls(d))
<1>1. drain \in [Msgs -> [st : {"none", "blocking", "draining", "holding", "done"},
                          held : Msgs \cup {None}, cancelled : BOOLEAN]]
  BY DEF IInv, DrainOK
<1>2. CASE DrainReceive(d)
  <2>1. drain'[d].st = "holding"
    BY <1>1, <1>2 DEF DrainReceive
  <2>2. Waiting' # Waiting /\ Waiting' \subseteq Waiting
    BY <1>2, BusEmpties DEF DrainReceive
  <2> QED  BY <2>1, <2>2 DEF Leaving, DrainFalls
<1>3. CASE DrainEnd(d)
  BY <1>1, <1>3 DEF DrainEnd
<1>4. CASE DrainSteer(d) \/ DrainRequeue(d)
  <2>1. drain[d].st = "holding" /\ drain'[d].st = "draining" /\ UNCHANGED <<to, inbound>>
    BY <1>1, <1>4 DEF DrainSteer, DrainRequeue
  <2>2. Waiting' = Waiting /\ HandsLeft(d)' < HandsLeft(d)
    BY <2>1 DEF Waiting, HandsLeft
  <2> QED  BY <2>1, <2>2 DEF Leaving, DrainFalls
<1> QED  BY <1>2, <1>3, <1>4 DEF DrainStep

\* No other step stops a drain, or brings it back into its blocking select: the
\* message that Run takes is a new one, and starts a drain of its own.
LEMMA OthersSpareDrain ==
    ASSUME LoopAssumption, IInv, PlaceInv, NEW d \in Msgs, Leaving(d), [Next]_vars, ~DrainStep(d)
    PROVE  Leaving(d)' /\ (DrainFalls(d) \/ DrainRests(d))
<1>1. drain \in [Msgs -> [st : {"none", "blocking", "draining", "holding", "done"},
                          held : Msgs \cup {None}, cancelled : BOOLEAN]]
  BY DEF IInv, DrainOK
<1>2. drain'[d].st = drain[d].st /\ (drain[d].cancelled => drain'[d].cancelled)
  <2>1. CASE Take
    <3>1. Head(inbound) \in ToSet(inbound) /\ Head(inbound) \in Msgs
      BY <2>1, OnceTail, TailTyped DEF Take, IInv, BusOK, PlaceInv, OnceOK
    <3>2. PICK s \in Sessions : d \in ToSet(heard[s])
      BY DEF PlaceInv, HandOK, Leaving
    <3>3. <<"inbound", None>> \in Places /\ <<"heard", s>> \in Places /\ <<"inbound", None>> # <<"heard", s>>
      BY DEF Places
    <3>4. At(<<"inbound", None>>) = ToSet(inbound) /\ At(<<"heard", s>>) = ToSet(heard[s])
      BY AtPlaces
    <3>5. Head(inbound) # d
      BY <3>1, <3>2, <3>3, <3>4 DEF PlaceInv, Apart
    <3> QED  BY <1>1, <2>1, <3>5 DEF Take
  <2>2. CASE UNCHANGED drain \/ CancelDrain
    BY <1>1, <2>2 DEF CancelDrain
  <2>3. ASSUME NEW e \in Msgs, DrainStep(e)
        PROVE  drain'[d] = drain[d]
    BY <1>1, <2>3 DEF DrainStep, DrainReceive, DrainEnd, DrainSteer, DrainRequeue
  <2>4. CASE Continue \/ Dequeue
    BY <2>2, <2>4 DEF Continue, Dequeue, GiveUp
  <2>5. CASE EndResumed
    BY <2>2, <2>5, EndResumedCases DEF GiveUp
  <2>6. CASE \/ \E m \in Msgs : Steer(m) \/ \E s \in Chats \cup {System} : Arrive(m, s)
             \/ \E s \in Sessions : OtherBegin(s)
             \/ \E c \in Callers : TurnStep(c)
             \/ OtherEnd \/ TakeSystem \/ EndTurn \/ Check \/ Cancel \/ Publish \/ UNCHANGED vars
    <3>1. UNCHANGED drain \/ CancelDrain
      BY <2>6 DEF Steer, Arrive, OtherBegin, TurnStep, FirstPoll, Poll, LastPoll, OtherEnd, TakeSystem, EndTurn,
                  Check, Cancel, Publish, vars
    <3> QED  BY <2>2, <3>1
  <2> QED  BY <2>1, <2>3, <2>4, <2>5, <2>6 DEF Next, RunStep
<1>3. Leaving(d)' /\ HandsLeft(d)' = HandsLeft(d)
  BY <1>2 DEF Leaving, HandsLeft
<1>4. Waiting' \subseteq Waiting
  BY WaitingShrinks
<1> QED  BY <1>3, <1>4 DEF DrainFalls, DrainRests

\* Every drain that is cancelled, or has left its blocking select, makes
\* progress: from every rank it comes to its end or to a lower rank, if its
\* goroutine is scheduled and users send a finite number of messages.  A cycle
\* leaves no other drain (DrainsLeave), so that none is leaked (DrainsEnd,
\* loop.go:616-681).
THEOREM DrainProgress ==
    ASSUME IsFiniteSet(Msgs), NEW d \in Msgs, NEW r \in Ranks(2)
    PROVE  Spec /\ WF_vars(DrainStep(d)) /\ []DrainCanGo(d)
             => ((Leaving(d) /\ DrainRank(d) = r)
                   ~> (drain[d].st = "done" \/ (Leaving(d) /\ Lower(2, DrainRank(d), r))))
<1> DEFINE Here == Leaving(d) /\ DrainRank(d) = r
           On == drain[d].st = "done" \/ (Leaving(d) /\ Lower(2, DrainRank(d), r))
           Kept == IInv /\ PlaceInv
           Go == DrainStep(d)
           Busy == Leaving(d)
<1>1. Here /\ Leaving(d)' /\ DrainFalls(d) => On'
  <2> SUFFICES ASSUME Here, Leaving(d)', DrainFalls(d)
               PROVE  On'
    OBVIOUS
  <2> DEFINE a == Cardinality(Waiting)
             b == Cardinality(Waiting')
  <2>1. IsFiniteSet(Waiting) /\ Waiting' \subseteq Waiting
    BY FS_Subset DEF Waiting, DrainFalls
  <2>2. a \in Nat /\ b \in Nat /\ b <= a /\ (Waiting' # Waiting => b < a)
    BY <2>1, Fewer, Zenon
  <2> HIDE DEF a, b
  <2>3. HandsLeft(d) \in Nat /\ HandsLeft(d)' \in Nat
    BY DEF HandsLeft
  <2>4. b < a \/ (b = a /\ HandsLeft(d)' < HandsLeft(d))
    BY <2>2 DEF DrainFalls
  <2>5. Lower(2, <<b, HandsLeft(d)'>>, <<a, HandsLeft(d)>>)
    BY <2>2, <2>3, <2>4, LowerOfTwo
  <2> QED  BY <2>5 DEF DrainRank, a, b
<1>2. Here /\ Leaving(d)' /\ DrainRests(d) => Here'
  BY DEF DrainRests, DrainRank
<1>3. Kept /\ Here /\ <<Go>>_vars => On'
  BY <1>1, DrainStepFalls
<1>4. Kept /\ Here /\ [Next]_vars => Here' \/ On'
  BY <1>1, <1>2, LoopAssumption, DrainStepFalls, OthersSpareDrain
<1>5. Here => Busy
  OBVIOUS
<1>6. Spec => []Kept
  BY LoopInvariant, LoopPlaces, PTL
<1> HIDE DEF Here, On, Kept, Go, Busy
<1>7. Spec /\ WF_vars(Go) /\ [](Busy => ENABLED <<Go>>_vars) => (Here ~> On)
  BY <1>3, <1>4, <1>5, <1>6, PTL DEF Spec
<1> QED  BY <1>7, PTL DEF Here, On, Go, Busy, DrainCanGo

\* A drain that Run no longer waits with has been cancelled, or is done.
THEOREM DrainsLeave ==
    Spec => [](\A d \in Msgs : drain[d].st \notin {"none", "done"} =>
                  Leaving(d) \/ (cur = d /\ run # "select" /\ ~second))
<1>1. IInv /\ CycleInv =>
        \A d \in Msgs : drain[d].st \notin {"none", "done"} =>
           Leaving(d) \/ (cur = d /\ run # "select" /\ ~second)
  <2> SUFFICES ASSUME IInv, CycleInv, NEW d \in Msgs, drain[d].st \notin {"none", "done"}, ~Leaving(d)
               PROVE  cur = d /\ run # "select" /\ ~second
    OBVIOUS
  <2>1. drain[d].st = "blocking" /\ ~drain[d].cancelled
    BY DEF IInv, DrainOK, Leaving
  <2> QED  BY <2>1 DEF CycleInv, PhaseOK
<1> QED  BY <1>1, LoopInvariant, LoopCycles, PTL
===============================================================================
