--------------------------- MODULE ConnectionProofs ---------------------------
(***************************************************************************)
(* Proofs about what connects the program with others: the channels to the   *)
(* platforms, the hook processes and the tool servers.                       *)
(*                                                                          *)
(* Delivery: what a lane shows is in the order of the bus, nothing is lost   *)
(* while the manager runs, and a typing indicator ends.  WeCom: every answer *)
(* is in one place, so that the user sees none twice, and none is passed     *)
(* over.  Hooks: an approval is of the very call it was asked for, for any   *)
(* number of calls, processes and reloads.  ToolServers: Close takes the     *)
(* session of no call away, for any number of servers, turns and rounds.     *)
(***************************************************************************)
EXTENDS Delivery, WeCom, Hooks, ToolServers, Integers, FiniteSetTheorems, TLAPS

(***************************************************************************)
(* The channel manager: what the invariant says of the values of one lane    *)
(* and of one sender.                                                        *)
(***************************************************************************)

Active == {"token", "send", "backoff"}
Triples == Senders \X Nat \X Nat
SenderRecords == [pc : Active \cup {"idle", "done"}, msg : Nat, chunk : Nat, try : Nat]
DispatcherRecords == [pc : {"idle", "enqueue", "off"}, msg : Nat]

\* The messages of a queue increase, between two bounds.
Increasing(q, low, high) ==
    /\ q \in Seq(Nat)
    /\ \A i \in DOMAIN q : low < q[i] /\ q[i] <= high
    /\ \A i, j \in DOMAIN q : i < j => q[i] < q[j]

\* The chunks shown are in order, and none is later than chunk c of message m.
NoLater(a, m, c) == a[2] < m \/ (a[2] = m /\ a[3] <= c)
Ordered(sh, m, c) ==
    /\ sh \in Seq(Triples)
    /\ \A i \in DOMAIN sh : NoLater(sh[i], m, c)
    /\ \A i, j \in DOMAIN sh : i < j => NoLater(sh[i], sh[j][2], sh[j][3])

\* A sender that is at rest has done with its message, chunks and all.
ShownUpto(r) == IF r.pc \in Active THEN r.chunk ELSE 2
SenderGood(s, r, sh) ==
    /\ r \in SenderRecords
    /\ r.pc \in Active => /\ 0 < r.msg /\ 0 < r.chunk /\ r.chunk <= ChunksOf(s, r.msg)
                          /\ r.try <= MaxResends
    /\ r.pc = "backoff" => r.try < MaxResends
    /\ r.pc \in {"idle", "done"} => r.chunk = 0 /\ r.try = 0
    /\ Ordered(sh, r.msg, ShownUpto(r))

\* The messages of a lane pass from the bus to the dispatcher, the queue and the
\* worker, each behind those before it.
LaneGood(n, p, d, q, r) ==
    /\ p \in Nat /\ p <= n
    /\ d \in DispatcherRecords /\ d.msg <= p
    /\ Len(q) <= QueueSize
    /\ Increasing(q, r.msg, d.msg)
    /\ r.msg <= d.msg
    /\ d.pc = "enqueue" => /\ 0 < d.msg /\ r.msg < d.msg
                           /\ \A i \in DOMAIN q : q[i] < d.msg

\* Each message a dispatcher has taken is somewhere, and the chunks before the
\* one its worker is at are settled.
InHands(l, d, q, r, S, K, m) ==
    \/ <<l, m>> \in K
    \/ m = d.msg /\ d.pc # "idle"
    \/ \E i \in DOMAIN q : q[i] = m
    \/ m = r.msg /\ r.pc # "idle"
    \/ \A c \in 1..ChunksOf(l, m) : <<l, m, c>> \in S
LaneSettled(l, d, q, r, S, K) ==
    /\ \A m \in 1..d.msg : InHands(l, d, q, r, S, K, m)
    /\ r.pc \in Active => \A c \in {1, 2} : c < r.chunk => <<l, r.msg, c>> \in S
Settled(l) == givenUp \cup {shown[l][i] : i \in DOMAIN shown[l]}

GivenUpGood(w, G) == \A c \in G : c[1] \in Senders /\ c[2] \in 1..w[c[1]] /\ c[3] \in {1, 2}

AtMostOne(S) == S = {} \/ \E i \in Inbounds : S = {i}
InOK ==
    /\ arrivals \in [Inbounds -> {"new", "typing", "recorded", "published"}]
    /\ AtMostOne(typing) /\ AtMostOne(placeholder) /\ typingOn \subseteq Inbounds

Reach(s) == IF s = "caller" THEN workload.caller ELSE dispatcher[s].msg
FunctionsOK ==
    /\ workload \in Workloads
    /\ published = [l \in Lanes |-> published[l]]
    /\ dispatcher = [l \in Lanes |-> dispatcher[l]]
    /\ workerQueue = [l \in Lanes |-> workerQueue[l]]
    /\ sender = [s \in Senders |-> sender[s]]
    /\ shown = [s \in Senders |-> shown[s]]
StopOK ==
    /\ closed \subseteq Lanes /\ stopAll \in {"running", "text", "media", "stopped"}
    /\ stopAll = "running" =>
        closed = {} /\ \A l \in Lanes : dispatcher[l].pc # "off" /\ sender[l].pc # "done"
SendersOK == \A s \in Senders : SenderGood(s, sender[s], shown[s])
CallerOK == sender["caller"].msg <= workload.caller
LanesOK ==
    \A l \in Lanes : LaneGood(workload[l], published[l], dispatcher[l], workerQueue[l], sender[l])
SettledOK ==
    stopAll = "running" =>
        \A l \in Lanes : LaneSettled(l, dispatcher[l], workerQueue[l], sender[l], Settled(l), skipped)

\* The inductive invariant.
DeliveryInv ==
    /\ FunctionsOK /\ StopOK /\ SendersOK /\ CallerOK /\ LanesOK
    /\ GivenUpGood(workload, givenUp) /\ InOK /\ SettledOK

-------------------------------------------------------------------------------
(* Lemmas about sequences *)

\* A later message is put behind the queue.
LEMMA IncreasingAppend ==
    ASSUME NEW q, NEW low \in Nat, NEW high \in Nat, NEW m \in Nat,
           NEW a, a = Append(q, m), Increasing(q, low, high),
           low < m, high <= m, \A i \in DOMAIN q : q[i] < m
    PROVE  /\ Increasing(a, low, m)
           /\ \A i \in DOMAIN q : i \in DOMAIN a /\ a[i] = q[i]
           /\ Len(a) = Len(q) + 1 /\ Len(q) + 1 \in DOMAIN a
           /\ a[Len(q) + 1] = m
<1>1. q \in Seq(Nat) /\ Len(q) \in Nat /\ DOMAIN q = 1..Len(q)
  BY DEF Increasing
<1>2. /\ a \in Seq(Nat) /\ Len(a) = Len(q) + 1 /\ DOMAIN a = 1..Len(q) + 1
      /\ \A i \in 1..Len(q) : a[i] = q[i]
      /\ a[Len(q) + 1] = m
  BY <1>1
<1>3. \A i \in DOMAIN q : q[i] \in Nat /\ low < q[i] /\ q[i] < m
  BY <1>1 DEF Increasing
<1>4. ASSUME NEW i \in DOMAIN a
      PROVE  a[i] \in Nat /\ low < a[i] /\ a[i] <= m /\ (i \in DOMAIN q => a[i] < m)
  BY <1>1, <1>2, <1>3, <1>4
<1>5. ASSUME NEW i \in DOMAIN a, NEW j \in DOMAIN a, i < j
      PROVE  a[i] < a[j]
  <2>1. i \in DOMAIN q /\ a[i] = q[i]
    BY <1>1, <1>2, <1>5
  <2>2. CASE j \in DOMAIN q
    BY <1>1, <1>2, <1>5, <2>1, <2>2 DEF Increasing
  <2>3. CASE j = Len(q) + 1
    BY <1>2, <1>3, <2>1, <2>3
  <2> QED  BY <1>1, <1>2, <2>2, <2>3
<1>6. Increasing(a, low, m)
  BY <1>2, <1>4, <1>5 DEF Increasing
<1> QED  BY <1>1, <1>2, <1>6

\* The first message is taken.
LEMMA IncreasingTail ==
    ASSUME NEW q, NEW low \in Nat, NEW high \in Nat, Increasing(q, low, high), q # <<>>
    PROVE  /\ Head(q) \in Nat /\ low < Head(q) /\ Head(q) <= high /\ Head(q) = q[1] /\ 1 \in DOMAIN q
           /\ Increasing(Tail(q), Head(q), high)
           /\ \A i \in DOMAIN q : q[i] = Head(q) \/ \E j \in DOMAIN Tail(q) : Tail(q)[j] = q[i]
           /\ \A j \in DOMAIN Tail(q) : \E i \in DOMAIN q : Tail(q)[j] = q[i]
           /\ Len(Tail(q)) <= Len(q)
<1>1. q \in Seq(Nat) /\ Len(q) \in Nat /\ DOMAIN q = 1..Len(q) /\ Len(q) > 0
  BY DEF Increasing
<1>2. Head(q) = q[1] /\ 1 \in DOMAIN q
  BY <1>1
<1> DEFINE t == Tail(q)
<1>3. /\ t \in Seq(Nat) /\ DOMAIN t = 1..(Len(q) - 1) /\ Len(t) = Len(q) - 1
      /\ \A j \in DOMAIN t : t[j] = q[j + 1]
  BY <1>1
<1> HIDE DEF t
<1>4. ASSUME NEW j \in DOMAIN t
      PROVE  j + 1 \in DOMAIN q /\ 1 < j + 1
  <2>1. j \in 1..(Len(q) - 1)
    BY <1>3
  <2>2. j \in Nat /\ 1 <= j /\ j <= Len(q) - 1
    BY <1>1, <2>1
  <2>3. j + 1 \in 1..Len(q) /\ 1 < j + 1
    BY <1>1, <2>2
  <2> QED  BY <1>1, <2>3
<1>5. Increasing(t, Head(q), high)
  <2>1. \A j \in DOMAIN t : Head(q) < t[j] /\ t[j] <= high
    BY <1>2, <1>3, <1>4 DEF Increasing
  <2>2. ASSUME NEW i \in DOMAIN t, NEW j \in DOMAIN t, i < j
        PROVE  t[i] < t[j]
    <3>1. i + 1 < j + 1
      BY <1>1, <1>3, <2>2
    <3> QED  BY <1>3, <1>4, <3>1 DEF Increasing
  <2> QED  BY <1>3, <2>1, <2>2 DEF Increasing
<1>6. \A i \in DOMAIN q : q[i] = Head(q) \/ \E j \in DOMAIN t : t[j] = q[i]
  <2> SUFFICES ASSUME NEW i \in DOMAIN q, i # 1
               PROVE  \E j \in DOMAIN t : t[j] = q[i]
    BY <1>2
  <2>1. i \in Nat /\ 1 <= i /\ i <= Len(q)
    BY <1>1
  <2>2. i - 1 \in 1..(Len(q) - 1) /\ (i - 1) + 1 = i
    BY <1>1, <2>1
  <2> QED  BY <1>3, <2>2
<1>7. Head(q) \in Nat /\ low < Head(q) /\ Head(q) <= high
  BY <1>1, <1>2 DEF Increasing
<1>8. \A j \in DOMAIN t : \E i \in DOMAIN q : t[j] = q[i]
  BY <1>3, <1>4
<1>9. Len(t) <= Len(q)
  BY <1>1, <1>3
<1> QED  BY <1>2, <1>5, <1>6, <1>7, <1>8, <1>9 DEF t

\* A queue whose numbers end at high ends at any higher one.
LEMMA IncreasingWider ==
    ASSUME NEW q, NEW low \in Nat, NEW high \in Nat, NEW top \in Nat, Increasing(q, low, high),
           high <= top
    PROVE  Increasing(q, low, top)
<1>1. \A i \in DOMAIN q : q[i] \in Nat
  BY DEF Increasing
<1> QED  BY <1>1 DEF Increasing

\* The order of two chunks goes on.
LEMMA NoLaterThen ==
    ASSUME NEW a \in Triples, NEW m \in Nat, NEW c \in Nat, NEW n \in Nat, NEW d \in Nat,
           NoLater(a, m, c), m < n \/ (m = n /\ c <= d)
    PROVE  NoLater(a, n, d)
<1>1. a[2] \in Nat /\ a[3] \in Nat
  BY DEF Triples
<1> QED  BY <1>1 DEF NoLater

\* What is in order up to a chunk is in order up to a later one.
LEMMA OrderedLater ==
    ASSUME NEW sh, NEW m \in Nat, NEW c \in Nat, NEW n \in Nat, NEW d \in Nat,
           Ordered(sh, m, c), m < n \/ (m = n /\ c <= d)
    PROVE  Ordered(sh, n, d)
<1>1. \A i \in DOMAIN sh : sh[i] \in Triples
  BY DEF Ordered
<1>2. \A i \in DOMAIN sh : NoLater(sh[i], n, d)
  BY <1>1, NoLaterThen DEF Ordered
<1> QED  BY <1>2 DEF Ordered

\* The chunk that a sender is at may be shown.
LEMMA OrderedAppend ==
    ASSUME NEW sh, NEW m \in Nat, NEW c \in Nat, NEW s \in Senders, Ordered(sh, m, c)
    PROVE  /\ Ordered(Append(sh, <<s, m, c>>), m, c)
           /\ \A i \in DOMAIN sh : /\ i \in DOMAIN Append(sh, <<s, m, c>>)
                                   /\ Append(sh, <<s, m, c>>)[i] = sh[i]
           /\ \E i \in DOMAIN Append(sh, <<s, m, c>>) : Append(sh, <<s, m, c>>)[i] = <<s, m, c>>
<1> DEFINE t == <<s, m, c>>
           a == Append(sh, t)
<1>1. t \in Triples /\ t[2] = m /\ t[3] = c
  BY DEF Triples
<1>2. sh \in Seq(Triples) /\ Len(sh) \in Nat /\ DOMAIN sh = 1..Len(sh)
  BY DEF Ordered
<1> HIDE DEF t
<1>3. /\ a \in Seq(Triples) /\ DOMAIN a = 1..Len(sh) + 1
      /\ \A i \in 1..Len(sh) : a[i] = sh[i]
      /\ a[Len(sh) + 1] = t
  BY <1>1, <1>2
<1> HIDE DEF a
<1>4. NoLater(t, m, c)
  BY <1>1 DEF NoLater
<1>5. \A i \in DOMAIN a : NoLater(a[i], m, c)
  BY <1>2, <1>3, <1>4 DEF Ordered
<1>6. ASSUME NEW i \in DOMAIN a, NEW j \in DOMAIN a, i < j
      PROVE  NoLater(a[i], a[j][2], a[j][3])
  <2>1. i \in DOMAIN sh /\ a[i] = sh[i]
    BY <1>2, <1>3, <1>6
  <2>2. CASE j \in DOMAIN sh
    BY <1>2, <1>3, <1>6, <2>1, <2>2 DEF Ordered
  <2>3. CASE j = Len(sh) + 1
    BY <1>1, <1>3, <1>5, <2>3
  <2> QED  BY <1>2, <1>3, <2>2, <2>3
<1>7. Ordered(a, m, c)
  BY <1>3, <1>5, <1>6 DEF Ordered
<1>8. Len(sh) + 1 \in DOMAIN a
  BY <1>2, <1>3
<1> QED  BY <1>2, <1>3, <1>7, <1>8 DEF a, t

-------------------------------------------------------------------------------
(* What a sender does with the chunk it is at *)

\* The fields of a worker's or caller's record.
LEMMA SenderFields ==
    ASSUME NEW r \in SenderRecords
    PROVE  /\ r.pc \in Active \cup {"idle", "done"} /\ r.msg \in Nat /\ r.chunk \in Nat
           /\ r.try \in Nat /\ ShownUpto(r) \in Nat
  BY DEF SenderRecords, ShownUpto

\* A message has one chunk or two.
LEMMA OneOrTwo ==
    ASSUME NEW s, NEW m
    PROVE  ChunksOf(s, m) \in {1, 2}
  BY DEF ChunksOf

\* The chunk in hand, shown once or again, keeps the order.
LEMMA OrderedShown ==
    ASSUME NEW s \in Senders, NEW m \in Nat, NEW c \in Nat, NEW sh, NEW y, Ordered(sh, m, c),
           y = sh \/ y = Append(sh, <<s, m, c>>)
    PROVE  Ordered(y, m, c)
<1>1. Ordered(Append(sh, <<s, m, c>>), m, c)
  BY OrderedAppend
<1> QED  BY <1>1, Zenon

\* The sender stays at its chunk, which may have been shown.
LEMMA SenderStays ==
    ASSUME NEW s \in Senders, NEW r, NEW sh, NEW x \in SenderRecords, NEW y,
           SenderGood(s, r, sh), r.pc \in Active, x.pc \in Active,
           x.msg = r.msg, x.chunk = r.chunk, x.try <= MaxResends,
           x.pc = "backoff" => x.try < MaxResends,
           y = sh \/ y = Append(sh, <<s, r.msg, r.chunk>>)
    PROVE  SenderGood(s, x, y)
<1>1. r \in SenderRecords /\ r.msg \in Nat /\ r.chunk \in Nat
  BY SenderFields DEF SenderGood
<1>2. ShownUpto(r) = r.chunk /\ ShownUpto(x) = r.chunk
  BY DEF ShownUpto
<1>3. Ordered(sh, r.msg, r.chunk)
  BY <1>2 DEF SenderGood
<1>4. Ordered(y, r.msg, r.chunk)
  BY <1>1, <1>3, OrderedShown, Zenon
<1>5. ~(x.pc \in {"idle", "done"})
  BY DEF Active
<1> QED  BY <1>2, <1>4, <1>5 DEF SenderGood

\* The sender goes on to the next chunk, or has done with the message.
Following(s, r) ==
    IF r.chunk < ChunksOf(s, r.msg)
      THEN [r EXCEPT !.pc = "token", !.chunk = @ + 1, !.try = 0]
      ELSE [Quiet EXCEPT !.msg = r.msg, !.pc = IF s = "caller" THEN "done" ELSE "idle"]

\* A worker's record after a chunk: the next chunk of its message, or none.
LEMMA FollowingFields ==
    ASSUME NEW s \in Senders, NEW r \in SenderRecords
    PROVE  LET x == Following(s, r) IN
           /\ x \in SenderRecords /\ x.msg = r.msg /\ x.try = 0
           /\ r.chunk < ChunksOf(s, r.msg) => x.pc = "token" /\ x.chunk = r.chunk + 1
           /\ ~(r.chunk < ChunksOf(s, r.msg)) =>
                x.chunk = 0 /\ x.pc = (IF s = "caller" THEN "done" ELSE "idle")
<1>1. r.msg \in Nat /\ r.chunk \in Nat
  BY SenderFields
<1>2. CASE r.chunk < ChunksOf(s, r.msg)
  <2> DEFINE k == r.chunk + 1
             x == [r EXCEPT !.pc = "token", !.chunk = k, !.try = 0]
  <2>1. Following(s, r) = x
    BY <1>2, Zenon DEF Following
  <2>2. k \in Nat /\ k = r.chunk + 1
    BY <1>1
  <2> HIDE DEF k
  <2>3. x \in SenderRecords /\ x.msg = r.msg /\ x.try = 0 /\ x.pc = "token" /\ x.chunk = k
    BY <2>2 DEF SenderRecords, Active
  <2> QED  BY <1>2, <2>1, <2>2, <2>3
<1>3. CASE ~(r.chunk < ChunksOf(s, r.msg))
  <2> DEFINE w == IF s = "caller" THEN "done" ELSE "idle"
             x == [Quiet EXCEPT !.msg = r.msg, !.pc = w]
  <2>1. Following(s, r) = x
    BY <1>3, Zenon DEF Following
  <2>2. w \in {"idle", "done"}
    OBVIOUS
  <2>3. w = (IF s = "caller" THEN "done" ELSE "idle")
    OBVIOUS
  <2> HIDE DEF w
  <2>4. x \in SenderRecords /\ x.msg = r.msg /\ x.try = 0 /\ x.pc = w /\ x.chunk = 0
    BY <1>1, <2>2 DEF SenderRecords, Active, Quiet
  <2> QED  BY <1>3, <2>1, <2>3, <2>4
<1> QED  BY <1>2, <1>3

\* A worker that has done with its chunk fits what has been shown.
LEMMA SenderMoves ==
    ASSUME DeliveryAssumption, NEW s \in Senders, NEW r, NEW sh, NEW y,
           SenderGood(s, r, sh), r.pc \in Active,
           y = sh \/ y = Append(sh, <<s, r.msg, r.chunk>>)
    PROVE  SenderGood(s, Following(s, r), y)
<1> DEFINE x == Following(s, r)
<1>1. r \in SenderRecords /\ r.msg \in Nat /\ r.chunk \in Nat /\ 0 < r.msg /\ 0 < r.chunk
      /\ r.chunk <= ChunksOf(s, r.msg) /\ ChunksOf(s, r.msg) \in {1, 2}
  BY SenderFields, OneOrTwo DEF SenderGood
<1>2. /\ x \in SenderRecords /\ x.msg = r.msg /\ x.try = 0
      /\ r.chunk < ChunksOf(s, r.msg) => x.pc = "token" /\ x.chunk = r.chunk + 1
      /\ ~(r.chunk < ChunksOf(s, r.msg)) =>
           x.chunk = 0 /\ x.pc = (IF s = "caller" THEN "done" ELSE "idle")
  BY <1>1, FollowingFields
<1> HIDE DEF x
<1>3. ShownUpto(r) = r.chunk
  BY DEF ShownUpto
<1>4. Ordered(y, r.msg, r.chunk)
  <2>1. Ordered(sh, r.msg, r.chunk)
    BY <1>3 DEF SenderGood
  <2> QED  BY <1>1, <2>1, OrderedShown, Zenon
<1>5. MaxResends \in Nat
  BY DEF DeliveryAssumption
<1>6. CASE r.chunk < ChunksOf(s, r.msg)
  <2>1. x.pc = "token" /\ x.chunk = r.chunk + 1
    BY <1>2, <1>6
  <2>2. ShownUpto(x) = r.chunk + 1
    BY <2>1 DEF ShownUpto, Active
  <2>3. Ordered(y, x.msg, ShownUpto(x))
    BY <1>1, <1>2, <1>4, <2>2, OrderedLater
  <2>4. x.chunk <= ChunksOf(s, x.msg) /\ 0 < x.chunk /\ x.try <= MaxResends
    BY <1>1, <1>2, <1>5, <1>6, <2>1
  <2> QED  BY <1>1, <1>2, <2>1, <2>3, <2>4 DEF SenderGood, x
<1>7. CASE ~(r.chunk < ChunksOf(s, r.msg))
  <2>1. x.chunk = 0 /\ x.pc \in {"idle", "done"}
    BY <1>2, <1>7
  <2>2. ShownUpto(x) = 2 /\ ~(x.pc \in Active) /\ x.pc # "backoff"
    BY <2>1 DEF ShownUpto, Active
  <2>3. Ordered(y, x.msg, ShownUpto(x))
    BY <1>1, <1>2, <1>4, <2>2, OrderedLater
  <2> QED  BY <1>2, <2>1, <2>2, <2>3 DEF SenderGood, x
<1> QED  BY <1>6, <1>7

-------------------------------------------------------------------------------
(* What is settled stays settled *)

\* A message that is accounted for still is when more is settled or skipped.
LEMMA InHandsLater ==
    ASSUME NEW l, NEW d, NEW q, NEW r, NEW S, NEW K, NEW T, NEW J, NEW m,
           InHands(l, d, q, r, S, K, m), S \subseteq T, K \subseteq J
    PROVE  InHands(l, d, q, r, T, J, m)
  BY Zenon DEF InHands

\* So are all messages of a lane.
LEMMA SettledLater ==
    ASSUME NEW l, NEW d, NEW q, NEW r, NEW S, NEW K, NEW T, NEW J,
           LaneSettled(l, d, q, r, S, K), S \subseteq T, K \subseteq J
    PROVE  LaneSettled(l, d, q, r, T, J)
<1>1. \A m \in 1..d.msg : InHands(l, d, q, r, T, J, m)
  BY InHandsLater DEF LaneSettled
<1>2. r.pc \in Active => \A c \in {1, 2} : c < r.chunk => <<l, r.msg, c>> \in T
  BY DEF LaneSettled
<1> QED  BY <1>1, <1>2 DEF LaneSettled

\* The worker stays at its chunk.
LEMMA SettledStays ==
    ASSUME NEW l, NEW d, NEW q, NEW r, NEW S, NEW K, NEW T, NEW x,
           LaneSettled(l, d, q, r, S, K), S \subseteq T, r.pc \in Active, x.pc \in Active,
           x.msg = r.msg, x.chunk = r.chunk
    PROVE  LaneSettled(l, d, q, x, T, K)
<1>1. LaneSettled(l, d, q, r, T, K)
  BY SettledLater
<1>2. r.pc # "idle" /\ x.pc # "idle"
  BY DEF Active
<1>3. ASSUME NEW m \in 1..d.msg
      PROVE  InHands(l, d, q, x, T, K, m)
  <2>1. InHands(l, d, q, r, T, K, m)
    BY <1>1 DEF LaneSettled
  <2> QED  BY <1>2, <2>1, Zenon DEF InHands
<1> QED  BY <1>1, <1>3 DEF LaneSettled

\* The worker has settled its chunk.
LEMMA SettledMoves ==
    ASSUME NEW l \in Lanes, NEW d, NEW q, NEW r, NEW sh, NEW S, NEW K, NEW T,
           SenderGood(l, r, sh), LaneSettled(l, d, q, r, S, K), S \subseteq T, r.pc \in Active,
           <<l, r.msg, r.chunk>> \in T
    PROVE  LaneSettled(l, d, q, Following(l, r), T, K)
<1> DEFINE x == Following(l, r)
<1>1. r \in SenderRecords /\ r.msg \in Nat /\ r.chunk \in Nat /\ 0 < r.msg /\ 0 < r.chunk
      /\ r.chunk <= ChunksOf(l, r.msg) /\ ChunksOf(l, r.msg) \in {1, 2} /\ l \in Senders
  BY SenderFields, OneOrTwo DEF SenderGood, Senders
<1>2. /\ x \in SenderRecords /\ x.msg = r.msg
      /\ r.chunk < ChunksOf(l, r.msg) => x.pc = "token" /\ x.chunk = r.chunk + 1
      /\ ~(r.chunk < ChunksOf(l, r.msg)) => x.chunk = 0 /\ x.pc = "idle"
  BY <1>1, FollowingFields DEF Lanes
<1> HIDE DEF x
<1>3. LaneSettled(l, d, q, r, T, K)
  BY SettledLater
<1>4. \A c \in {1, 2} : c <= r.chunk => <<l, r.msg, c>> \in T
  BY <1>1, <1>3 DEF LaneSettled
<1>5. ASSUME NEW m \in 1..d.msg
      PROVE  InHands(l, d, q, x, T, K, m)
  <2>1. InHands(l, d, q, r, T, K, m)
    BY <1>3 DEF LaneSettled
  <2>2. CASE r.chunk < ChunksOf(l, r.msg)
    <3>1. x.pc # "idle" /\ x.msg = r.msg
      BY <1>2, <2>2
    <3> QED  BY <2>1, <3>1, Zenon DEF InHands
  <2>3. CASE ~(r.chunk < ChunksOf(l, r.msg)) /\ m = r.msg
    <3>1. \A c \in 1..ChunksOf(l, m) : <<l, m, c>> \in T
      BY <1>1, <1>4, <2>3
    <3> QED  BY <3>1, Zenon DEF InHands
  <2>4. CASE m # r.msg
    BY <2>1, <2>4, Zenon DEF InHands
  <2> QED  BY <2>2, <2>3, <2>4
<1>6. x.pc \in Active => \A c \in {1, 2} : c < x.chunk => <<l, x.msg, c>> \in T
  <2>1. CASE r.chunk < ChunksOf(l, r.msg)
    BY <1>1, <1>2, <1>4, <2>1
  <2>2. CASE ~(r.chunk < ChunksOf(l, r.msg))
    BY <1>2, <2>2 DEF Active
  <2> QED  BY <2>1, <2>2
<1> QED  BY <1>5, <1>6 DEF LaneSettled, x

-------------------------------------------------------------------------------
(* Steps of one sender, and steps of one lane *)

\* A step of a worker keeps the invariant of its lane.
LEMMA SenderStepKeeps ==
    ASSUME DeliveryInv, NEW s \in Senders, NEW x, NEW y,
           UNCHANGED <<workload, published, dispatcher, workerQueue, closed, stopAll, skipped>>,
           sender' = [sender EXCEPT ![s] = x], shown' = [shown EXCEPT ![s] = y],
           SenderGood(s, x, y), s \in Lanes => x.msg = sender[s].msg,
           s = "caller" => x.msg <= workload.caller,
           stopAll = "running" /\ s \in Lanes =>
             /\ x.pc # "done"
             /\ LaneSettled(s, dispatcher[s], workerQueue[s], x, Settled(s)', skipped),
           givenUp \subseteq givenUp', GivenUpGood(workload, givenUp'), InOK'
    PROVE  DeliveryInv'
<1>1. /\ workload' = workload /\ published' = published /\ dispatcher' = dispatcher
      /\ workerQueue' = workerQueue /\ closed' = closed /\ stopAll' = stopAll /\ skipped' = skipped
  OBVIOUS
<1>2. Lanes \subseteq Senders /\ "caller" \in Senders /\ "caller" \notin Lanes
  BY DEF Lanes, Senders
<1>3. \A t \in Senders : t # s => sender'[t] = sender[t] /\ shown'[t] = shown[t]
  BY DEF DeliveryInv, FunctionsOK
<1>4. sender'[s] = x /\ shown'[s] = y
  BY DEF DeliveryInv, FunctionsOK
<1>5. FunctionsOK'
  BY <1>1 DEF DeliveryInv, FunctionsOK
<1>6. SendersOK'
  <2>1. \A t \in Senders : SenderGood(t, sender'[t], shown'[t])
    BY <1>3, <1>4 DEF DeliveryInv, SendersOK
  <2> QED  BY <2>1 DEF SendersOK
<1>7. CallerOK'
  BY <1>1, <1>2, <1>3, <1>4 DEF DeliveryInv, CallerOK
<1>8. LanesOK'
  <2>1. ASSUME NEW l \in Lanes
        PROVE  LaneGood(workload[l], published[l], dispatcher[l], workerQueue[l], sender'[l])
    <3>1. LaneGood(workload[l], published[l], dispatcher[l], workerQueue[l], sender[l])
      BY DEF DeliveryInv, LanesOK
    <3>2. sender'[l].msg = sender[l].msg
      BY <1>2, <1>3, <1>4
    <3> QED  BY <3>1, <3>2, Zenon DEF LaneGood
  <2> QED  BY <1>1, <2>1 DEF LanesOK
<1>9. StopOK'
  BY <1>1, <1>2, <1>3, <1>4 DEF DeliveryInv, StopOK
<1>10. SettledOK'
  <2>1. ASSUME stopAll = "running", NEW l \in Lanes
        PROVE  LaneSettled(l, dispatcher[l], workerQueue[l], sender'[l], Settled(l)', skipped)
    <3>1. CASE l = s
      BY <1>4, <2>1, <3>1
    <3>2. CASE l # s
      <4>1. sender'[l] = sender[l] /\ shown'[l] = shown[l]
        BY <1>2, <1>3, <3>2
      <4>2. Settled(l) \subseteq Settled(l)'
        BY <4>1 DEF Settled
      <4>3. LaneSettled(l, dispatcher[l], workerQueue[l], sender[l], Settled(l), skipped)
        BY <2>1 DEF DeliveryInv, SettledOK
      <4>4. LaneSettled(l, dispatcher[l], workerQueue[l], sender[l], Settled(l)', skipped)
        BY <4>2, <4>3, SettledLater
      <4> QED  BY <4>1, <4>4
    <3> QED  BY <3>1, <3>2
  <2> QED  BY <1>1, <2>1 DEF SettledOK
<1>11. GivenUpGood(workload, givenUp)'
  BY <1>1
<1> QED  BY <1>5, <1>6, <1>7, <1>8, <1>9, <1>10, <1>11 DEF DeliveryInv

\* So does a step that concerns no worker.
LEMMA LaneStepKeeps ==
    ASSUME DeliveryInv, NEW l \in Lanes, NEW p, NEW d, NEW q, NEW r,
           UNCHANGED <<workload, closed, stopAll, shown, givenUp>>,
           published' = [published EXCEPT ![l] = p], dispatcher' = [dispatcher EXCEPT ![l] = d],
           workerQueue' = [workerQueue EXCEPT ![l] = q], sender' = [sender EXCEPT ![l] = r],
           LaneGood(workload[l], p, d, q, r), SenderGood(l, r, shown[l]),
           stopAll = "running" =>
             /\ d.pc # "off" /\ r.pc # "done"
             /\ LaneSettled(l, d, q, r, Settled(l), skipped'),
           skipped \subseteq skipped', InOK'
    PROVE  DeliveryInv'
<1>1. /\ workload' = workload /\ closed' = closed /\ stopAll' = stopAll
      /\ shown' = shown /\ givenUp' = givenUp
  OBVIOUS
<1>2. Lanes \subseteq Senders /\ "caller" \in Senders /\ "caller" \notin Lanes
  BY DEF Lanes, Senders
<1>3. /\ published'[l] = p /\ dispatcher'[l] = d /\ workerQueue'[l] = q /\ sender'[l] = r
      /\ \A k \in Lanes : k # l => /\ published'[k] = published[k] /\ dispatcher'[k] = dispatcher[k]
                                   /\ workerQueue'[k] = workerQueue[k]
      /\ \A t \in Senders : t # l => sender'[t] = sender[t]
  BY <1>2 DEF DeliveryInv, FunctionsOK
<1>4. FunctionsOK'
  <2>1. published' = [k \in Lanes |-> published'[k]]
    BY DEF DeliveryInv, FunctionsOK
  <2>2. dispatcher' = [k \in Lanes |-> dispatcher'[k]]
    BY DEF DeliveryInv, FunctionsOK
  <2>3. workerQueue' = [k \in Lanes |-> workerQueue'[k]]
    BY DEF DeliveryInv, FunctionsOK
  <2>4. sender' = [t \in Senders |-> sender'[t]]
    BY DEF DeliveryInv, FunctionsOK
  <2>5. workload' \in Workloads /\ shown' = [s \in Senders |-> shown'[s]]
    BY <1>1 DEF DeliveryInv, FunctionsOK
  <2> QED  BY <2>1, <2>2, <2>3, <2>4, <2>5 DEF FunctionsOK
<1>5. SendersOK'
  <2>1. \A t \in Senders : SenderGood(t, sender'[t], shown[t])
    BY <1>3 DEF DeliveryInv, SendersOK
  <2> QED  BY <1>1, <2>1 DEF SendersOK
<1>6. CallerOK'
  BY <1>1, <1>2, <1>3 DEF DeliveryInv, CallerOK
<1>7. LanesOK'
  <2>1. ASSUME NEW k \in Lanes
        PROVE  LaneGood(workload[k], published'[k], dispatcher'[k], workerQueue'[k], sender'[k])
    <3>1. CASE k = l
      BY <1>3, <3>1
    <3>2. CASE k # l
      BY <1>2, <1>3, <3>2 DEF DeliveryInv, LanesOK
    <3> QED  BY <3>1, <3>2
  <2> QED  BY <1>1, <2>1 DEF LanesOK
<1>8. StopOK'
  BY <1>1, <1>2, <1>3 DEF DeliveryInv, StopOK
<1>9. SettledOK'
  <2>1. ASSUME stopAll = "running", NEW k \in Lanes
        PROVE  LaneSettled(k, dispatcher'[k], workerQueue'[k], sender'[k], Settled(k), skipped')
    <3>1. CASE k = l
      BY <1>3, <2>1, <3>1
    <3>2. CASE k # l
      <4>1. LaneSettled(k, dispatcher[k], workerQueue[k], sender[k], Settled(k), skipped)
        BY <2>1 DEF DeliveryInv, SettledOK
      <4>2. LaneSettled(k, dispatcher[k], workerQueue[k], sender[k], Settled(k), skipped')
        BY <4>1, SettledLater
      <4> QED  BY <1>2, <1>3, <3>2, <4>2
    <3> QED  BY <3>1, <3>2
  <2>2. \A k \in Lanes : Settled(k)' = Settled(k)
    BY <1>1 DEF Settled
  <2> QED  BY <1>1, <2>1, <2>2 DEF SettledOK
<1>10. GivenUpGood(workload, givenUp)'
  BY <1>1 DEF DeliveryInv
<1> QED  BY <1>4, <1>5, <1>6, <1>7, <1>8, <1>9, <1>10 DEF DeliveryInv

-------------------------------------------------------------------------------
(* The steps of the senders *)

\* A workload counts messages.
LEMMA WorkloadNat ==
    ASSUME DeliveryAssumption, DeliveryInv
    PROVE  /\ \A s \in Senders : workload[s] \in Nat
           /\ workload.caller = workload["caller"] /\ workload["caller"] \in {0, 1}
           /\ workload.inbound \subseteq Inbounds
<1>1. workload \in Workloads
  BY DEF DeliveryInv, FunctionsOK
<1>2. workload.text \in Nat /\ workload.media \in Nat /\ workload.caller \in {0, 1}
      /\ workload.inbound \subseteq Inbounds
  BY <1>1 DEF DeliveryAssumption
<1> QED  BY <1>2 DEF Senders, Lanes

\* What the invariant says of one worker.
LEMMA SenderFacts ==
    ASSUME DeliveryAssumption, DeliveryInv, NEW s \in Senders
    PROVE  /\ SenderGood(s, sender[s], shown[s])
           /\ sender[s] \in SenderRecords /\ sender[s].msg \in Nat /\ sender[s].chunk \in Nat
           /\ sender[s].try \in Nat /\ sender[s].msg <= workload[s]
           /\ sender[s].pc \in Active =>
                /\ sender[s].msg \in 1..workload[s] /\ sender[s].chunk \in {1, 2}
                /\ sender[s].try <= MaxResends
           /\ sender[s].pc = "backoff" => sender[s].try < MaxResends
<1>1. SenderGood(s, sender[s], shown[s])
  BY DEF DeliveryInv, SendersOK
<1>2. sender[s] \in SenderRecords /\ sender[s].msg \in Nat /\ sender[s].chunk \in Nat
      /\ sender[s].try \in Nat
  BY <1>1, SenderFields DEF SenderGood
<1>3. workload[s] \in Nat
  BY WorkloadNat
<1>4. sender[s].msg <= workload[s]
  <2>1. CASE s = "caller"
    BY <2>1, WorkloadNat DEF DeliveryInv, CallerOK
  <2>2. CASE s \in Lanes
    <3>1. LaneGood(workload[s], published[s], dispatcher[s], workerQueue[s], sender[s])
      BY <2>2 DEF DeliveryInv, LanesOK
    <3>2. dispatcher[s].msg \in Nat /\ published[s] \in Nat
      BY <3>1 DEF LaneGood, DispatcherRecords
    <3>3. sender[s].msg <= dispatcher[s].msg /\ dispatcher[s].msg <= published[s]
          /\ published[s] <= workload[s]
      BY <3>1 DEF LaneGood
    <3> QED  BY <1>2, <1>3, <3>2, <3>3
  <2> QED  BY <2>1, <2>2 DEF Senders
<1>5. sender[s].pc \in Active =>
        /\ sender[s].msg \in 1..workload[s] /\ sender[s].chunk \in {1, 2}
        /\ sender[s].try <= MaxResends
  <2> SUFFICES ASSUME sender[s].pc \in Active
               PROVE  /\ sender[s].msg \in 1..workload[s] /\ sender[s].chunk \in {1, 2}
                      /\ sender[s].try <= MaxResends
    OBVIOUS
  <2>1. /\ 0 < sender[s].msg /\ 0 < sender[s].chunk
        /\ sender[s].chunk <= ChunksOf(s, sender[s].msg) /\ sender[s].try <= MaxResends
    BY <1>1 DEF SenderGood
  <2>2. ChunksOf(s, sender[s].msg) \in {1, 2}
    BY OneOrTwo
  <2> QED  BY <1>2, <1>3, <1>4, <2>1, <2>2
<1>6. sender[s].pc = "backoff" => sender[s].try < MaxResends
  BY <1>1 DEF SenderGood
<1> QED  BY <1>1, <1>2, <1>4, <1>5, <1>6

\* What a step of a sender tells: its chunk is shown or not, given up or not.
Told(s) ==
    /\ Show(s) \/ shown' = shown
    /\ givenUp' = givenUp \/ givenUp' = givenUp \cup {Chunk(s)}

\* What is shown grows at its end.
LEMMA AppendGrows ==
    ASSUME NEW sh \in Seq(Triples), NEW t \in Triples, NEW a, a = Append(sh, t)
    PROVE  /\ \A i \in DOMAIN sh : i \in DOMAIN a /\ a[i] = sh[i]
           /\ \E i \in DOMAIN a : a[i] = t
<1> HIDE DEF Triples
<1>1. Len(sh) \in Nat /\ DOMAIN sh = 1..Len(sh) /\ DOMAIN a = 1..Len(sh) + 1
  OBVIOUS
<1>2. \A i \in DOMAIN sh : i \in DOMAIN a /\ a[i] = sh[i]
  BY <1>1
<1>3. Len(sh) + 1 \in DOMAIN a /\ a[Len(sh) + 1] = t
  BY <1>1
<1> QED  BY <1>2, <1>3

\* A chunk is shown, or its loss is reported.
LEMMA TellKeeps ==
    ASSUME DeliveryAssumption, DeliveryInv, NEW s \in Senders, sender[s].pc \in Active, Told(s)
    PROVE  /\ shown' = [shown EXCEPT ![s] = shown'[s]]
           /\ \/ shown'[s] = shown[s]
              \/ shown'[s] = Append(shown[s], <<s, sender[s].msg, sender[s].chunk>>)
           /\ givenUp \subseteq givenUp' /\ GivenUpGood(workload, givenUp')
           /\ Settled(s) \subseteq Settled(s)'
           /\ Show(s) \/ Chunk(s) \in givenUp' => Chunk(s) \in Settled(s)'
<1> DEFINE t == <<s, sender[s].msg, sender[s].chunk>>
<1>1. Chunk(s) = t
  BY DEF Chunk
<1>2. SenderGood(s, sender[s], shown[s]) /\ sender[s].msg \in Nat /\ sender[s].chunk \in Nat
      /\ sender[s].msg \in 1..workload[s] /\ sender[s].chunk \in {1, 2}
  BY SenderFacts
<1>3. shown = [r \in Senders |-> shown[r]]
  BY DEF DeliveryInv, FunctionsOK
<1>4. t[1] = s /\ t[2] = sender[s].msg /\ t[3] = sender[s].chunk
  OBVIOUS
<1> HIDE DEF t
<1>5. Show(s) => shown' = [shown EXCEPT ![s] = Append(shown[s], t)]
  BY <1>1 DEF Show
<1>6. Show(s) => shown'[s] = Append(shown[s], t)
  BY <1>3, <1>5
<1>7. shown' = [shown EXCEPT ![s] = shown'[s]]
  BY <1>3, <1>5 DEF Told
<1>8. GivenUpGood(workload, givenUp')
  BY <1>1, <1>2, <1>4 DEF Told, GivenUpGood, DeliveryInv
<1>9. Ordered(shown[s], sender[s].msg, sender[s].chunk)
  BY <1>2 DEF SenderGood, ShownUpto
<1>10. Show(s) => /\ \A i \in DOMAIN shown[s] : i \in DOMAIN shown'[s] /\ shown'[s][i] = shown[s][i]
                  /\ \E i \in DOMAIN shown'[s] : shown'[s][i] = t
  <2>1. t \in Triples
    BY <1>2 DEF Triples, t
  <2>2. shown[s] \in Seq(Triples)
    BY <1>9 DEF Ordered
  <2> QED  BY <1>6, <2>1, <2>2, AppendGrows
<1>11. Settled(s) \subseteq Settled(s)'
  BY <1>10 DEF Told, Settled
<1>12. Show(s) \/ Chunk(s) \in givenUp' => Chunk(s) \in Settled(s)'
  BY <1>1, <1>10 DEF Settled
<1>13. shown'[s] = shown[s] \/ shown'[s] = Append(shown[s], t)
  BY <1>6 DEF Told
<1> QED  BY <1>7, <1>8, <1>11, <1>12, <1>13 DEF t, Told

LaneUnchanged == UNCHANGED <<workload, published, dispatcher, workerQueue, closed, stopAll, skipped>>

\* The sender stays at its chunk.
LEMMA StayStep ==
    ASSUME DeliveryAssumption, DeliveryInv, NEW s \in Senders, NEW x \in SenderRecords,
           sender[s].pc \in Active, Told(s), Turn(s, x), LaneUnchanged, InOK',
           x.pc \in Active, x.msg = sender[s].msg, x.chunk = sender[s].chunk,
           x.try <= MaxResends, x.pc = "backoff" => x.try < MaxResends
    PROVE  DeliveryInv'
<1>1. /\ shown' = [shown EXCEPT ![s] = shown'[s]]
      /\ \/ shown'[s] = shown[s]
         \/ shown'[s] = Append(shown[s], <<s, sender[s].msg, sender[s].chunk>>)
      /\ givenUp \subseteq givenUp' /\ GivenUpGood(workload, givenUp')
      /\ Settled(s) \subseteq Settled(s)'
  BY TellKeeps
<1>2. SenderGood(s, sender[s], shown[s])
  BY SenderFacts
<1>3. SenderGood(s, x, shown'[s])
  BY <1>1, <1>2, SenderStays
<1>4. sender' = [sender EXCEPT ![s] = x]
  BY DEF Turn
<1>5. x.pc # "done"
  BY DEF Active
<1>6. stopAll = "running" /\ s \in Lanes =>
        LaneSettled(s, dispatcher[s], workerQueue[s], x, Settled(s)', skipped)
  <2> SUFFICES ASSUME stopAll = "running", s \in Lanes
               PROVE  LaneSettled(s, dispatcher[s], workerQueue[s], x, Settled(s)', skipped)
    OBVIOUS
  <2>1. LaneSettled(s, dispatcher[s], workerQueue[s], sender[s], Settled(s), skipped)
    BY DEF DeliveryInv, SettledOK
  <2> QED  BY <1>1, <2>1, SettledStays
<1>7. s = "caller" => x.msg <= workload.caller
  BY DEF DeliveryInv, CallerOK
<1> QED  BY <1>1, <1>3, <1>4, <1>5, <1>6, <1>7, SenderStepKeeps DEF LaneUnchanged

\* The sender goes on, with its chunk settled or the context done.
LEMMA MoveStep ==
    ASSUME DeliveryAssumption, DeliveryInv, NEW s \in Senders,
           sender[s].pc \in Active, Told(s), Turn(s, NextChunk(s)), LaneUnchanged, InOK',
           Show(s) \/ Chunk(s) \in givenUp' \/ s = "caller" \/ stopAll # "running"
    PROVE  DeliveryInv'
<1> DEFINE x == Following(s, sender[s])
<1>1. /\ shown' = [shown EXCEPT ![s] = shown'[s]]
      /\ \/ shown'[s] = shown[s]
         \/ shown'[s] = Append(shown[s], <<s, sender[s].msg, sender[s].chunk>>)
      /\ givenUp \subseteq givenUp' /\ GivenUpGood(workload, givenUp')
      /\ Settled(s) \subseteq Settled(s)'
      /\ Show(s) \/ Chunk(s) \in givenUp' => Chunk(s) \in Settled(s)'
  BY TellKeeps
<1>2. SenderGood(s, sender[s], shown[s]) /\ sender[s] \in SenderRecords
  BY SenderFacts
<1>3. SenderGood(s, x, shown'[s])
  BY <1>1, <1>2, SenderMoves
<1>4. x.msg = sender[s].msg /\ (s # "caller" => x.pc # "done")
  BY <1>2, FollowingFields
<1>5. NextChunk(s) = x
  BY Zenon DEF NextChunk, Following
<1> HIDE DEF x
<1>6. sender' = [sender EXCEPT ![s] = x]
  BY <1>5 DEF Turn
<1>7. ASSUME stopAll = "running", s \in Lanes
      PROVE  x.pc # "done" /\ LaneSettled(s, dispatcher[s], workerQueue[s], x, Settled(s)', skipped)
  <2>1. s # "caller"
    BY <1>7 DEF Lanes
  <2>2. LaneSettled(s, dispatcher[s], workerQueue[s], sender[s], Settled(s), skipped)
    BY <1>7 DEF DeliveryInv, SettledOK
  <2>3. <<s, sender[s].msg, sender[s].chunk>> \in Settled(s)'
    BY <1>1, <1>7, <2>1 DEF Chunk
  <2>4. LaneSettled(s, dispatcher[s], workerQueue[s], x, Settled(s)', skipped)
    BY <1>1, <1>2, <1>7, <2>2, <2>3, SettledMoves DEF x
  <2> QED  BY <1>4, <2>1, <2>4
<1>8. s = "caller" => x.msg <= workload.caller
  BY <1>4 DEF DeliveryInv, CallerOK
<1> QED  BY <1>1, <1>3, <1>4, <1>6, <1>7, <1>8, SenderStepKeeps DEF LaneUnchanged

\* The changes of one field of a sender.
LEMMA PcRecord ==
    ASSUME NEW r \in SenderRecords, NEW w \in Active \cup {"idle", "done"}
    PROVE  LET x == [r EXCEPT !.pc = w] IN
           x \in SenderRecords /\ x.pc = w /\ x.msg = r.msg /\ x.chunk = r.chunk /\ x.try = r.try
  BY DEF SenderRecords

\* The record of a worker that tries again.
LEMMA AgainRecord ==
    ASSUME NEW r \in SenderRecords
    PROVE  LET x == [r EXCEPT !.pc = "send", !.try = @ + 1] IN
           x \in SenderRecords /\ x.pc = "send" /\ x.msg = r.msg /\ x.chunk = r.chunk
           /\ x.try = r.try + 1
<1> DEFINE k == r.try + 1
<1>1. r.try \in Nat /\ k \in Nat
  BY DEF SenderRecords
<1>2. [r EXCEPT !.pc = "send", !.try = @ + 1] = [r EXCEPT !.pc = "send", !.try = k]
  BY Zenon
<1>3. k = r.try + 1
  OBVIOUS
<1> HIDE DEF k
<1> QED  BY <1>1, <1>2, <1>3 DEF SenderRecords, Active

\* Typing indicators and placeholders that no step touches.
LEMMA InStays ==
    ASSUME InOK, UNCHANGED <<arrivals, typing, placeholder, typingOn>>
    PROVE  InOK'
<1>1. arrivals' = arrivals /\ typing' = typing /\ placeholder' = placeholder /\ typingOn' = typingOn
  OBVIOUS
<1> QED  BY <1>1 DEF InOK, AtMostOne

\* preSend: the placeholder, the typing indicator.
LEMMA PreSendKeeps ==
    ASSUME DeliveryAssumption, DeliveryInv, NEW s \in Senders, PreSend(s)
    PROVE  DeliveryInv'
<1>1. sender[s].pc = "token" /\ sender[s].pc \in Active
  BY DEF PreSend, Active
<1>2. arrivals' = arrivals /\ LaneUnchanged /\ givenUp' = givenUp
  BY DEF PreSend, SendUnchanged, LaneUnchanged
<1>3. InOK'
  <2>1. CASE s = "media"
    <3>1. UNCHANGED <<typing, typingOn, placeholder>>
      BY <2>1 DEF PreSend
    <3> QED  BY <1>2, <3>1, InStays DEF DeliveryInv
  <2>2. CASE s # "media"
    <3>1. typingOn' = typingOn \ typing /\ typing' = {} /\ placeholder' = {}
      BY <2>2 DEF PreSend
    <3> QED  BY <1>2, <3>1 DEF DeliveryInv, InOK, AtMostOne
  <2> QED  BY <2>1, <2>2
<1>4. /\ sender[s] \in SenderRecords /\ sender[s].try <= MaxResends
  BY <1>1, SenderFacts
<1>5. CASE Show(s) /\ Turn(s, NextChunk(s))
  <2>1. Told(s)
    BY <1>2, <1>5 DEF Told
  <2> QED  BY <1>1, <1>2, <1>3, <1>5, <2>1, MoveStep
<1>6. CASE (Show(s) \/ shown' = shown) /\ Turn(s, [sender[s] EXCEPT !.pc = "send"])
  <2> DEFINE x == [sender[s] EXCEPT !.pc = "send"]
  <2>1. Told(s)
    BY <1>2, <1>6 DEF Told
  <2>2. /\ x \in SenderRecords /\ x.pc = "send" /\ x.msg = sender[s].msg
        /\ x.chunk = sender[s].chunk /\ x.try = sender[s].try
    BY <1>4, PcRecord DEF Active
  <2>3. x.pc \in Active /\ x.pc # "backoff" /\ x.try <= MaxResends
    BY <1>4, <2>2 DEF Active
  <2>4. Turn(s, x)
    BY <1>6
  <2> HIDE DEF x
  <2> QED  BY <1>1, <1>2, <1>3, <2>1, <2>2, <2>3, <2>4, StayStep
<1> QED  BY <1>5, <1>6 DEF PreSend

\* A worker finds its context cancelled.
LEMMA CanceledKeeps ==
    ASSUME DeliveryAssumption, DeliveryInv, NEW s \in Senders, Canceled(s)
    PROVE  DeliveryInv'
<1>1. /\ sender[s].pc \in Active /\ Turn(s, NextChunk(s)) /\ LaneUnchanged
      /\ UNCHANGED <<arrivals, typing, placeholder, typingOn>> /\ shown' = shown /\ givenUp' = givenUp
      /\ stopAll # "running"
  BY DEF Canceled, Active, SendUnchanged, LaneUnchanged, Stops, Cancelled
<1>2. InOK' /\ Told(s)
  BY <1>1, InStays DEF DeliveryInv, Told
<1> QED  BY <1>1, <1>2, MoveStep

\* A send, which may fail after the platform has shown it.
LEMMA SendChunkKeeps ==
    ASSUME DeliveryAssumption, DeliveryInv, NEW s \in Senders, SendChunk(s)
    PROVE  DeliveryInv'
<1>1. /\ sender[s].pc = "send" /\ sender[s].pc \in Active /\ LaneUnchanged
      /\ UNCHANGED <<arrivals, typing, placeholder, typingOn>>
  BY DEF SendChunk, Active, SendUnchanged, LaneUnchanged, Retry
<1>2. InOK'
  BY <1>1, InStays DEF DeliveryInv
<1>3. CASE Show(s) /\ Turn(s, NextChunk(s)) /\ givenUp' = givenUp
  <2>1. Told(s)
    BY <1>3 DEF Told
  <2> QED  BY <1>1, <1>2, <1>3, <2>1, MoveStep
<1>4. CASE /\ Show(s) \/ shown' = shown
           /\ Turn(s, NextChunk(s)) /\ givenUp' = givenUp \cup {Chunk(s)}
  <2>1. Told(s) /\ Chunk(s) \in givenUp'
    BY <1>4 DEF Told
  <2> QED  BY <1>1, <1>2, <1>4, <2>1, MoveStep
<1>5. CASE /\ Show(s) \/ shown' = shown
           /\ sender[s].try # MaxResends
           /\ Turn(s, [sender[s] EXCEPT !.pc = "backoff"]) /\ givenUp' = givenUp
  <2> DEFINE x == [sender[s] EXCEPT !.pc = "backoff"]
  <2>1. Told(s) /\ Turn(s, x)
    BY <1>5 DEF Told
  <2>2. sender[s] \in SenderRecords /\ sender[s].try \in Nat /\ sender[s].try <= MaxResends
    BY <1>1, SenderFacts
  <2>3. /\ x \in SenderRecords /\ x.pc = "backoff" /\ x.msg = sender[s].msg
        /\ x.chunk = sender[s].chunk /\ x.try = sender[s].try
    BY <2>2, PcRecord DEF Active
  <2>4. MaxResends \in Nat
    BY DEF DeliveryAssumption
  <2> HIDE DEF x
  <2>5. x.pc \in Active /\ x.try <= MaxResends /\ x.try < MaxResends
    BY <1>5, <2>2, <2>3, <2>4 DEF Active
  <2> QED  BY <1>1, <1>2, <2>1, <2>3, <2>5, StayStep
<1> QED  BY <1>3, <1>4, <1>5, Zenon DEF SendChunk, Retry

\* The pause before the next attempt.
LEMMA BackoffKeeps ==
    ASSUME DeliveryAssumption, DeliveryInv, NEW s \in Senders, Backoff(s)
    PROVE  DeliveryInv'
<1> DEFINE x == [sender[s] EXCEPT !.pc = "send", !.try = @ + 1]
<1>1. /\ sender[s].pc = "backoff" /\ sender[s].pc \in Active /\ LaneUnchanged
      /\ UNCHANGED <<arrivals, typing, placeholder, typingOn>>
      /\ shown' = shown /\ givenUp' = givenUp /\ Turn(s, x)
  BY DEF Backoff, Active, SendUnchanged, LaneUnchanged
<1>2. InOK' /\ Told(s)
  BY <1>1, InStays DEF DeliveryInv, Told
<1>3. sender[s] \in SenderRecords /\ sender[s].try \in Nat /\ sender[s].try < MaxResends
  BY <1>1, SenderFacts
<1>4. /\ x \in SenderRecords /\ x.pc = "send" /\ x.msg = sender[s].msg
      /\ x.chunk = sender[s].chunk /\ x.try = sender[s].try + 1
  BY <1>3, AgainRecord
<1>5. MaxResends \in Nat
  BY DEF DeliveryAssumption
<1> HIDE DEF x
<1>6. x.pc \in Active /\ x.pc # "backoff" /\ x.try <= MaxResends
  BY <1>3, <1>4, <1>5 DEF Active
<1> QED  BY <1>1, <1>2, <1>4, <1>6, StayStep

-------------------------------------------------------------------------------
(* The steps of the lanes *)

\* What the invariant says of one lane.
LEMMA LaneFacts ==
    ASSUME DeliveryAssumption, DeliveryInv, NEW l \in Lanes
    PROVE  /\ l \in Senders /\ l # "caller"
           /\ LaneGood(workload[l], published[l], dispatcher[l], workerQueue[l], sender[l])
           /\ workload[l] \in Nat /\ published[l] \in Nat
           /\ dispatcher[l] \in DispatcherRecords /\ dispatcher[l].msg \in Nat
           /\ sender[l] \in SenderRecords /\ sender[l].msg \in Nat
           /\ SenderGood(l, sender[l], shown[l])
           /\ Increasing(workerQueue[l], sender[l].msg, dispatcher[l].msg)
           /\ \A i \in DOMAIN workerQueue[l] : workerQueue[l][i] \in Nat
           /\ stopAll = "running" =>
                /\ dispatcher[l].pc # "off" /\ sender[l].pc # "done"
                /\ LaneSettled(l, dispatcher[l], workerQueue[l], sender[l], Settled(l), skipped)
           /\ QueueSize \in Nat
<1>1. l \in Senders /\ l # "caller"
  BY DEF Lanes, Senders
<1>2. LaneGood(workload[l], published[l], dispatcher[l], workerQueue[l], sender[l])
  BY DEF DeliveryInv, LanesOK
<1>3. dispatcher[l] \in DispatcherRecords /\ published[l] \in Nat
      /\ Increasing(workerQueue[l], sender[l].msg, dispatcher[l].msg)
  BY <1>2 DEF LaneGood
<1>4. dispatcher[l].msg \in Nat
  BY <1>3 DEF DispatcherRecords
<1>5. \A i \in DOMAIN workerQueue[l] : workerQueue[l][i] \in Nat
  BY <1>3 DEF Increasing
<1>6. SenderGood(l, sender[l], shown[l]) /\ sender[l] \in SenderRecords /\ sender[l].msg \in Nat
  BY <1>1, SenderFacts
<1>7. workload[l] \in Nat
  BY <1>1, WorkloadNat
<1>8. stopAll = "running" =>
        /\ dispatcher[l].pc # "off" /\ sender[l].pc # "done"
        /\ LaneSettled(l, dispatcher[l], workerQueue[l], sender[l], Settled(l), skipped)
  BY DEF DeliveryInv, StopOK, SettledOK
<1>9. QueueSize \in Nat
  BY DEF DeliveryAssumption
<1> QED  BY <1>1, <1>2, <1>3, <1>4, <1>5, <1>6, <1>7, <1>8, <1>9

\* A function is what it is with one of its values written again.
LEMMA SameValues ==
    ASSUME DeliveryInv, NEW l \in Lanes
    PROVE  /\ published = [published EXCEPT ![l] = published[l]]
           /\ dispatcher = [dispatcher EXCEPT ![l] = dispatcher[l]]
           /\ workerQueue = [workerQueue EXCEPT ![l] = workerQueue[l]]
           /\ sender = [sender EXCEPT ![l] = sender[l]]
<1>1. l \in Senders
  BY DEF Lanes, Senders
<1>2. published = [published EXCEPT ![l] = published[l]]
  BY DEF DeliveryInv, FunctionsOK
<1>3. dispatcher = [dispatcher EXCEPT ![l] = dispatcher[l]]
  BY DEF DeliveryInv, FunctionsOK
<1>4. workerQueue = [workerQueue EXCEPT ![l] = workerQueue[l]]
  BY DEF DeliveryInv, FunctionsOK
<1>5. sender = [sender EXCEPT ![l] = sender[l]]
  BY <1>1 DEF DeliveryInv, FunctionsOK
<1> QED  BY <1>2, <1>3, <1>4, <1>5

\* The agent loop publishes.
LEMMA PublishOutboundKeeps ==
    ASSUME DeliveryAssumption, DeliveryInv, NEW l \in Lanes, PublishOutbound(l)
    PROVE  DeliveryInv'
<1> DEFINE p == published[l] + 1
           d == dispatcher[l]
           q == workerQueue[l]
           r == sender[l]
<1>1. /\ published[l] < workload[l] /\ published' = [published EXCEPT ![l] = p]
      /\ UNCHANGED <<workload, closed, stopAll, shown, givenUp>>
      /\ dispatcher' = dispatcher /\ workerQueue' = workerQueue /\ sender' = sender
      /\ skipped' = skipped /\ UNCHANGED <<arrivals, typing, placeholder, typingOn>>
  BY DEF PublishOutbound, senderVars, inVars
<1>2. /\ LaneGood(workload[l], published[l], d, q, r) /\ SenderGood(l, r, shown[l])
      /\ stopAll = "running" => /\ d.pc # "off" /\ r.pc # "done"
                                /\ LaneSettled(l, d, q, r, Settled(l), skipped)
      /\ published[l] \in Nat /\ workload[l] \in Nat /\ d.msg \in Nat
  BY LaneFacts
<1>3. InOK'
  BY <1>1, InStays DEF DeliveryInv
<1>4. /\ dispatcher' = [dispatcher EXCEPT ![l] = d] /\ workerQueue' = [workerQueue EXCEPT ![l] = q]
      /\ sender' = [sender EXCEPT ![l] = r]
  BY <1>1, SameValues
<1>5. LaneGood(workload[l], p, d, q, r)
  <2>1. p \in Nat /\ p <= workload[l] /\ d.msg <= p
    BY <1>1, <1>2 DEF LaneGood
  <2> HIDE DEF p, d, q, r
  <2> QED  BY <1>2, <2>1 DEF LaneGood
<1> HIDE DEF p, d, q, r
<1> QED  BY <1>1, <1>2, <1>3, <1>4, <1>5, LaneStepKeeps

\* The dispatcher takes a message, goes off, or puts it aside.
LEMMA TakenMessage ==
    ASSUME NEW l \in Lanes, NEW n \in Nat, NEW p \in Nat, NEW d, NEW q, NEW r, NEW S, NEW K, NEW x, NEW J,
           LaneGood(n, p, d, q, r), r.msg \in Nat, d.pc = "idle", d.msg < p,
           x \in DispatcherRecords, x.msg = d.msg + 1, K \subseteq J,
           x.pc = "enqueue" \/ (x.pc = "idle" /\ <<l, x.msg>> \in J)
    PROVE  /\ LaneGood(n, p, x, q, r)
           /\ LaneSettled(l, d, q, r, S, K) => LaneSettled(l, x, q, r, S, J)
<1>1. d.msg \in Nat /\ x.msg \in Nat /\ d.msg < x.msg /\ x.msg <= p /\ d.msg <= x.msg /\ 0 < x.msg
  BY DEF LaneGood, DispatcherRecords
<1>2. Increasing(q, r.msg, d.msg) /\ \A i \in DOMAIN q : q[i] \in Nat /\ q[i] <= d.msg
  BY DEF LaneGood, Increasing
<1>3. Increasing(q, r.msg, x.msg)
  BY <1>1, <1>2, IncreasingWider
<1>4. \A i \in DOMAIN q : q[i] < x.msg
  BY <1>1, <1>2
<1>5. r.msg <= x.msg /\ r.msg < x.msg
  BY <1>1 DEF LaneGood
<1>6. LaneGood(n, p, x, q, r)
  BY <1>1, <1>3, <1>4, <1>5 DEF LaneGood
<1>7. ASSUME LaneSettled(l, d, q, r, S, K)
      PROVE  LaneSettled(l, x, q, r, S, J)
  <2>1. ASSUME NEW m \in 1..x.msg
        PROVE  InHands(l, x, q, r, S, J, m)
    <3>1. CASE m \in 1..d.msg
      <4>1. InHands(l, d, q, r, S, K, m)
        BY <1>7, <3>1 DEF LaneSettled
      <4> QED  BY <4>1, Zenon DEF InHands
    <3>2. CASE m = x.msg
      <4>1. CASE x.pc = "enqueue"
        <5>1. x.pc # "idle"
          BY <4>1
        <5> QED  BY <3>2, <5>1, Zenon DEF InHands
      <4>2. CASE x.pc = "idle" /\ <<l, x.msg>> \in J
        BY <3>2, <4>2, Zenon DEF InHands
      <4> QED  BY <4>1, <4>2
    <3> QED  BY <1>1, <3>1, <3>2
  <2>2. r.pc \in Active => \A c \in {1, 2} : c < r.chunk => <<l, r.msg, c>> \in S
    BY <1>7 DEF LaneSettled
  <2> QED  BY <2>1, <2>2 DEF LaneSettled
<1> QED  BY <1>6, <1>7

\* The dispatcher goes off: its record, and what it means for the lane.
LEMMA OffRecord ==
    ASSUME NEW n, NEW p, NEW d, NEW q, NEW r, LaneGood(n, p, d, q, r)
    PROVE  LET x == [d EXCEPT !.pc = "off"] IN
           x.pc = "off" /\ LaneGood(n, p, x, q, r)
<1> DEFINE x == [d EXCEPT !.pc = "off"]
<1>1. x \in DispatcherRecords /\ x.pc = "off" /\ x.msg = d.msg
  BY DEF LaneGood, DispatcherRecords
<1> HIDE DEF x
<1> QED  BY <1>1 DEF LaneGood, x

\* A dispatcher takes the next message of the bus.
LEMMA TakeOutboundKeeps ==
    ASSUME DeliveryAssumption, DeliveryInv, NEW l \in Lanes, TakeOutbound(l)
    PROVE  DeliveryInv'
<1> DEFINE p == published[l]
           d == dispatcher[l]
           q == workerQueue[l]
           r == sender[l]
<1>1. /\ d.pc = "idle" /\ UNCHANGED <<workload, closed, stopAll, shown, givenUp>>
      /\ published' = published /\ workerQueue' = workerQueue /\ sender' = sender
      /\ UNCHANGED <<arrivals, typing, placeholder, typingOn>>
  BY DEF TakeOutbound, DispatchUnchanged, senderVars, inVars
<1>2. /\ LaneGood(workload[l], p, d, q, r) /\ SenderGood(l, r, shown[l])
      /\ stopAll = "running" => /\ d.pc # "off" /\ r.pc # "done"
                                /\ LaneSettled(l, d, q, r, Settled(l), skipped)
      /\ p \in Nat /\ workload[l] \in Nat /\ d.msg \in Nat /\ r.msg \in Nat
      /\ d \in DispatcherRecords
  BY LaneFacts
<1>3. InOK'
  BY <1>1, InStays DEF DeliveryInv
<1>4. /\ published' = [published EXCEPT ![l] = p] /\ workerQueue' = [workerQueue EXCEPT ![l] = q]
      /\ sender' = [sender EXCEPT ![l] = r]
  BY <1>1, SameValues
<1>5. ASSUME d.msg < p, Dispatch(l, [pc |-> "enqueue", msg |-> d.msg + 1]), skipped' = skipped
      PROVE  DeliveryInv'
  <2> DEFINE x == [pc |-> "enqueue", msg |-> d.msg + 1]
  <2>1. x \in DispatcherRecords /\ x.msg = d.msg + 1 /\ x.pc = "enqueue"
    BY <1>2 DEF DispatcherRecords
  <2>2. dispatcher' = [dispatcher EXCEPT ![l] = x]
    BY <1>5 DEF Dispatch
  <2> HIDE DEF x, p, d, q, r
  <2>3. /\ LaneGood(workload[l], p, x, q, r)
        /\ LaneSettled(l, d, q, r, Settled(l), skipped)
             => LaneSettled(l, x, q, r, Settled(l), skipped)
    <3> DEFINE S == Settled(l)
               K == skipped
    <3>1. K \subseteq K
      OBVIOUS
    <3> HIDE DEF S, K
    <3>2. /\ LaneGood(workload[l], p, x, q, r)
          /\ LaneSettled(l, d, q, r, S, K) => LaneSettled(l, x, q, r, S, K)
      BY <1>1, <1>2, <1>5, <2>1, <3>1, TakenMessage
    <3> QED  BY <3>2 DEF S, K
  <2>4. stopAll = "running" => /\ x.pc # "off" /\ r.pc # "done"
                               /\ LaneSettled(l, x, q, r, Settled(l), skipped')
    BY <1>2, <1>5, <2>1, <2>3
  <2> QED  BY <1>1, <1>2, <1>3, <1>4, <1>5, <2>2, <2>3, <2>4, LaneStepKeeps
<1>6. ASSUME d.msg < p, Dispatch(l, [dispatcher[l] EXCEPT !.msg = @ + 1]),
             skipped' = skipped \cup {<<l, dispatcher'[l].msg>>}
      PROVE  DeliveryInv'
  <2> DEFINE k == d.msg + 1
             x == [d EXCEPT !.msg = k]
  <2>1. k \in Nat
    BY <1>2
  <2>2. dispatcher' = [dispatcher EXCEPT ![l] = x]
    BY <1>6 DEF Dispatch
  <2>3. k = d.msg + 1
    OBVIOUS
  <2>4. x \in DispatcherRecords /\ x.msg = k /\ x.pc = "idle"
    <3> HIDE DEF k, d
    <3> QED  BY <1>1, <1>2, <2>1 DEF DispatcherRecords
  <2>5. dispatcher'[l] = x
    BY <2>2 DEF DeliveryInv, FunctionsOK
  <2>6. skipped \subseteq skipped' /\ <<l, x.msg>> \in skipped'
    BY <1>6, <2>5
  <2> HIDE DEF x, k, p, d, q, r
  <2>7. LaneGood(workload[l], p, x, q, r)
    BY <1>1, <1>2, <1>6, <2>3, <2>4, <2>6, TakenMessage
  <2>8. stopAll = "running" => /\ x.pc # "off" /\ r.pc # "done"
                               /\ LaneSettled(l, x, q, r, Settled(l), skipped')
    <3> DEFINE J == skipped'
    <3>1. skipped \subseteq J /\ <<l, x.msg>> \in J
      BY <2>6
    <3> HIDE DEF J
    <3>2. x.msg = d.msg + 1 /\ x.pc = "idle"
      BY <2>3, <2>4
    <3>3. LaneSettled(l, d, q, r, Settled(l), skipped) => LaneSettled(l, x, q, r, Settled(l), J)
      BY <1>1, <1>2, <1>6, <2>4, <3>1, <3>2, TakenMessage
    <3> QED  BY <1>2, <3>2, <3>3 DEF J
  <2> QED  BY <1>1, <1>2, <1>3, <1>4, <2>2, <2>6, <2>7, <2>8, LaneStepKeeps
<1>7. ASSUME Cancelled, Dispatch(l, [dispatcher[l] EXCEPT !.pc = "off"]), skipped' = skipped
      PROVE  DeliveryInv'
  <2> DEFINE x == [d EXCEPT !.pc = "off"]
  <2>1. dispatcher' = [dispatcher EXCEPT ![l] = x] /\ stopAll # "running"
    BY <1>7 DEF Dispatch, Cancelled
  <2> HIDE DEF p, d, q, r
  <2>2. LaneGood(workload[l], p, x, q, r)
    BY <1>2, OffRecord
  <2> HIDE DEF x
  <2> QED  BY <1>1, <1>2, <1>3, <1>4, <1>7, <2>1, <2>2, LaneStepKeeps
<1> QED  BY <1>5, <1>6, <1>7 DEF TakeOutbound

\* The dispatcher's message is put into the queue.
LEMMA PutMessage ==
    ASSUME NEW l \in Lanes, NEW n \in Nat, NEW p \in Nat, NEW d, NEW q, NEW r, NEW S, NEW K,
           LaneGood(n, p, d, q, r), r.msg \in Nat, d.pc = "enqueue",
           QueueSize \in Nat, Len(q) < QueueSize
    PROVE  LET x == [d EXCEPT !.pc = "idle"]
               y == Append(q, d.msg)
           IN /\ LaneGood(n, p, x, y, r) /\ x.pc = "idle"
              /\ LaneSettled(l, d, q, r, S, K) => LaneSettled(l, x, y, r, S, K)
<1> DEFINE x == [d EXCEPT !.pc = "idle"]
           y == Append(q, d.msg)
<1>1. d \in DispatcherRecords /\ d.msg \in Nat /\ 0 < d.msg /\ r.msg < d.msg /\ d.msg <= d.msg
  BY DEF LaneGood, DispatcherRecords
<1>2. x \in DispatcherRecords /\ x.pc = "idle" /\ x.msg = d.msg
  BY <1>1 DEF DispatcherRecords
<1>3. Increasing(q, r.msg, d.msg) /\ \A i \in DOMAIN q : q[i] < d.msg
  BY DEF LaneGood
<1>4. /\ Increasing(y, r.msg, d.msg)
      /\ \A i \in DOMAIN q : i \in DOMAIN y /\ y[i] = q[i]
      /\ Len(y) = Len(q) + 1 /\ Len(q) + 1 \in DOMAIN y /\ y[Len(q) + 1] = d.msg
  <2> HIDE DEF y
  <2>1. y = Append(q, d.msg)
    BY DEF y
  <2>2. Increasing(y, r.msg, d.msg)
    BY <1>1, <1>3, <2>1, IncreasingAppend
  <2>3. \A i \in DOMAIN q : i \in DOMAIN y /\ y[i] = q[i]
    BY <1>1, <1>3, <2>1, IncreasingAppend
  <2>4. Len(y) = Len(q) + 1
    BY <1>1, <1>3, <2>1, IncreasingAppend
  <2>5. Len(q) + 1 \in DOMAIN y /\ y[Len(q) + 1] = d.msg
    BY <1>1, <1>3, <2>1, IncreasingAppend
  <2> QED  BY <2>2, <2>3, <2>4, <2>5
<1>5. Len(q) \in Nat
  BY <1>3 DEF Increasing
<1> HIDE DEF x, y
<1>6. LaneGood(n, p, x, y, r)
  <2>1. Len(y) <= QueueSize
    BY <1>4, <1>5
  <2> QED  BY <1>1, <1>2, <1>4, <2>1 DEF LaneGood
<1>7. ASSUME LaneSettled(l, d, q, r, S, K)
      PROVE  LaneSettled(l, x, y, r, S, K)
  <2>1. ASSUME NEW m \in 1..x.msg
        PROVE  InHands(l, x, y, r, S, K, m)
    <3>1. InHands(l, d, q, r, S, K, m)
      BY <1>2, <1>7 DEF LaneSettled
    <3>2. CASE m = d.msg
      <4>1. \E i \in DOMAIN y : y[i] = m
        BY <1>4, <3>2
      <4> QED  BY <4>1, Zenon DEF InHands
    <3>3. CASE m # d.msg
      <4>1. (\E i \in DOMAIN q : q[i] = m) => \E i \in DOMAIN y : y[i] = m
        BY <1>4
      <4> QED  BY <3>1, <3>3, <4>1, Zenon DEF InHands
    <3> QED  BY <3>2, <3>3
  <2>2. r.pc \in Active => \A c \in {1, 2} : c < r.chunk => <<l, r.msg, c>> \in S
    BY <1>7 DEF LaneSettled
  <2> QED  BY <2>1, <2>2 DEF LaneSettled
<1> QED  BY <1>2, <1>6, <1>7 DEF x, y

\* A dispatcher puts it into the worker's queue, or finds that closed.
LEMMA EnqueueKeeps ==
    ASSUME DeliveryAssumption, DeliveryInv, NEW l \in Lanes, Enqueue(l)
    PROVE  DeliveryInv'
<1> DEFINE p == published[l]
           d == dispatcher[l]
           q == workerQueue[l]
           r == sender[l]
<1>1. /\ d.pc = "enqueue" /\ UNCHANGED <<workload, closed, stopAll, shown, givenUp>>
      /\ published' = published /\ sender' = sender /\ skipped' = skipped
      /\ UNCHANGED <<arrivals, typing, placeholder, typingOn>>
  BY DEF Enqueue, DispatchUnchanged, senderVars, inVars
<1>2. /\ LaneGood(workload[l], p, d, q, r) /\ SenderGood(l, r, shown[l])
      /\ stopAll = "running" => /\ d.pc # "off" /\ r.pc # "done"
                                /\ LaneSettled(l, d, q, r, Settled(l), skipped)
      /\ p \in Nat /\ workload[l] \in Nat /\ d.msg \in Nat /\ r.msg \in Nat
      /\ QueueSize \in Nat
  BY LaneFacts
<1>3. InOK'
  BY <1>1, InStays DEF DeliveryInv
<1>4. published' = [published EXCEPT ![l] = p] /\ sender' = [sender EXCEPT ![l] = r]
  BY <1>1, SameValues
<1>5. ASSUME Put(l), Dispatch(l, [dispatcher[l] EXCEPT !.pc = "idle"])
      PROVE  DeliveryInv'
  <2> DEFINE x == [d EXCEPT !.pc = "idle"]
             y == Append(q, d.msg)
  <2>1. /\ dispatcher' = [dispatcher EXCEPT ![l] = x] /\ Len(q) < QueueSize
        /\ workerQueue' = [workerQueue EXCEPT ![l] = y]
    BY <1>5 DEF Dispatch, Put
  <2> HIDE DEF p, d, q, r
  <2>2. LaneGood(workload[l], p, x, y, r) /\ x.pc = "idle"
    BY <1>1, <1>2, <2>1, PutMessage
  <2>3. LaneSettled(l, d, q, r, Settled(l), skipped) => LaneSettled(l, x, y, r, Settled(l), skipped)
    BY <1>1, <1>2, <2>1, PutMessage
  <2> HIDE DEF x, y
  <2>4. stopAll = "running" => /\ x.pc # "off" /\ r.pc # "done"
                               /\ LaneSettled(l, x, y, r, Settled(l), skipped')
    BY <1>1, <1>2, <2>2, <2>3
  <2> QED  BY <1>1, <1>2, <1>3, <1>4, <2>1, <2>2, <2>4, LaneStepKeeps
<1>6. ASSUME workerQueue' = workerQueue, dispatcher' = dispatcher
      PROVE  DeliveryInv'
  <2>1. workerQueue' = [workerQueue EXCEPT ![l] = q] /\ dispatcher' = [dispatcher EXCEPT ![l] = d]
    BY <1>6, SameValues
  <2>2. stopAll = "running" => /\ d.pc # "off" /\ r.pc # "done"
                               /\ LaneSettled(l, d, q, r, Settled(l), skipped')
    BY <1>1, <1>2
  <2> HIDE DEF p, d, q, r
  <2> QED  BY <1>1, <1>2, <1>3, <1>4, <2>1, <2>2, LaneStepKeeps
<1>7. ASSUME Cancelled, Dispatch(l, [dispatcher[l] EXCEPT !.pc = "off"]), workerQueue' = workerQueue
      PROVE  DeliveryInv'
  <2> DEFINE x == [d EXCEPT !.pc = "off"]
  <2>1. dispatcher' = [dispatcher EXCEPT ![l] = x] /\ stopAll # "running"
    BY <1>7 DEF Dispatch, Cancelled
  <2>2. workerQueue' = [workerQueue EXCEPT ![l] = q]
    BY <1>7, SameValues
  <2> HIDE DEF p, d, q, r
  <2>3. LaneGood(workload[l], p, x, q, r)
    BY <1>2, OffRecord
  <2> HIDE DEF x
  <2> QED  BY <1>1, <1>2, <1>3, <1>4, <2>1, <2>2, <2>3, LaneStepKeeps
<1> QED  BY <1>5, <1>6, <1>7 DEF Enqueue

\* The worker takes the head of its queue.
LEMMA TakenFromQueue ==
    ASSUME NEW l \in Lanes, NEW n \in Nat, NEW p \in Nat, NEW d, NEW q, NEW r, NEW S, NEW K, NEW sh,
           DeliveryAssumption, LaneGood(n, p, d, q, r), SenderGood(l, r, sh), r.msg \in Nat,
           d.msg \in Nat, r.pc = "idle", q # <<>>
    PROVE  LET x == [pc |-> "token", msg |-> Head(q), chunk |-> 1, try |-> 0] IN
           /\ LaneGood(n, p, d, Tail(q), x) /\ SenderGood(l, x, sh) /\ x.pc = "token"
           /\ LaneSettled(l, d, q, r, S, K) => LaneSettled(l, d, Tail(q), x, S, K)
<1> DEFINE h == Head(q)
           t == Tail(q)
           x == [pc |-> "token", msg |-> h, chunk |-> 1, try |-> 0]
<1>1. Increasing(q, r.msg, d.msg) /\ Len(q) <= QueueSize /\ QueueSize \in Nat
  BY DEF LaneGood, DeliveryAssumption
<1>2. /\ h \in Nat /\ r.msg < h /\ h <= d.msg /\ h = q[1] /\ 1 \in DOMAIN q
      /\ Increasing(t, h, d.msg)
      /\ \A i \in DOMAIN q : q[i] = h \/ \E j \in DOMAIN t : t[j] = q[i]
      /\ \A j \in DOMAIN t : \E i \in DOMAIN q : t[j] = q[i]
      /\ Len(t) <= Len(q)
  BY <1>1, IncreasingTail
<1>3. Len(t) \in Nat /\ Len(q) \in Nat
  BY <1>1, <1>2 DEF Increasing
<1> HIDE DEF h, t
<1>4. x \in SenderRecords /\ x.pc = "token" /\ x.msg = h /\ x.chunk = 1 /\ x.try = 0
  BY <1>2 DEF SenderRecords, Active
<1> HIDE DEF x
<1>5. LaneGood(n, p, d, t, x)
  <2>1. Len(t) <= QueueSize
    BY <1>1, <1>2, <1>3
  <2>2. d.pc = "enqueue" => /\ 0 < d.msg /\ x.msg < d.msg /\ \A j \in DOMAIN t : t[j] < d.msg
    BY <1>2, <1>4 DEF LaneGood
  <2> QED  BY <1>2, <1>4, <2>1, <2>2 DEF LaneGood
<1>6. SenderGood(l, x, sh)
  <2>1. ShownUpto(r) = 2 /\ ShownUpto(x) = 1 /\ x.pc \in Active
    BY <1>4 DEF ShownUpto, Active
  <2>2. Ordered(sh, r.msg, 2)
    BY <2>1 DEF SenderGood
  <2>3. Ordered(sh, x.msg, ShownUpto(x))
    BY <1>2, <1>4, <2>1, <2>2, OrderedLater
  <2>4. 1 <= ChunksOf(l, x.msg)
    BY OneOrTwo
  <2>5. MaxResends \in Nat
    BY DEF DeliveryAssumption
  <2> QED  BY <1>2, <1>4, <2>1, <2>3, <2>4, <2>5 DEF SenderGood
<1>7. ASSUME LaneSettled(l, d, q, r, S, K)
      PROVE  LaneSettled(l, d, t, x, S, K)
  <2>1. ASSUME NEW m \in 1..d.msg
        PROVE  InHands(l, d, t, x, S, K, m)
    <3>1. InHands(l, d, q, r, S, K, m)
      BY <1>7 DEF LaneSettled
    <3>2. (\E i \in DOMAIN q : q[i] = m) => (m = x.msg \/ \E j \in DOMAIN t : t[j] = m)
      BY <1>2, <1>4
    <3>3. x.pc # "idle"
      BY <1>4
    <3> QED  BY <3>1, <3>2, <3>3, Zenon DEF InHands
  <2>2. \A c \in {1, 2} : c < x.chunk => <<l, x.msg, c>> \in S
    BY <1>4
  <2> QED  BY <2>1, <2>2 DEF LaneSettled
<1> QED  BY <1>4, <1>5, <1>6, <1>7 DEF x, h, t

\* The worker ends.
LEMMA DoneRecord ==
    ASSUME NEW l \in Lanes, NEW n, NEW p, NEW d, NEW q, NEW r, NEW sh,
           LaneGood(n, p, d, q, r), SenderGood(l, r, sh), r.pc = "idle"
    PROVE  LET x == [r EXCEPT !.pc = "done"] IN
           LaneGood(n, p, d, q, x) /\ SenderGood(l, x, sh)
<1> DEFINE x == [r EXCEPT !.pc = "done"]
<1>1. r \in SenderRecords
  BY DEF SenderGood
<1>2. /\ x \in SenderRecords /\ x.pc = "done" /\ x.msg = r.msg /\ x.chunk = r.chunk
      /\ x.try = r.try
  BY <1>1, PcRecord
<1> HIDE DEF x
<1>3. LaneGood(n, p, d, q, x)
  BY <1>2, Zenon DEF LaneGood
<1>4. ShownUpto(x) = 2 /\ ShownUpto(r) = 2 /\ ~(x.pc \in Active)
  BY <1>2 DEF ShownUpto, Active
<1>5. SenderGood(l, x, sh)
  BY <1>2, <1>4 DEF SenderGood
<1> QED  BY <1>3, <1>5 DEF x

\* A worker takes its next message, or ends.
LEMMA TakeQueuedKeeps ==
    ASSUME DeliveryAssumption, DeliveryInv, NEW l \in Lanes, TakeQueued(l)
    PROVE  DeliveryInv'
<1> DEFINE p == published[l]
           d == dispatcher[l]
           q == workerQueue[l]
           r == sender[l]
<1>1. /\ r.pc = "idle" /\ UNCHANGED <<workload, closed, stopAll, shown, givenUp>>
      /\ published' = published /\ dispatcher' = dispatcher /\ skipped' = skipped
      /\ UNCHANGED <<arrivals, typing, placeholder, typingOn>>
  BY DEF TakeQueued, SendUnchanged
<1>2. /\ LaneGood(workload[l], p, d, q, r) /\ SenderGood(l, r, shown[l])
      /\ stopAll = "running" => /\ d.pc # "off" /\ r.pc # "done"
                                /\ LaneSettled(l, d, q, r, Settled(l), skipped)
      /\ p \in Nat /\ workload[l] \in Nat /\ d.msg \in Nat /\ r.msg \in Nat
  BY LaneFacts
<1>3. InOK'
  BY <1>1, InStays DEF DeliveryInv
<1>4. published' = [published EXCEPT ![l] = p] /\ dispatcher' = [dispatcher EXCEPT ![l] = d]
  BY <1>1, SameValues
<1>5. ASSUME workerQueue[l] # <<>>,
             Turn(l, [pc |-> "token", msg |-> Head(workerQueue[l]), chunk |-> 1, try |-> 0]),
             workerQueue' = [workerQueue EXCEPT ![l] = Tail(@)]
      PROVE  DeliveryInv'
  <2> DEFINE x == [pc |-> "token", msg |-> Head(q), chunk |-> 1, try |-> 0]
             y == Tail(q)
  <2>1. /\ sender' = [sender EXCEPT ![l] = x] /\ workerQueue' = [workerQueue EXCEPT ![l] = y]
        /\ q # <<>>
    BY <1>5 DEF Turn
  <2> HIDE DEF p, d, q, r
  <2>2. LaneGood(workload[l], p, d, y, x) /\ SenderGood(l, x, shown[l]) /\ x.pc = "token"
    BY <1>1, <1>2, <2>1, TakenFromQueue
  <2>3. LaneSettled(l, d, q, r, Settled(l), skipped) => LaneSettled(l, d, y, x, Settled(l), skipped)
    BY <1>1, <1>2, <2>1, TakenFromQueue
  <2> HIDE DEF x, y
  <2>4. stopAll = "running" => /\ d.pc # "off" /\ x.pc # "done"
                               /\ LaneSettled(l, d, y, x, Settled(l), skipped')
    BY <1>1, <1>2, <2>2, <2>3
  <2> QED  BY <1>1, <1>3, <1>4, <2>1, <2>2, <2>4, LaneStepKeeps
<1>6. ASSUME l \in closed \/ Cancelled, Turn(l, [sender[l] EXCEPT !.pc = "done"]),
             workerQueue' = workerQueue
      PROVE  DeliveryInv'
  <2> DEFINE x == [r EXCEPT !.pc = "done"]
  <2>1. sender' = [sender EXCEPT ![l] = x] /\ workerQueue' = [workerQueue EXCEPT ![l] = q]
    BY <1>6, SameValues DEF Turn
  <2>2. stopAll # "running"
    BY <1>6 DEF Cancelled, DeliveryInv, StopOK
  <2> HIDE DEF p, d, q, r
  <2>3. LaneGood(workload[l], p, d, q, x) /\ SenderGood(l, x, shown[l])
    BY <1>1, <1>2, DoneRecord
  <2> HIDE DEF x
  <2> QED  BY <1>1, <1>3, <1>4, <2>1, <2>2, <2>3, LaneStepKeeps
<1> QED  BY <1>5, <1>6 DEF TakeQueued

\* SendMessage in its caller's goroutine.
LEMMA CallSendKeeps ==
    ASSUME DeliveryAssumption, DeliveryInv, CallSend
    PROVE  DeliveryInv'
<1> DEFINE x == [pc |-> "token", msg |-> 1, chunk |-> 1, try |-> 0]
           sh == shown["caller"]
<1>1. /\ sender["caller"] = Quiet /\ workload.caller = 1
      /\ sender' = [sender EXCEPT !["caller"] = x]
      /\ LaneUnchanged /\ shown' = shown /\ givenUp' = givenUp
      /\ UNCHANGED <<arrivals, typing, placeholder, typingOn>>
  BY DEF CallSend, Turn, SendUnchanged, LaneUnchanged
<1>2. "caller" \in Senders /\ "caller" \notin Lanes
  BY DEF Senders, Lanes
<1>3. x \in SenderRecords /\ x.pc = "token" /\ x.msg = 1 /\ x.chunk = 1 /\ x.try = 0
  BY DEF SenderRecords, Active
<1> HIDE DEF x
<1>4. SenderGood("caller", Quiet, sh)
  BY <1>1, <1>2, SenderFacts
<1>5. Ordered(sh, 0, 2)
  <2>1. Quiet.msg = 0 /\ Quiet.pc = "idle"
    BY DEF Quiet, NoMessage
  <2> QED  BY <1>4, <2>1 DEF SenderGood, ShownUpto, Active
<1>6. Ordered(sh, 1, 1)
  BY <1>5, OrderedLater
<1>7. SenderGood("caller", x, sh)
  <2>1. ShownUpto(x) = 1 /\ x.pc \in Active
    BY <1>3 DEF ShownUpto, Active
  <2>2. 1 <= ChunksOf("caller", x.msg)
    BY OneOrTwo
  <2>3. MaxResends \in Nat
    BY DEF DeliveryAssumption
  <2> QED  BY <1>3, <1>6, <2>1, <2>2, <2>3 DEF SenderGood
<1>8. shown' = [shown EXCEPT !["caller"] = sh]
  BY <1>1, <1>2 DEF DeliveryInv, FunctionsOK
<1>9. InOK' /\ GivenUpGood(workload, givenUp') /\ givenUp \subseteq givenUp'
  BY <1>1, InStays DEF DeliveryInv
<1>10. x.msg <= workload.caller
  BY <1>1, <1>3
<1> HIDE DEF sh
<1> QED  BY <1>1, <1>2, <1>7, <1>8, <1>9, <1>10, SenderStepKeeps DEF LaneUnchanged

\* HandleMessage, InvokeTypingStop and the janitor leave the lanes alone.
LEMMA InStepKeeps ==
    ASSUME DeliveryInv, InUnchanged, InOK'
    PROVE  DeliveryInv'
<1>1. /\ workload' = workload /\ published' = published /\ dispatcher' = dispatcher
      /\ workerQueue' = workerQueue /\ closed' = closed /\ stopAll' = stopAll
      /\ skipped' = skipped /\ sender' = sender /\ shown' = shown /\ givenUp' = givenUp
  BY DEF InUnchanged, senderVars
<1>2. FunctionsOK' /\ StopOK' /\ SendersOK' /\ CallerOK' /\ LanesOK' /\ GivenUpGood(workload, givenUp)'
  BY <1>1 DEF DeliveryInv, FunctionsOK, StopOK, SendersOK, CallerOK, LanesOK
<1>3. \A l \in Lanes : Settled(l)' = Settled(l)
  BY <1>1 DEF Settled
<1>4. SettledOK'
  BY <1>1, <1>3 DEF DeliveryInv, SettledOK
<1> QED  BY <1>2, <1>4 DEF DeliveryInv

\* HandleMessage.
LEMMA InboundKeeps ==
    ASSUME DeliveryAssumption, DeliveryInv, NEW i \in Inbounds, InStep(i)
    PROVE  DeliveryInv'
<1>1. InOK
  BY DEF DeliveryInv
<1>2. CASE StartTyping(i)
  <2>1. InOK'
    BY <1>1, <1>2 DEF StartTyping, InOK, AtMostOne
  <2> QED  BY <1>2, <2>1, InStepKeeps DEF StartTyping
<1>3. CASE RecordTyping(i)
  <2>1. InOK'
    BY <1>1, <1>3 DEF RecordTyping, SwapTyping, InOK, AtMostOne
  <2> QED  BY <1>3, <2>1, InStepKeeps DEF RecordTyping
<1>4. CASE RecordPlaceholder(i)
  <2>1. InOK'
    BY <1>1, <1>4 DEF RecordPlaceholder, InOK, AtMostOne
  <2> QED  BY <1>4, <2>1, InStepKeeps DEF RecordPlaceholder
<1> QED  BY <1>2, <1>3, <1>4 DEF InStep

\* The typing indicator and the janitor.
LEMMA TypingKeeps ==
    ASSUME DeliveryAssumption, DeliveryInv, InvokeTypingStop \/ ExpirePlaceholder
    PROVE  DeliveryInv'
<1>1. InOK
  BY DEF DeliveryInv
<1>2. InOK'
  BY <1>1 DEF InvokeTypingStop, ExpirePlaceholder, InOK, AtMostOne
<1> QED  BY <1>2, InStepKeeps DEF InvokeTypingStop, ExpirePlaceholder

\* StopAll, in the order of its statements.
LEMMA StopAllKeeps ==
    ASSUME DeliveryAssumption, DeliveryInv, StopAll
    PROVE  DeliveryInv'
<1>1. /\ workload' = workload /\ published' = published /\ dispatcher' = dispatcher
      /\ workerQueue' = workerQueue /\ skipped' = skipped
      /\ sender' = sender /\ shown' = shown /\ givenUp' = givenUp
      /\ UNCHANGED <<arrivals, typing, placeholder, typingOn>>
  BY DEF StopAll, senderVars, inVars
<1>2. stopAll' # "running" /\ StopOK'
  BY DEF StopAll, DeliveryInv, StopOK, Lanes
<1>3. FunctionsOK' /\ SendersOK' /\ CallerOK' /\ LanesOK' /\ GivenUpGood(workload, givenUp)'
  BY <1>1 DEF DeliveryInv, FunctionsOK, SendersOK, CallerOK, LanesOK
<1>4. InOK'
  BY <1>1, InStays DEF DeliveryInv
<1>5. SettledOK'
  BY <1>2 DEF SettledOK
<1> QED  BY <1>2, <1>3, <1>4, <1>5 DEF DeliveryInv

\* Every step keeps the invariant.
LEMMA DeliveryStep ==
    ASSUME DeliveryAssumption, DeliveryInv, [DeliveryNext]_deliveryVars
    PROVE  DeliveryInv'
<1>1. ASSUME NEW l \in Lanes, PublishOutbound(l) \/ LaneStep(l) \/ TakeQueued(l)
      PROVE  DeliveryInv'
  BY <1>1, PublishOutboundKeeps, TakeOutboundKeeps, EnqueueKeeps, TakeQueuedKeeps DEF LaneStep
<1>2. ASSUME NEW s \in Senders, SenderStep(s)
      PROVE  DeliveryInv'
  BY <1>2, PreSendKeeps, CanceledKeeps, SendChunkKeeps, BackoffKeeps DEF SenderStep
<1>3. CASE CallSend
  BY <1>3, CallSendKeeps
<1>4. ASSUME NEW i \in Inbounds, InStep(i)
      PROVE  DeliveryInv'
  BY <1>4, InboundKeeps
<1>5. CASE InvokeTypingStop \/ ExpirePlaceholder
  BY <1>5, TypingKeeps
<1>6. CASE StopAll
  BY <1>6, StopAllKeeps
<1>7. CASE UNCHANGED deliveryVars
  <2>1. InUnchanged /\ UNCHANGED <<arrivals, typing, placeholder, typingOn>>
    BY <1>7 DEF deliveryVars, InUnchanged, senderVars, inVars
  <2>2. InOK'
    BY <2>1, InStays DEF DeliveryInv
  <2> QED  BY <2>1, <2>2, InStepKeeps
<1> QED  BY <1>1, <1>2, <1>3, <1>4, <1>5, <1>6, <1>7 DEF DeliveryNext

\* It holds when the manager starts.
LEMMA DeliveryStart ==
    ASSUME DeliveryAssumption, DeliveryInit
    PROVE  DeliveryInv
<1> DEFINE idle == [pc |-> "idle", msg |-> NoMessage]
<1>1. /\ workload \in Workloads /\ published = [l \in Lanes |-> 0]
      /\ dispatcher = [l \in Lanes |-> idle]
      /\ workerQueue = [l \in Lanes |-> <<>>] /\ closed = {}
      /\ sender = [s \in Senders |-> Quiet] /\ stopAll = "running"
      /\ givenUp = {} /\ shown = [s \in Senders |-> <<>>]
  BY DEF DeliveryInit
<1>2. idle \in DispatcherRecords /\ idle.pc = "idle" /\ idle.msg = 0
  BY DEF DispatcherRecords, NoMessage
<1> HIDE DEF idle
<1>3. /\ Quiet \in SenderRecords /\ Quiet.pc = "idle" /\ Quiet.msg = 0 /\ Quiet.chunk = 0
      /\ Quiet.try = 0
  BY DEF Quiet, NoMessage, SenderRecords
<1>4. workload.text \in Nat /\ workload.media \in Nat /\ workload.caller \in {0, 1}
  BY <1>1 DEF DeliveryAssumption
<1>5. \A s \in Senders : workload[s] \in Nat
  BY <1>4 DEF Senders, Lanes
<1>6. Lanes \subseteq Senders /\ "caller" \in Senders
  BY DEF Senders, Lanes
<1>7. FunctionsOK
  BY <1>1 DEF FunctionsOK
<1>8. StopOK
  BY <1>1, <1>2, <1>3, <1>6 DEF StopOK
<1>9. SendersOK
  <2>1. Ordered(<<>>, 0, 2)
    BY DEF Ordered
  <2>2. ShownUpto(Quiet) = 2 /\ ~(Quiet.pc \in Active)
    BY <1>3 DEF ShownUpto, Active
  <2>3. \A s \in Senders : SenderGood(s, Quiet, <<>>)
    BY <1>3, <2>1, <2>2 DEF SenderGood
  <2> QED  BY <1>1, <2>3 DEF SendersOK
<1>10. CallerOK
  BY <1>1, <1>3, <1>4, <1>6 DEF CallerOK
<1>11. LanesOK
  <2>1. Increasing(<<>>, 0, 0) /\ Len(<<>>) <= QueueSize
    BY DEF Increasing, DeliveryAssumption
  <2>2. \A l \in Lanes : LaneGood(workload[l], 0, idle, <<>>, Quiet)
    BY <1>2, <1>3, <1>5, <1>6, <2>1 DEF LaneGood
  <2> QED  BY <1>1, <1>6, <2>2 DEF LanesOK
<1>12. GivenUpGood(workload, givenUp)
  BY <1>1 DEF GivenUpGood
<1>13. InOK
  BY DEF DeliveryInit, InOK, AtMostOne
<1>14. SettledOK
  <2>1. ASSUME NEW l \in Lanes
        PROVE  LaneSettled(l, idle, <<>>, Quiet, Settled(l), skipped)
    BY <1>2, <1>3 DEF LaneSettled, Active
  <2> QED  BY <1>1, <1>6, <2>1 DEF SettledOK
<1> QED  BY <1>7, <1>8, <1>9, <1>10, <1>11, <1>12, <1>13, <1>14 DEF DeliveryInv

\* In every reachable state the messages of a lane are one behind the other:
\* those shown, the worker's, the queue's, the dispatcher's, the bus's
\* (dispatchLoop, runWorker, runMediaWorker, sendWithRetry).
THEOREM DeliveryInvariant == DeliverySpec => []DeliveryInv
<1>1. DeliveryInit => DeliveryInv
  BY DeliveryAssumption, DeliveryStart
<1>2. DeliveryInv /\ [DeliveryNext]_deliveryVars => DeliveryInv'
  BY DeliveryAssumption, DeliveryStep
<1> QED  BY <1>1, <1>2, PTL DEF DeliverySpec

\* A set without two different elements has one at most.
LEMMA AtMostOneCounts ==
    ASSUME NEW S, AtMostOne(S)
    PROVE  Cardinality(S) <= 1
<1>1. CASE S = {}
  BY <1>1, FS_EmptySet
<1>2. ASSUME NEW i \in Inbounds, S = {i}
      PROVE  Cardinality(S) <= 1
  <2>1. Cardinality({i}) = 1
    BY FS_Singleton, Zenon
  <2> QED  BY <1>2, <2>1
<1> QED  BY <1>1, <1>2 DEF AtMostOne

\* The types of the channel manager, for every workload and queue size.
THEOREM DeliveryTypes == DeliverySpec => []DeliveryTypeOK
<1>1. DeliveryInv => DeliveryTypeOK
  <2> SUFFICES ASSUME DeliveryInv
               PROVE  DeliveryTypeOK
    OBVIOUS
  <2>1. DeliveryAssumption
    BY DeliveryAssumption
  <2>2. ASSUME NEW l \in Lanes
        PROVE  /\ published[l] \in 0..workload[l] /\ Len(workerQueue[l]) <= QueueSize
               /\ dispatcher[l] \in [pc : {"idle", "enqueue", "off"}, msg : 0..published[l]]
    <3>1. /\ LaneGood(workload[l], published[l], dispatcher[l], workerQueue[l], sender[l])
          /\ workload[l] \in Nat /\ published[l] \in Nat
          /\ dispatcher[l] \in DispatcherRecords /\ dispatcher[l].msg \in Nat
      BY <2>1, LaneFacts
    <3>2. /\ published[l] <= workload[l] /\ Len(workerQueue[l]) <= QueueSize
          /\ dispatcher[l].msg <= published[l]
      BY <3>1 DEF LaneGood
    <3>3. dispatcher[l].msg \in 0..published[l] /\ published[l] \in 0..workload[l]
      BY <3>1, <3>2
    <3>4. dispatcher[l] \in [pc : {"idle", "enqueue", "off"}, msg : 0..published[l]]
      BY <3>1, <3>3 DEF DispatcherRecords
    <3> QED  BY <3>2, <3>3, <3>4
  <2>3. ASSUME NEW s \in Senders
        PROVE  sender[s] \in [pc : {"idle", "token", "send", "backoff", "done"},
                              msg : 0..workload[s], chunk : 0..2, try : 0..MaxResends]
    <3>1. /\ SenderGood(s, sender[s], shown[s])
          /\ sender[s] \in SenderRecords /\ sender[s].msg \in Nat /\ sender[s].chunk \in Nat
          /\ sender[s].try \in Nat /\ sender[s].msg <= workload[s] /\ workload[s] \in Nat
          /\ sender[s].pc \in Active => sender[s].chunk \in {1, 2} /\ sender[s].try <= MaxResends
      BY <2>1, SenderFacts, WorkloadNat
    <3>2. sender[s].pc \in {"idle", "done"} => sender[s].chunk = 0 /\ sender[s].try = 0
      BY <3>1 DEF SenderGood
    <3>3. sender[s].pc \in Active \cup {"idle", "done"}
      BY <3>1 DEF SenderRecords
    <3>4. MaxResends \in Nat
      BY <2>1 DEF DeliveryAssumption
    <3>5. sender[s].msg \in 0..workload[s] /\ sender[s].chunk \in 0..2 /\ sender[s].try \in 0..MaxResends
      BY <3>1, <3>2, <3>3, <3>4
    <3> QED  BY <3>1, <3>3, <3>5 DEF SenderRecords, Active
  <2>4. InOK /\ IsFiniteSet(Inbounds)
    BY <2>1 DEF DeliveryInv, DeliveryAssumption
  <2>5. Cardinality(typing) <= 1 /\ Cardinality(placeholder) <= 1
    BY <2>4, AtMostOneCounts DEF InOK
  <2>6. typing \cup placeholder \cup typingOn \subseteq Inbounds
    BY <2>4 DEF InOK, AtMostOne
  <2>7. workload \in Workloads /\ closed \subseteq Lanes
        /\ stopAll \in {"running", "text", "media", "stopped"}
        /\ arrivals \in [Inbounds -> {"new", "typing", "recorded", "published"}]
    BY <2>4 DEF DeliveryInv, FunctionsOK, StopOK, InOK
  <2>8. \A c \in givenUp : c[1] \in Senders /\ c[2] \in 1..workload[c[1]] /\ c[3] \in {1, 2}
    BY DEF DeliveryInv, GivenUpGood
  <2> QED  BY <2>2, <2>3, <2>5, <2>6, <2>7, <2>8 DEF DeliveryTypeOK
<1> QED  BY <1>1, DeliveryInvariant, PTL

\* Whatever fails and is sent again, the user gets the chunks of a lane in the
\* order of the bus, and until StopAll none is lost without a trace
\* (sendWithRetry, runWorker and dispatchLoop in manager.go).
THEOREM DeliveryKeepsLanes == DeliverySpec => []LanesKept
<1>1. DeliveryInv => LaneOrderKept
  <2> SUFFICES ASSUME DeliveryInv, NEW s \in Senders, NEW i \in DOMAIN shown[s],
                      NEW j \in DOMAIN shown[s], i < j
               PROVE  \/ shown[s][i][2] < shown[s][j][2]
                      \/ shown[s][i][2] = shown[s][j][2] /\ shown[s][i][3] <= shown[s][j][3]
    BY DEF LaneOrderKept
  <2>1. SenderGood(s, sender[s], shown[s])
    BY DEF DeliveryInv, SendersOK
  <2>2. NoLater(shown[s][i], shown[s][j][2], shown[s][j][3])
    BY <2>1 DEF SenderGood, Ordered
  <2> QED  BY <2>2 DEF NoLater
<1>2. DeliveryInv => NothingLostRunning
  <2> SUFFICES ASSUME DeliveryInv, stopAll = "running", NEW l \in Lanes,
                      NEW m \in 1..dispatcher[l].msg
               PROVE  \/ <<l, m>> \in skipped
                      \/ m = dispatcher[l].msg /\ dispatcher[l].pc # "idle"
                      \/ \E i \in DOMAIN workerQueue[l] : workerQueue[l][i] = m
                      \/ m = sender[l].msg /\ sender[l].pc # "idle"
                      \/ \A c \in 1..ChunksOf(l, m) :
                           <<l, m, c>> \in givenUp \cup {shown[l][i] : i \in DOMAIN shown[l]}
    BY Zenon DEF NothingLostRunning
  <2>1. InHands(l, dispatcher[l], workerQueue[l], sender[l], Settled(l), skipped, m)
    BY DEF DeliveryInv, SettledOK, LaneSettled
  <2> QED  BY <2>1, Zenon DEF InHands, Settled
<1> QED  BY <1>1, <1>2, DeliveryInvariant, PTL DEF LanesKept

-------------------------------------------------------------------------------
(* A typing indicator ends                                                    *)

\* An indicator that is shown has its stop function on the way, or recorded.
StopKnown ==
    /\ arrivals \in [Inbounds -> {"new", "typing", "recorded", "published"}]
    /\ typingOn \subseteq Inbounds
    /\ \A i \in typingOn : arrivals[i] = "typing" \/ i \in typing

StopOnTheWay(i) == i \in typingOn /\ arrivals[i] = "typing" /\ ~Cancelled
StopRecorded(i) == i \in typingOn /\ i \in typing /\ ~Cancelled
TypingOver(i) == i \notin typingOn \/ Cancelled

\* What the scheduler relies on: HandleMessage may go on, and the janitor's
\* round finds the entry.
TypingCanGo ==
    /\ \A i \in Inbounds : StopOnTheWay(i) => ENABLED <<InStep(i)>>_deliveryVars
    /\ typing # {} /\ ~Cancelled => ENABLED <<Janitor>>_deliveryVars

(* Steps of the lanes and of StopAll touch neither the entry nor the           *)
(* indicator.                                                                 *)
LEMMA LanesLeaveTyping ==
    ASSUME \/ \E l \in Lanes : PublishOutbound(l) \/ LaneStep(l) \/ TakeQueued(l)
           \/ \E s \in Senders : Canceled(s) \/ SendChunk(s) \/ Backoff(s)
           \/ CallSend \/ ExpirePlaceholder \/ StopAll \/ UNCHANGED deliveryVars
    PROVE  arrivals' = arrivals /\ typing' = typing /\ typingOn' = typingOn
<1>1. ASSUME NEW l \in Lanes, PublishOutbound(l) \/ LaneStep(l) \/ TakeQueued(l)
      PROVE  arrivals' = arrivals /\ typing' = typing /\ typingOn' = typingOn
  BY <1>1 DEF PublishOutbound, LaneStep, TakeOutbound, Enqueue, TakeQueued, DispatchUnchanged,
     SendUnchanged, inVars
<1>2. ASSUME NEW s \in Senders, Canceled(s) \/ SendChunk(s) \/ Backoff(s)
      PROVE  arrivals' = arrivals /\ typing' = typing /\ typingOn' = typingOn
  BY <1>2 DEF Canceled, SendChunk, Backoff, SendUnchanged
<1>3. CASE CallSend \/ ExpirePlaceholder \/ StopAll \/ UNCHANGED deliveryVars
  BY <1>3 DEF CallSend, ExpirePlaceholder, StopAll, InUnchanged, SendUnchanged, inVars, deliveryVars
<1> QED  BY <1>1, <1>2, <1>3

(* What takes an entry away ends its indicator.                               *)
LEMMA EntryEndsTyping ==
    ASSUME \/ \E s \in Senders : PreSend(s)
           \/ InvokeTypingStop
    PROVE  /\ arrivals' = arrivals
           /\ \/ typing' = typing /\ typingOn' = typingOn
              \/ typing' = {} /\ typingOn' = typingOn \ typing
<1>1. ASSUME NEW s \in Senders, PreSend(s)
      PROVE  /\ arrivals' = arrivals
             /\ \/ typing' = typing /\ typingOn' = typingOn
                \/ typing' = {} /\ typingOn' = typingOn \ typing
  BY <1>1 DEF PreSend, SendUnchanged
<1>2. CASE InvokeTypingStop
  BY <1>2 DEF InvokeTypingStop, InUnchanged
<1> QED  BY <1>1, <1>2

LEMMA TypingKinds ==
    ASSUME [DeliveryNext]_deliveryVars
    PROVE  \/ arrivals' = arrivals /\ typing' = typing /\ typingOn' = typingOn
           \/ /\ arrivals' = arrivals
              /\ typing' = {} /\ typingOn' = typingOn \ typing
           \/ \E k \in Inbounds : InStep(k)
  BY LanesLeaveTyping, EntryEndsTyping DEF DeliveryNext, SenderStep

LEMMA StopKnownKept ==
    ASSUME StopKnown, [DeliveryNext]_deliveryVars
    PROVE  StopKnown'
<1>1. ASSUME NEW k \in Inbounds, InStep(k)
      PROVE  StopKnown'
  <2>1. arrivals' \in [Inbounds -> {"new", "typing", "recorded", "published"}]
    BY <1>1 DEF InStep, StartTyping, RecordTyping, RecordPlaceholder, StopKnown
  <2>2. typingOn' \subseteq Inbounds
    BY <1>1 DEF InStep, StartTyping, RecordTyping, SwapTyping, RecordPlaceholder, StopKnown
  <2>3. ASSUME NEW i \in typingOn'
        PROVE  arrivals'[i] = "typing" \/ i \in typing'
    <3>1. CASE StartTyping(k)
      BY <2>2, <2>3, <3>1 DEF StartTyping, StopKnown
    <3>2. CASE RecordTyping(k)
      BY <2>2, <2>3, <3>2 DEF RecordTyping, SwapTyping, StopKnown
    <3>3. CASE RecordPlaceholder(k)
      BY <2>2, <2>3, <3>3 DEF RecordPlaceholder, StopKnown
    <3> QED  BY <1>1, <3>1, <3>2, <3>3 DEF InStep
  <2> QED  BY <2>1, <2>2, <2>3 DEF StopKnown
<1> QED  BY <1>1, TypingKinds DEF StopKnown

LEMMA StopAlwaysKnown == DeliverySpec => []StopKnown
<1>1. DeliveryInit => StopKnown
  BY DEF DeliveryInit, StopKnown
<1> QED  BY <1>1, StopKnownKept, PTL DEF DeliverySpec

(* The others leave the indicator where it is, or end it.                     *)
LEMMA TypingStays ==
    ASSUME StopKnown, [DeliveryNext]_deliveryVars, NEW i \in Inbounds
    PROVE  /\ StopOnTheWay(i) => (StopOnTheWay(i) \/ StopRecorded(i) \/ TypingOver(i))'
           /\ StopRecorded(i) => (StopRecorded(i) \/ TypingOver(i))'
<1>1. ASSUME NEW k \in Inbounds, InStep(k)
      PROVE  /\ StopOnTheWay(i) => (StopOnTheWay(i) \/ StopRecorded(i) \/ TypingOver(i))'
             /\ StopRecorded(i) => (StopRecorded(i) \/ TypingOver(i))'
  BY <1>1 DEF StopKnown, StopOnTheWay, StopRecorded, TypingOver, InStep, StartTyping, RecordTyping,
     SwapTyping, RecordPlaceholder
<1> QED  BY <1>1, TypingKinds DEF StopOnTheWay, StopRecorded, TypingOver

(* HandleMessage records the stop function, and the janitor calls it.          *)
LEMMA TypingMoves ==
    ASSUME StopKnown, NEW i \in Inbounds
    PROVE  /\ StopOnTheWay(i) /\ InStep(i) => (StopRecorded(i) \/ TypingOver(i))'
           /\ StopRecorded(i) /\ Janitor => TypingOver(i)'
<1>1. StopOnTheWay(i) /\ InStep(i) => (StopRecorded(i) \/ TypingOver(i))'
  BY DEF StopKnown, StopOnTheWay, StopRecorded, TypingOver, InStep, StartTyping, RecordTyping,
     SwapTyping, RecordPlaceholder
<1>2. StopRecorded(i) /\ Janitor => TypingOver(i)'
  BY DEF StopRecorded, TypingOver, Janitor, InvokeTypingStop
<1> QED  BY <1>1, <1>2

LEMMA OneTypingEnds ==
    ASSUME NEW i \in Inbounds
    PROVE  DeliverySpec /\ HandleRuns(i) /\ JanitorRuns /\ []TypingCanGo => TypingEnds(i)
<1> DEFINE OnTheWay == StopOnTheWay(i)
           Recorded == StopRecorded(i)
           Over == TypingOver(i)
           Handles == InStep(i)
           On == i \in typingOn
<1>1. StopKnown /\ [DeliveryNext]_deliveryVars => /\ OnTheWay => OnTheWay' \/ Recorded' \/ Over'
                                                  /\ Recorded => Recorded' \/ Over'
  BY TypingStays
<1>2. StopKnown => /\ OnTheWay /\ <<Handles>>_deliveryVars => Recorded' \/ Over'
                   /\ Recorded /\ <<Janitor>>_deliveryVars => Over'
  BY TypingMoves
<1>3. StopKnown /\ On => OnTheWay \/ Recorded \/ Over
  BY DEF StopKnown, StopOnTheWay, StopRecorded, TypingOver
<1>4. TypingCanGo => /\ OnTheWay => ENABLED <<InStep(i)>>_deliveryVars
                     /\ Recorded => ENABLED <<Janitor>>_deliveryVars
  <2>1. Recorded => typing # {} /\ ~Cancelled
    BY DEF StopRecorded
  <2> QED  BY <2>1, Zenon DEF TypingCanGo
<1> HIDE DEF OnTheWay, Recorded, Over, Handles, On
<1>5. DeliverySpec /\ HandleRuns(i) /\ JanitorRuns /\ []TypingCanGo => (On ~> Over)
  BY <1>1, <1>2, <1>3, <1>4, StopAlwaysKnown, PTL DEF DeliverySpec, HandleRuns, JanitorRuns, Handles
<1> QED  BY <1>5, PTL DEF On, Over, TypingOver, TypingEnds

(* A typing indicator ends, whichever of the messages of the chat replaces its *)
(* entry, answers first or is never answered (base.go, manager.go:                *)
(* RecordTypingStop, preSend, InvokeTypingStop and the janitor).               *)
THEOREM TypingIndicatorsStop ==
    DeliverySpec /\ DeliveryFairness /\ []TypingCanGo => TypingStops
<1>1. ASSUME NEW i \in Inbounds
      PROVE  DeliverySpec /\ DeliveryFairness /\ []TypingCanGo => TypingEnds(i)
  <2>1. DeliveryFairness => HandleRuns(i) /\ JanitorRuns
    BY Zenon DEF DeliveryFairness
  <2> QED  BY <2>1, OneTypingEnds, PTL
<1> QED  BY <1>1, Zenon DEF TypingStops

-------------------------------------------------------------------------------
(* The WeCom channel *)

Answers == 1..MaxReplies

\* The types that the proof needs.
WeComShape ==
    /\ reqState \in [Requests -> {"none", "task", "route"}]
    /\ windowOver \in [Requests -> BOOLEAN]
    /\ task \in [Requests -> {"off", "handle", "open", "wait", "stream", "finish", "push",
                                "end", "done"}]
    /\ cancelled \subseteq Requests
    /\ answerCh \in [Requests -> {<<>>} \cup {<<a>> : a \in Answers}]
    /\ inHand \in [Requests -> 0..MaxReplies]
    /\ replies \in [Requests -> 0..MaxReplies]
    /\ send.at # "idle" => send.req \in Requests /\ replies[send.req] > 0

\* A request that has only its route left is one whose window is over.
RouteIsOver ==
    /\ passedOver = {}
    /\ \A r \in Requests :
          /\ reqState[r] = "route" => windowOver[r]
          /\ task[r] = "finish" => windowOver[r]
          /\ task[r] = "end" /\ reqState[r] = "task" => windowOver[r]
          /\ task[r] \in {"off", "handle"} => reqState[r] = "none" /\ r \notin cancelled
          /\ r \in cancelled => reqState[r] # "task"
          /\ task[r] = "push" => r \in cancelled

Carried(r) == send.at # "idle" /\ send.req = r
Seen(r, a) == <<r, a, "stream">> \in displayed \/ <<r, a, "push">> \in displayed

\* An answer is with Send, in the channel of its task, in the hand of its task,
\* or displayed, and then in one way.
OnePlace(r) ==
    \A a \in Answers :
        /\ Carried(r) => /\ Seen(r, a) => a # replies[r]
                         /\ a = inHand[r] => a # replies[r]
                         /\ answerCh[r] = <<a>> => a # replies[r]
        /\ Seen(r, a) \/ a = inHand[r] \/ answerCh[r] = <<a>> => a <= replies[r]
        /\ answerCh[r] = <<a>> => ~Seen(r, a) /\ a # inHand[r]
        /\ a = inHand[r] => ~Seen(r, a)
        /\ ~ (<<r, a, "stream">> \in displayed /\ <<r, a, "push">> \in displayed)
EachInOnePlace == \A r \in Requests : OnePlace(r)

WeComInv == WeComShape /\ RouteIsOver /\ EachInOnePlace

-------------------------------------------------------------------------------
(* The shape and the windows *)

\* The channel of a task holds nothing, or one answer.
LEMMA ChannelOf ==
  ASSUME NEW s \in {<<>>} \cup {<<a>> : a \in Answers}, s # <<>>
  PROVE  /\ Head(s) \in Answers /\ s = <<Head(s)>> /\ Tail(s) = <<>>
<1>1. PICK a \in Answers : s = <<a>>
  OBVIOUS
<1>2. Head(s) = a
  BY <1>1
<1>3. Tail(s) = <<>>
  BY <1>1
<1> QED
  BY <1>1, <1>2, <1>3

\* The connection breaks or comes back.
LEMMA LinkKeeps ==
  ASSUME WeComInv, LinkStep \/ Break
  PROVE  WeComInv'
<1>1. CASE Connect \/ Break \/ DropConn
  <2>1. /\ UNCHANGED <<reqState, windowOver, task, cancelled, inHand>>
        /\ UNCHANGED <<answerCh, replies, send, displayed, passedOver>>
    BY <1>1 DEF Connect, Break, DropConn, requestVars, taskVars, outsideVars
  <2>2. WeComShape' /\ RouteIsOver'
    BY <2>1 DEF WeComInv, WeComShape, RouteIsOver
  <2>3. EachInOnePlace'
    BY <2>1 DEF WeComInv, EachInOnePlace, OnePlace, Carried, Seen
  <2> QED
    BY <2>2, <2>3 DEF WeComInv
<1>2. CASE EndConnection
  <2>1. WeComShape'
    BY <1>2 DEF EndConnection, CancelAllTasks, WeComInv, WeComShape
  <2>2. RouteIsOver'
    BY <1>2 DEF EndConnection, CancelAllTasks, WeComInv, WeComShape, RouteIsOver
  <2>3. EachInOnePlace'
    BY <1>2 DEF EndConnection, outsideVars, WeComInv, EachInOnePlace, OnePlace, Carried, Seen
  <2> QED
    BY <2>1, <2>2, <2>3 DEF WeComInv
<1> QED
  BY <1>1, <1>2 DEF LinkStep

\* Types are kept.
LEMMA ShapeKept ==
  ASSUME WeComInv, [WeComNext]_wecomVars
  PROVE  WeComShape'
<1> USE DEF WeComInv, WeComShape
<1>1. CASE LinkStep \/ Break
  BY <1>1, LinkKeeps
<1>2. ASSUME NEW r \in Requests, GetRequest(r) \/ DispatchTask(r) \/ OpenStream(r) \/ Deadline(r)
                                   \/ FinishStream(r) \/ EndTask(r) \/ WindowPasses(r)
      PROVE  WeComShape'
  BY <1>2 DEF GetRequest, DispatchTask, OpenStream, Deadline, FinishStream, EndTask, WindowPasses,
              requestVars, taskVars
<1>3. ASSUME NEW r \in Requests, TakeAnswer(r) \/ Grace(r)
      PROVE  WeComShape'
  <2>1. CASE answerCh[r] # <<>> /\ inHand' = [inHand EXCEPT ![r] = Head(answerCh[r])]
                                /\ answerCh' = [answerCh EXCEPT ![r] = Tail(@)]
    <3>1. Head(answerCh[r]) \in Answers /\ Tail(answerCh[r]) = <<>>
      BY <2>1, ChannelOf
    <3>2. inHand' \in [Requests -> 0..MaxReplies]
      BY <2>1, <3>1, WeComAssumption DEF Answers
    <3>3. answerCh' \in [Requests -> {<<>>} \cup {<<a>> : a \in Answers}]
      BY <2>1, <3>1
    <3> QED
      BY <1>3, <3>2, <3>3 DEF TakeAnswer, Grace, requestVars
  <2>2. CASE UNCHANGED <<inHand, answerCh>>
    BY <1>3, <2>2 DEF TakeAnswer, Grace, requestVars
  <2> QED
    BY <1>3, <2>1, <2>2 DEF TakeAnswer, Grace
<1>4. ASSUME NEW r \in Requests, StreamAnswer(r) \/ PushInHand(r)
      PROVE  WeComShape'
  <2>1. inHand' = [inHand EXCEPT ![r] = 0] /\ 0 \in 0..MaxReplies
    BY <1>4, WeComAssumption DEF StreamAnswer, PushInHand
  <2>2. reqState' \in {reqState, [reqState EXCEPT ![r] = "none"]}
    BY <1>4 DEF StreamAnswer, PushInHand
  <2>3. task' = [task EXCEPT ![r] = "end"]
        /\ UNCHANGED <<windowOver, cancelled, answerCh, replies, send>>
    BY <1>4 DEF StreamAnswer, PushInHand
  <2> QED
    BY <2>1, <2>2, <2>3
<1>5. ASSUME NEW r \in Requests, Send(r)
      PROVE  WeComShape'
  <2>1. /\ replies' = [replies EXCEPT ![r] = @ + 1] /\ replies[r] < MaxReplies
        /\ UNCHANGED <<reqState, windowOver, task, cancelled, answerCh, inHand>>
    BY <1>5 DEF Send, requestVars, taskVars
  <2>2. replies' \in [Requests -> 0..MaxReplies] /\ replies'[r] > 0
    BY <2>1, WeComAssumption
  <2>3. send.at = "idle" /\ (send' = send \/ send'.req = r)
    BY <1>5 DEF Send
  <2> QED
    BY <2>1, <2>2, <2>3
<1>6. CASE SendStep
  <2>1. CASE SendToTask
    <3>1. replies[send.req] \in Answers /\ send.req \in Requests
      BY <2>1, WeComAssumption DEF SendToTask, Answers
    <3> QED
      BY <2>1, <3>1 DEF SendToTask, Answer, NoSend, requestVars, taskVars
  <2>2. CASE GiveUpAnswer \/ PushAnswer
    BY <2>2 DEF GiveUpAnswer, PushAnswer, NoSend, requestVars, taskVars
  <2> QED
    BY <1>6, <2>1, <2>2 DEF SendStep
<1>7. CASE UNCHANGED wecomVars
  BY <1>7 DEF wecomVars, requestVars, taskVars
<1> QED
  BY <1>1, <1>2, <1>3, <1>4, <1>5, <1>6, <1>7 DEF WeComNext, TaskStep

\* A request that has only its route left is over.
LEMMA RouteKept ==
  ASSUME WeComInv, [WeComNext]_wecomVars
  PROVE  RouteIsOver'
<1> USE DEF WeComInv, WeComShape, RouteIsOver
<1>1. CASE LinkStep \/ Break
  BY <1>1, LinkKeeps
<1>2. ASSUME NEW r \in Requests, GetRequest(r) \/ DispatchTask(r) \/ OpenStream(r) \/ TakeAnswer(r)
      PROVE  RouteIsOver'
  BY <1>2 DEF GetRequest, DispatchTask, OpenStream, TakeAnswer, requestVars
<1>3. ASSUME NEW r \in Requests, StreamAnswer(r) \/ Deadline(r) \/ FinishStream(r)
      PROVE  RouteIsOver'
  BY <1>3 DEF StreamAnswer, Deadline, FinishStream, requestVars
<1>4. ASSUME NEW r \in Requests, Grace(r) \/ PushInHand(r) \/ EndTask(r) \/ WindowPasses(r)
      PROVE  RouteIsOver'
  BY <1>4 DEF Grace, PushInHand, EndTask, WindowPasses, requestVars, taskVars
<1>5. ASSUME NEW r \in Requests, Send(r)
      PROVE  RouteIsOver'
  BY <1>5 DEF Send, requestVars, taskVars
<1>6. CASE SendStep
  BY <1>6 DEF SendStep, SendToTask, GiveUpAnswer, PushAnswer, requestVars, taskVars
<1>7. CASE UNCHANGED wecomVars
  BY <1>7 DEF wecomVars, requestVars, taskVars
<1> QED
  BY <1>1, <1>2, <1>3, <1>4, <1>5, <1>6, <1>7 DEF WeComNext, TaskStep

-------------------------------------------------------------------------------
(* The places of an answer *)

(* The steps that move no answer of r. *)
LEMMA ElsewhereKeeps ==
  ASSUME NEW r \in Requests, OnePlace(r),
         inHand'[r] = inHand[r], answerCh'[r] = answerCh[r], replies'[r] = replies[r],
         Carried(r)' => Carried(r), \A a \in Answers : \A how \in {"stream", "push"} :
             <<r, a, how>> \in displayed' => <<r, a, how>> \in displayed
  PROVE  OnePlace(r)'
  BY DEF OnePlace, Seen

(* The goroutine of a task takes the answer that is in its channel. *)
LEMMA TakingKeepsLanes ==
  ASSUME WeComInv, NEW r \in Requests, answerCh[r] # <<>>,
         inHand' = [inHand EXCEPT ![r] = Head(answerCh[r])],
         answerCh' = [answerCh EXCEPT ![r] = Tail(@)],
         UNCHANGED <<replies, send, displayed>>
  PROVE  EachInOnePlace'
<1> SUFFICES ASSUME NEW q \in Requests PROVE OnePlace(q)'
  BY DEF EachInOnePlace
<1>1. CASE q # r
  BY <1>1, ElsewhereKeeps DEF WeComInv, WeComShape, EachInOnePlace, Carried
<1>2. CASE q = r
  <2>1. Head(answerCh[r]) \in Answers /\ answerCh[r] = <<Head(answerCh[r])>>
        /\ Tail(answerCh[r]) = <<>>
    BY ChannelOf DEF WeComInv, WeComShape
  <2>2. inHand'[r] = Head(answerCh[r]) /\ answerCh'[r] = <<>>
    BY <2>1 DEF WeComInv, WeComShape
  <2>3. OnePlace(r) /\ (Carried(r)' <=> Carried(r)) /\ UNCHANGED replies
    BY DEF WeComInv, EachInOnePlace, Carried
  <2>4. \A a \in Answers : (Seen(r, a)' <=> Seen(r, a)) /\ (a = inHand'[r] => answerCh[r] = <<a>>)
                          /\ answerCh'[r] # <<a>>
    BY <2>1, <2>2 DEF Seen
  <2>5. ASSUME NEW a \in Answers
        PROVE  ~ (<<r, a, "stream">> \in displayed' /\ <<r, a, "push">> \in displayed')
    BY <2>3 DEF OnePlace
  <2> QED
    BY <1>2, <2>3, <2>4, <2>5 DEF OnePlace
<1> QED
  BY <1>1, <1>2

(* The answer in the hand of a task is written, or lost. *)
LEMMA ShowingKeeps ==
  ASSUME WeComInv, NEW r \in Requests, NEW how \in {"stream", "push"},
         inHand' = [inHand EXCEPT ![r] = 0],
         displayed' \in {displayed, displayed \cup {<<r, inHand[r], how>>}},
         UNCHANGED <<replies, send, answerCh>>
  PROVE  EachInOnePlace'
<1> SUFFICES ASSUME NEW q \in Requests PROVE OnePlace(q)'
  BY DEF EachInOnePlace
<1>1. CASE q # r
  BY <1>1, ElsewhereKeeps DEF WeComInv, WeComShape, EachInOnePlace, Carried
<1>2. CASE q = r
  <2>1. OnePlace(r) /\ inHand'[r] = 0 /\ answerCh'[r] = answerCh[r]
    BY DEF WeComInv, WeComShape, EachInOnePlace
  <2>2. \A a \in Answers : a # 0
    BY WeComAssumption DEF Answers
  <2>3. ASSUME NEW a \in Answers PROVE Seen(r, a)' => Seen(r, a) \/ a = inHand[r]
    BY DEF Seen
  <2>4. ASSUME NEW a \in Answers
        PROVE  ~ (<<r, a, "stream">> \in displayed' /\ <<r, a, "push">> \in displayed')
    BY <2>1 DEF OnePlace, Seen
  <2> QED
    BY <1>2, <2>1, <2>2, <2>3, <2>4 DEF OnePlace, Carried
<1> QED
  BY <1>1, <1>2

(* Send takes over a new answer. *)
LEMMA SendKeeps ==
  ASSUME WeComInv, NEW r \in Requests, Send(r)
  PROVE  EachInOnePlace'
<1> SUFFICES ASSUME NEW q \in Requests PROVE OnePlace(q)'
  BY DEF EachInOnePlace
<1>1. /\ UNCHANGED <<inHand, answerCh, displayed>> /\ send.at = "idle"
      /\ replies' = [replies EXCEPT ![r] = @ + 1] /\ replies[r] \in Nat
      /\ send' = send \/ send'.req = r
  BY WeComAssumption DEF Send, taskVars, outsideVars, WeComInv, WeComShape
<1>2. CASE q # r
  BY <1>1, <1>2, ElsewhereKeeps DEF WeComInv, WeComShape, EachInOnePlace, Carried
<1>3. CASE q = r
  <2>1. OnePlace(r) /\ replies'[r] = replies[r] + 1
    BY <1>1 DEF WeComInv, WeComShape, EachInOnePlace
  <2>2. \A a \in Answers : a <= replies[r] => a <= replies'[r] /\ a # replies'[r]
    BY <1>1, <2>1 DEF Answers
  <2> QED
    BY <1>1, <1>3, <2>1, <2>2 DEF OnePlace, Seen
<1> QED
  BY <1>2, <1>3

(* Send puts the answer into the channel, gives it up, or pushes it. *)
LEMMA SendStepKeeps ==
  ASSUME WeComInv, SendStep
  PROVE  EachInOnePlace'
<1> PICK r \in Requests : r = send.req
  BY DEF SendStep, SendToTask, GiveUpAnswer, PushAnswer, WeComInv, WeComShape
<1>1. OnePlace(r) /\ Carried(r) /\ ~Carried(r)' /\ replies[r] \in Answers
      /\ UNCHANGED <<inHand, replies>> /\ \A q \in Requests : ~Carried(q)'
  BY WeComAssumption DEF SendStep, SendToTask, GiveUpAnswer, PushAnswer, Carried, NoSend, taskVars,
     Answers, WeComInv, WeComShape, EachInOnePlace
<1> SUFFICES ASSUME NEW q \in Requests PROVE OnePlace(q)'
  BY DEF EachInOnePlace
<1>2. CASE SendToTask
  <2>1. answerCh' = [answerCh EXCEPT ![r] = <<replies[r]>>] /\ UNCHANGED displayed
    BY <1>2 DEF SendToTask, Answer, outsideVars
  <2>2. CASE q # r
    BY <1>1, <2>1, <2>2, ElsewhereKeeps DEF WeComInv, WeComShape, EachInOnePlace
  <2>3. CASE q = r
    <3>1. answerCh'[r] = <<replies[r]>>
      BY <2>1 DEF WeComInv, WeComShape
    <3>2. \A a : answerCh'[r] = <<a>> => a = replies[r]
      BY <3>1
    <3> QED
      BY <1>1, <2>1, <2>3, <3>2, WeComAssumption DEF OnePlace, Seen, Answers
  <2> QED
    BY <2>2, <2>3
<1>3. CASE GiveUpAnswer
  BY <1>1, <1>3, ElsewhereKeeps DEF GiveUpAnswer, outsideVars, WeComInv, EachInOnePlace
<1>4. CASE PushAnswer
  <2>1. displayed' \in {displayed, displayed \cup {<<r, replies[r], "push">>}}
        /\ UNCHANGED answerCh
    BY <1>4 DEF PushAnswer, Answer
  <2>2. CASE q # r
    BY <1>1, <2>1, <2>2, ElsewhereKeeps DEF WeComInv, EachInOnePlace
  <2>3. CASE q = r
    <3>1. ASSUME NEW a \in Answers PROVE Seen(r, a)' => Seen(r, a) \/ a = replies[r]
      BY <2>1 DEF Seen
    <3>2. ASSUME NEW a \in Answers
          PROVE  ~ (<<r, a, "stream">> \in displayed' /\ <<r, a, "push">> \in displayed')
      BY <1>1, <2>1 DEF OnePlace, Seen
    <3>3. replies[r] <= replies[r]
      BY <1>1 DEF Answers
    <3> QED
      BY <1>1, <2>1, <2>3, <3>1, <3>2, <3>3 DEF OnePlace
  <2> QED
    BY <2>2, <2>3
<1> QED
  BY <1>2, <1>3, <1>4 DEF SendStep

\* Every answer stays in one place.
LEMMA PlacesKept ==
  ASSUME WeComInv, [WeComNext]_wecomVars
  PROVE  EachInOnePlace'
<1>1. ASSUME UNCHANGED <<inHand, answerCh, replies, send, displayed>>
      PROVE  EachInOnePlace'
  BY <1>1 DEF WeComInv, EachInOnePlace, OnePlace, Carried, Seen
<1>2. CASE LinkStep \/ Break
  BY <1>2, LinkKeeps DEF WeComInv
<1>3. ASSUME NEW r \in Requests, GetRequest(r) \/ DispatchTask(r) \/ OpenStream(r) \/ Deadline(r)
                                   \/ FinishStream(r) \/ EndTask(r) \/ WindowPasses(r)
      PROVE  EachInOnePlace'
  BY <1>1, <1>3 DEF GetRequest, DispatchTask, OpenStream, Deadline, FinishStream, EndTask,
     WindowPasses, taskVars, outsideVars
<1>4. ASSUME NEW r \in Requests, TakeAnswer(r) \/ Grace(r)
      PROVE  EachInOnePlace'
  BY <1>1, <1>4, TakingKeepsLanes DEF TakeAnswer, Grace, outsideVars
<1>5. ASSUME NEW r \in Requests, StreamAnswer(r)
      PROVE  EachInOnePlace'
  <2>1. displayed' \in {displayed, displayed \cup {<<r, inHand[r], "stream">>}}
    BY <1>5 DEF StreamAnswer
  <2> QED
    BY <1>5, <2>1, ShowingKeeps DEF StreamAnswer
<1>6. ASSUME NEW r \in Requests, PushInHand(r)
      PROVE  EachInOnePlace'
  <2>1. displayed' \in {displayed, displayed \cup {<<r, inHand[r], "push">>}}
    BY <1>6 DEF PushInHand
  <2> QED
    BY <1>6, <2>1, ShowingKeeps DEF PushInHand
<1>7. CASE UNCHANGED wecomVars
  BY <1>1, <1>7 DEF wecomVars, taskVars, outsideVars
<1> QED
  BY <1>2, <1>3, <1>4, <1>5, <1>6, <1>7, SendKeeps, SendStepKeeps DEF WeComNext, TaskStep

-------------------------------------------------------------------------------
(* The theorems *)

\* The invariant holds before the first request.
LEMMA WeComStart == WeComInit => WeComInv
  BY WeComAssumption DEF WeComInit, WeComInv, WeComShape, RouteIsOver, EachInOnePlace, OnePlace,
     Carried, Seen, NoSend, Answers

(* The invariant of the WeCom channel. *)
THEOREM WeComInvariant == WeComSpec => []WeComInv
<1>1. WeComInv /\ [WeComNext]_wecomVars => WeComInv'
  BY ShapeKept, RouteKept, PlacesKept DEF WeComInv
<1> QED
  BY WeComStart, <1>1, PTL DEF WeComSpec

(* However the connection breaks, tasks are cancelled and expire, and         *)
(* responses get lost: no answer is shown twice, and none is passed over.     *)
THEOREM AnswersShownOnce == WeComSpec => []AnswersSound
<1>1. WeComInv => AnswersSound
  BY DEF WeComInv, RouteIsOver, EachInOnePlace, OnePlace, AnswersSound, Answers
<1> QED
  BY <1>1, WeComInvariant, PTL

\* The rest of the types of the WeCom channel: the connection it writes to is the
\* newest or none.
WeComRest ==
    /\ conn \in {0, link} /\ link \in 0..MaxLinks
    /\ linkState \in {"down", "up", "broken", "dropped"}
    /\ asked \subseteq Requests /\ closedOff \subseteq Requests
    /\ send.at \in {"idle", "put", "push"} /\ lostAcks \in 0..MaxLostAcks

\* A frame that is lost or refused is within the bound.
LEMMA FrameTyped ==
  ASSUME lostAcks \in 0..MaxLostAcks, NEW c, NEW ok, NEW got, Frame(c, ok, got)
  PROVE  lostAcks' \in 0..MaxLostAcks
  BY WeComAssumption DEF Frame

LEMMA WeComRestKept ==
  ASSUME WeComRest, [WeComNext]_wecomVars
  PROVE  WeComRest'
<1> USE DEF WeComRest
<1>1. CASE LinkStep \/ Break
  BY <1>1, WeComAssumption
  DEF LinkStep, Break, Connect, DropConn, EndConnection, outsideVars
<1>2. CASE SendStep
  <2>1. linkVars' = linkVars /\ asked' = asked /\ closedOff' = closedOff /\ send' = NoSend
    BY <1>2 DEF SendStep, SendToTask, GiveUpAnswer, PushAnswer, LinkUnchanged, outsideVars
  <2>2. lostAcks' \in 0..MaxLostAcks
    BY <1>2, FrameTyped DEF SendStep, SendToTask, GiveUpAnswer, PushAnswer, outsideVars
  <2> QED
    BY <2>1, <2>2 DEF linkVars, NoSend
<1>3. ASSUME NEW r \in Requests, GetRequest(r) \/ TaskStep(r) \/ Send(r) \/ WindowPasses(r)
      PROVE  WeComRest'
  <2>1. linkVars' = linkVars
    BY <1>3
    DEF GetRequest, TaskStep, Send, WindowPasses, DispatchTask, OpenStream, TakeAnswer,
        StreamAnswer, Deadline, FinishStream, Grace, PushInHand, EndTask, LinkUnchanged
  <2>2. asked' \subseteq Requests
    BY <1>3
    DEF GetRequest, TaskStep, Send, WindowPasses, DispatchTask, OpenStream, TakeAnswer,
        StreamAnswer, Deadline, FinishStream, Grace, PushInHand, EndTask
  <2>3. closedOff' \subseteq Requests
    BY <1>3
    DEF GetRequest, TaskStep, Send, WindowPasses, DispatchTask, OpenStream, TakeAnswer,
        StreamAnswer, Deadline, FinishStream, Grace, PushInHand, EndTask, outsideVars
  <2>4. send'.at \in {"idle", "put", "push"}
    BY <1>3
    DEF GetRequest, TaskStep, Send, WindowPasses, DispatchTask, OpenStream, TakeAnswer,
        StreamAnswer, Deadline, FinishStream, Grace, PushInHand, EndTask
  <2>5. lostAcks' \in 0..MaxLostAcks
    BY <1>3, FrameTyped
    DEF GetRequest, TaskStep, Send, WindowPasses, DispatchTask, OpenStream, TakeAnswer,
        StreamAnswer, Deadline, FinishStream, Grace, PushInHand, EndTask, outsideVars
  <2> QED
    BY <2>1, <2>2, <2>3, <2>4, <2>5 DEF linkVars
<1>4. CASE UNCHANGED wecomVars
  BY <1>4 DEF wecomVars, linkVars, outsideVars
<1> QED
  BY <1>1, <1>2, <1>3, <1>4 DEF WeComNext

\* The types of the WeCom channel.
LEMMA WeComTypes == WeComSpec => []WeComTypeOK
<1>1. WeComInit => WeComRest
  BY WeComAssumption DEF WeComInit, WeComRest, NoSend
<1>2. WeComRest /\ [WeComNext]_wecomVars => WeComRest'
  BY WeComRestKept
<1>3. WeComInv /\ WeComRest => WeComTypeOK
  <2> SUFFICES ASSUME WeComInv, WeComRest PROVE WeComTypeOK
    OBVIOUS
  <2>1. \A r \in Requests : Len(answerCh[r]) <= 1 /\ inHand[r] \in 0..MaxReplies
    <3> TAKE r \in Requests
    <3>1. answerCh[r] \in {<<>>} \cup {<<a>> : a \in Answers}
      BY DEF WeComInv, WeComShape
    <3>2. inHand[r] \in 0..MaxReplies
      BY DEF WeComInv, WeComShape
    <3>3. CASE answerCh[r] = <<>>
      BY <3>2, <3>3
    <3>4. CASE \E a \in Answers : answerCh[r] = <<a>>
      BY <3>2, <3>4
    <3> QED  BY <3>1, <3>3, <3>4
  <2>2. {cancelled, asked, closedOff} \subseteq SUBSET Requests
    BY DEF WeComInv, WeComShape, WeComRest
  <2> QED
    BY <2>1, <2>2 DEF WeComInv, WeComShape, WeComRest, WeComTypeOK
<1> QED
  BY <1>1, <1>2, <1>3, WeComInvariant, PTL DEF WeComSpec

-------------------------------------------------------------------------------
(* The approval hooks *)

Before == {"idle", "ready", "check"}   \* a call has no id yet
Verdicts == {"yes", "no"}

HooksShape ==
    /\ mounted \in 0..MaxProcesses /\ processes \in 0..MaxProcesses
    /\ nextId \in [Processes -> Nat]
    /\ pending \in [Processes -> SUBSET (Nat \X ToolCalls)]
    /\ received \in [Processes -> SUBSET (Nat \X ToolCalls)]
    /\ pipe \in [Processes -> SUBSET (Nat \X Verdicts)]
    /\ reader \in [Processes -> {<<>>} \cup (ToolCalls \X Verdicts)]
    /\ asking \in [ToolCalls -> {"idle", "ready", "check", "send", "wait", "over"}]
    /\ via \in [ToolCalls -> 0..MaxProcesses]
    /\ rpcId \in [ToolCalls -> Nat]
    /\ respCh \in [ToolCalls -> {"empty", "yes", "no", "closed"}]
    /\ verdict \in [ToolCalls -> {"none", "yes", "no"}]

\* A call has one id, from the counter of its process, and no other call of the
\* process has it.
IdsOwn ==
    /\ \A c \in ToolCalls :
          /\ asking[c] \in Before => rpcId[c] = 0 /\ respCh[c] = "empty"
          /\ asking[c] \in {"idle", "ready"} => verdict[c] = "none"
          /\ asking[c] \in {"check", "send", "wait"} => via[c] # 0
          /\ asking[c] \in {"send", "wait"} => rpcId[c] # 0
          /\ rpcId[c] # 0 => via[c] # 0 /\ rpcId[c] <= nextId[via[c]]
    /\ \A c, d \in ToolCalls :
          rpcId[c] # 0 /\ rpcId[c] = rpcId[d] /\ via[c] = via[d] => c = d

\* Who waits, and what has been sent, is listed with the process and id of the
\* call; who waits has no answer yet.
ListedRight ==
    /\ \A p \in Processes : \A w \in pending[p] :
          /\ w[1] # 0 /\ rpcId[w[2]] = w[1] /\ via[w[2]] = p
          /\ respCh[w[2]] = "empty"
    /\ \A p \in Processes : \A q \in received[p] :
          q[1] # 0 /\ rpcId[q[2]] = q[1] /\ via[q[2]] = p

\* A yes on its way comes from a process that has granted the call of its id.
YesIsGranted ==
    /\ \A p \in Processes : \A a \in pipe[p] :
          /\ a[1] # 0 /\ a[1] <= nextId[p]
          /\ a[2] = "yes" =>
                \A c \in ToolCalls : via[c] = p /\ rpcId[c] = a[1] => c \in granted
    /\ \A p \in Processes : reader[p] # <<>> =>
          /\ via[reader[p][1]] = p /\ rpcId[reader[p][1]] # 0
          /\ respCh[reader[p][1]] = "empty"
          /\ \A w \in pending[p] : w[2] # reader[p][1]
          /\ reader[p][2] = "yes" => reader[p][1] \in granted
    /\ \A c \in ToolCalls : respCh[c] = "yes" => c \in granted

HooksInv == HooksShape /\ IdsOwn /\ ListedRight /\ YesIsGranted /\ GrantsAreOwn

LEMMA HooksInitHolds == HooksInit => HooksInv
  BY HooksAssumption
  DEF HooksInit, HooksInv, HooksShape, IdsOwn, ListedRight, YesIsGranted, GrantsAreOwn, Before,
      Processes

(* Mounting and reloads do not touch the calls. *)
LEMMA MountingKeeps ==
  ASSUME HooksInv,
         \/ StartHook \/ EnsureEnd \/ ResetHooks \/ UnmountBegin \/ UnmountEnd
         \/ \E c \in ToolCalls : EnsureBegin(c)
         \/ UNCHANGED hookVars
  PROVE  HooksInv'
<1>1. UNCHANGED <<rpcVars, callVars, granted>>
  BY DEF StartHook, EnsureEnd, ResetHooks, UnmountBegin, UnmountEnd, EnsureBegin, hookVars
<1>2. mounted' \in 0..MaxProcesses /\ processes' \in 0..MaxProcesses
  BY HooksAssumption DEF HooksInv, HooksShape, StartHook, EnsureEnd, ResetHooks, UnmountBegin,
     UnmountEnd, EnsureBegin, hookVars, mountVars, processVars
<1>3. hooksCrashed' => onceBroken'
  BY DEF HooksInv, GrantsAreOwn, StartHook, EnsureEnd, ResetHooks, UnmountBegin, UnmountEnd,
         EnsureBegin, hookVars
<1> QED
  BY <1>1, <1>2, <1>3
  DEF HooksInv, HooksShape, IdsOwn, ListedRight, YesIsGranted, GrantsAreOwn, rpcVars, callVars

(* A call that has no id yet. *)
LEMMA AskingKeeps ==
  ASSUME HooksInv, NEW c \in ToolCalls, BeginCall(c) \/ Ask(c)
  PROVE  HooksInv'
<1> USE DEF HooksInv, CallFrame, mountVars, processVars, rpcVars
<1>1. asking[c] \in {"idle", "ready"} /\ rpcId[c] = 0 /\ verdict[c] = "none"
  BY DEF BeginCall, Ask, IdsOwn, Before
<1>2. /\ UNCHANGED <<nextId, pending, received, pipe, reader, rpcId, respCh, expired, granted>>
      /\ UNCHANGED <<mounted, processes, onceBroken, hooksCrashed>>
  BY DEF BeginCall, Ask
<1>3. CASE BeginCall(c)
  <2>1. UNCHANGED <<via, verdict>> /\ asking' = [asking EXCEPT ![c] = "ready"]
    BY <1>3 DEF BeginCall
  <2>2. HooksShape'
    BY <1>2, <2>1 DEF HooksShape
  <2>3. IdsOwn'
    BY <1>1, <1>2, <2>1 DEF IdsOwn, HooksShape, Before
  <2>4. ListedRight' /\ YesIsGranted' /\ GrantsAreOwn'
    BY <1>2, <2>1 DEF ListedRight, YesIsGranted, GrantsAreOwn
  <2> QED
    BY <2>2, <2>3, <2>4
<1>4. CASE Ask(c)
  <2>1. /\ via' = [via EXCEPT ![c] = mounted]
        /\ \/ /\ mounted = 0 /\ asking' = [asking EXCEPT ![c] = "over"]
              /\ verdict' = [verdict EXCEPT ![c] = "yes"]
           \/ /\ mounted # 0 /\ asking' = [asking EXCEPT ![c] = "check"]
              /\ UNCHANGED verdict
    BY <1>1, <1>4 DEF Ask, Verdict, HooksShape
  <2>2. HooksShape'
    BY <1>2, <2>1 DEF HooksShape
  <2>3. \A d \in ToolCalls \ {c} : via'[d] = via[d] /\ asking'[d] = asking[d]
                                     /\ verdict'[d] = verdict[d]
    BY <2>1 DEF HooksShape
  <2>4. /\ via'[c] = mounted
        /\ mounted = 0 => asking'[c] = "over" /\ verdict'[c] = "yes"
        /\ mounted # 0 => asking'[c] = "check" /\ verdict'[c] = "none"
    BY <1>1, <2>1 DEF HooksShape
  <2>5. respCh[c] = "empty"
    BY <1>4 DEF Ask, IdsOwn, Before
  <2>6. IdsOwn'
    BY <1>1, <1>2, <2>3, <2>4, <2>5 DEF IdsOwn, Before
  <2>7. ListedRight'
    <3>1. \A p \in Processes : \A w \in pending[p] \cup received[p] : w[2] \in ToolCalls \ {c}
      BY <1>1 DEF ListedRight, HooksShape
    <3> QED
      BY <1>2, <2>3, <3>1 DEF ListedRight
  <2>8. YesIsGranted'
    <3>1. \A p \in Processes : reader[p] # <<>> => reader[p][1] \in ToolCalls \ {c}
      BY <1>1 DEF YesIsGranted, HooksShape
    <3>2. \A p \in Processes : \A a \in pipe[p] : a[1] # 0
      BY DEF YesIsGranted
    <3> QED
      BY <1>1, <1>2, <2>3, <3>1, <3>2 DEF YesIsGranted
  <2>9. GrantsAreOwn'
    BY <1>2, <2>3, <2>4 DEF GrantsAreOwn
  <2> QED
    BY <2>2, <2>6, <2>7, <2>8, <2>9
<1> QED
  BY <1>3, <1>4

(* The call gets its id. *)
LEMMA RegisterKeeps ==
  ASSUME HooksInv, NEW c \in ToolCalls, Register(c)
  PROVE  HooksInv'
<1> USE DEF HooksInv, CallFrame, mountVars, processVars
<1>1. /\ UNCHANGED <<mounted, processes, onceBroken, hooksCrashed>>
      /\ UNCHANGED <<received, pipe, reader, via, respCh, expired, granted>>
      /\ asking[c] = "check" /\ rpcId[c] = 0 /\ respCh[c] = "empty" /\ via[c] \in Processes
  BY HooksAssumption DEF Register, IdsOwn, Before, HooksShape, Processes
<1>2. CASE via[c] \in hookClosed
  <2>1. /\ UNCHANGED <<nextId, pending, rpcId>> /\ asking' = [asking EXCEPT ![c] = "over"]
        /\ verdict' \in [ToolCalls -> {"none", "yes", "no"}]
        /\ \A d \in ToolCalls : verdict'[d] = "yes" => verdict[d] = "yes"
        /\ \A d \in ToolCalls \ {c} : verdict'[d] = verdict[d]
    BY <1>2 DEF Register, Deny, Verdict, HooksShape
  <2>2. HooksShape'
    BY <1>1, <2>1 DEF HooksShape
  <2>3. IdsOwn'
    BY <1>1, <2>1 DEF IdsOwn, HooksShape, Before
  <2>4. ListedRight' /\ YesIsGranted' /\ GrantsAreOwn'
    BY <1>1, <2>1 DEF ListedRight, YesIsGranted, GrantsAreOwn
  <2> QED
    BY <2>2, <2>3, <2>4
<1>3. CASE via[c] \notin hookClosed
  <2> DEFINE p == via[c]
             id == nextId[p] + 1
  <2>1. /\ nextId' = [nextId EXCEPT ![p] = id]
        /\ rpcId' = [rpcId EXCEPT ![c] = id]
        /\ pending' = [pending EXCEPT ![p] = pending[p] \cup {<<id, c>>}]
        /\ asking' = [asking EXCEPT ![c] = "send"] /\ UNCHANGED verdict
    BY <1>3 DEF Register, NewId
  <2>2. id \in Nat /\ id # 0 /\ id > nextId[p]
    BY <1>1 DEF HooksShape
  <2> HIDE DEF p, id
  <2>3. p \in Processes /\ p = via[c] /\ p # 0
    BY <1>1 DEF p, Processes
  <2>4. /\ rpcId'[c] = id /\ asking'[c] = "send"
        /\ \A d \in ToolCalls \ {c} : rpcId'[d] = rpcId[d] /\ asking'[d] = asking[d]
        /\ nextId'[p] = id
        /\ \A q \in Processes \ {p} : nextId'[q] = nextId[q] /\ pending'[q] = pending[q]
        /\ pending'[p] = pending[p] \cup {<<id, c>>}
    BY <1>1, <2>1, <2>3 DEF HooksShape
  <2>5. HooksShape'
    <3>1. <<id, c>> \in Nat \X ToolCalls
      BY <2>2
    <3>2. nextId' \in [Processes -> Nat]
      BY <2>1, <2>2 DEF HooksShape
    <3>3. pending' \in [Processes -> SUBSET (Nat \X ToolCalls)]
      BY <2>1, <3>1 DEF HooksShape
    <3>4. rpcId' \in [ToolCalls -> Nat]
      BY <2>1, <2>2 DEF HooksShape
    <3> QED
      BY <1>1, <2>1, <3>2, <3>3, <3>4 DEF HooksShape
  <2>6. \A d \in ToolCalls : rpcId[d] # 0 => via[d] \in Processes /\ rpcId[d] <= nextId'[via[d]]
    BY <2>2, <2>4 DEF IdsOwn, HooksShape, Processes
  <2>7. \A d \in ToolCalls : via[d] = p => rpcId[d] # id
    BY <2>2, <2>3, <2>4 DEF IdsOwn, HooksShape
  <2>8. IdsOwn'
    <3>1. \A d \in ToolCalls :
             /\ asking'[d] \in Before => rpcId'[d] = 0 /\ respCh'[d] = "empty"
             /\ asking'[d] \in {"idle", "ready"} => verdict'[d] = "none"
             /\ asking'[d] \in {"check", "send", "wait"} => via'[d] # 0
             /\ asking'[d] \in {"send", "wait"} => rpcId'[d] # 0
      BY <1>1, <2>1, <2>2, <2>3, <2>4 DEF IdsOwn, Before
    <3>2. \A d \in ToolCalls : rpcId'[d] # 0 => via'[d] # 0 /\ rpcId'[d] <= nextId'[via'[d]]
      BY <1>1, <2>2, <2>3, <2>4, <2>6 DEF IdsOwn
    <3>3. \A d, e \in ToolCalls :
             rpcId'[d] # 0 /\ rpcId'[d] = rpcId'[e] /\ via'[d] = via'[e] => d = e
      BY <1>1, <2>3, <2>4, <2>7 DEF IdsOwn
    <3> QED
      BY <3>1, <3>2, <3>3 DEF IdsOwn
  <2>9. ListedRight'
    <3>1. \A q \in Processes : \A w \in pending[q] \cup received[q] : w[2] \in ToolCalls \ {c}
      BY <1>1 DEF ListedRight, HooksShape
    <3>2. \A q \in Processes : \A w \in pending'[q] : w \in pending[q] \/ (q = p /\ w = <<id, c>>)
      BY <2>4
    <3> QED
      BY <1>1, <2>2, <2>3, <2>4, <3>1, <3>2 DEF ListedRight
  <2>10. YesIsGranted'
    <3>1. \A q \in Processes : \A a \in pipe[q] : a[1] # 0 /\ a[1] <= nextId[q] /\ a[1] \in Nat
      BY DEF YesIsGranted, HooksShape
    <3>2. \A q \in Processes : nextId[q] \in Nat /\ nextId'[q] \in Nat /\ nextId[q] <= nextId'[q]
      <4> TAKE q \in Processes
      <4>1. nextId[q] \in Nat /\ nextId[p] \in Nat
        BY <2>3 DEF HooksShape
      <4>2. CASE q = p
        BY <4>1, <4>2, <2>2, <2>4
      <4>3. CASE q # p
        BY <4>1, <4>3, <2>4
      <4> QED
        BY <4>2, <4>3
    <3>3. \A q \in Processes : \A a \in pipe'[q] :
             /\ a[1] # 0 /\ a[1] <= nextId'[q]
             /\ a[2] = "yes" =>
                   \A d \in ToolCalls : via'[d] = q /\ rpcId'[d] = a[1] => d \in granted'
      <4> SUFFICES ASSUME NEW q \in Processes, NEW a \in pipe[q]
                   PROVE  /\ a[1] # 0 /\ a[1] <= nextId'[q]
                          /\ a[2] = "yes" => \A d \in ToolCalls :
                                via[d] = q /\ rpcId'[d] = a[1] => d \in granted
        BY <1>1
      <4>1. a[1] # 0 /\ a[1] <= nextId'[q]
        BY <3>1, <3>2
      <4>2. via[c] = q => a[1] # id
        BY <2>2, <2>3, <3>1, <3>2
      <4> QED
        BY <4>1, <4>2, <2>4 DEF YesIsGranted
    <3>4. \A q \in Processes : reader[q] # <<>> => reader[q][1] \in ToolCalls \ {c}
      BY <1>1 DEF YesIsGranted, HooksShape
    <3>5. \A q \in Processes : reader'[q] # <<>> =>
             /\ via'[reader'[q][1]] = q /\ rpcId'[reader'[q][1]] # 0
             /\ respCh'[reader'[q][1]] = "empty"
             /\ \A w \in pending'[q] : w[2] # reader'[q][1]
             /\ reader'[q][2] = "yes" => reader'[q][1] \in granted'
      <4>1. \A q \in Processes : \A w \in pending'[q] : w \in pending[q] \/ w[2] = c
        BY <2>4
      <4> QED
        BY <1>1, <2>4, <3>4, <4>1 DEF YesIsGranted
    <3> QED
      BY <1>1, <3>3, <3>5 DEF YesIsGranted
  <2>11. GrantsAreOwn'
    BY <1>1, <2>1 DEF GrantsAreOwn
  <2> QED
    BY <2>5, <2>8, <2>9, <2>10, <2>11
<1> QED
  BY <1>2, <1>3

(* What only takes calls out of the lists, answers them with a no or closes  *)
(* their channel grants nothing.                                            *)
LEMMA LessKeeps ==
  ASSUME HooksInv, HooksShape', UNCHANGED <<nextId, reader, via, rpcId, granted>>,
         \A p \in Processes : /\ pending'[p] \subseteq pending[p]
                              /\ pipe'[p] \subseteq pipe[p],
         \A p \in Processes : \A q \in received'[p] :
            q \in received[p] \/ (q[1] # 0 /\ rpcId[q[2]] = q[1] /\ via[q[2]] = p),
         \A c \in ToolCalls : respCh'[c] # respCh[c] =>
            /\ respCh'[c] # "yes" /\ asking'[c] \notin Before
            /\ \A p \in Processes :
                  /\ reader[p] # <<>> => reader[p][1] # c
                  /\ \A w \in pending'[p] : w[2] # c,
         \A c \in ToolCalls :
            /\ asking'[c] # asking[c] =>
                  \/ asking[c] \in {"check", "send", "wait"} /\ asking'[c] = "over"
                  \/ asking[c] = "send" /\ asking'[c] = "wait"
            /\ verdict'[c] # verdict[c] => asking[c] \notin {"idle", "ready"}
            /\ verdict'[c] = "yes" => verdict[c] = "yes" \/ respCh[c] = "yes",
         hooksCrashed' => onceBroken'
  PROVE  HooksInv'
<1> USE DEF HooksInv
<1>1. IdsOwn'
  <2>1. \A c \in ToolCalls : asking'[c] \in Before => asking'[c] = asking[c] /\ respCh'[c] = respCh[c]
    BY DEF Before
  <2>2. \A c \in ToolCalls : asking'[c] \in {"idle", "ready"} => verdict'[c] = verdict[c]
    BY <2>1 DEF Before
  <2>3. \A c \in ToolCalls :
           /\ asking'[c] \in {"check", "send", "wait"} => asking[c] \in {"check", "send", "wait"}
           /\ asking'[c] \in {"send", "wait"} => asking[c] \in {"send", "wait"}
    OBVIOUS
  <2> QED
    BY <2>1, <2>2, <2>3 DEF IdsOwn, Before
<1>2. ListedRight'
  <2>1. \A p \in Processes : \A w \in pending'[p] : w \in pending[p] /\ w[2] \in ToolCalls
    BY DEF HooksShape
  <2>2. \A p \in Processes : \A w \in pending'[p] :
           /\ w[1] # 0 /\ rpcId'[w[2]] = w[1] /\ via'[w[2]] = p
           /\ respCh'[w[2]] = "empty"
    BY <2>1 DEF ListedRight
  <2> QED
    BY <2>2 DEF ListedRight
<1>3. YesIsGranted'
  <2>1. \A p \in Processes : reader[p] # <<>> => reader[p][1] \in ToolCalls
    BY DEF HooksShape
  <2>2. \A p \in Processes : reader'[p] # <<>> =>
           /\ via'[reader'[p][1]] = p /\ rpcId'[reader'[p][1]] # 0
           /\ respCh'[reader'[p][1]] = "empty"
           /\ \A w \in pending'[p] : w[2] # reader'[p][1]
           /\ reader'[p][2] = "yes" => reader'[p][1] \in granted'
    BY <2>1 DEF YesIsGranted
  <2>3. \A p \in Processes : \A a \in pipe'[p] :
           /\ a[1] # 0 /\ a[1] <= nextId'[p]
           /\ a[2] = "yes" =>
                 \A c \in ToolCalls : via'[c] = p /\ rpcId'[c] = a[1] => c \in granted'
    BY DEF YesIsGranted
  <2>4. \A c \in ToolCalls : respCh'[c] = "yes" => c \in granted'
    BY DEF YesIsGranted
  <2> QED
    BY <2>2, <2>3, <2>4 DEF YesIsGranted
<1>4. GrantsAreOwn'
  BY DEF GrantsAreOwn, YesIsGranted
<1> QED
  BY <1>1, <1>2, <1>3, <1>4

(* A call that is removed from the list gets a closed channel, if it was     *)
(* still in it.                                                             *)
LEMMA RemovalTakesOut ==
  ASSUME HooksInv, NEW c \in ToolCalls, via[c] \in Processes, RemovePending(c)
  PROVE  /\ pending' \in [Processes -> SUBSET (Nat \X ToolCalls)]
         /\ respCh' \in [ToolCalls -> {"empty", "yes", "no", "closed"}]
         /\ \A p \in Processes : pending'[p] \subseteq pending[p]
         /\ \A d \in ToolCalls : respCh'[d] # respCh[d] =>
               /\ d = c /\ respCh'[d] = "closed"
               /\ \A p \in Processes :
                     /\ reader[p] # <<>> => reader[p][1] # d
                     /\ \A w \in pending'[p] : w[2] # d
<1> USE DEF HooksInv
<1>1. /\ pending' = [pending EXCEPT ![via[c]] = pending[via[c]] \ {<<rpcId[c], c>>}]
      /\ IF <<rpcId[c], c>> \in pending[via[c]] THEN respCh' = [respCh EXCEPT ![c] = "closed"]
         ELSE respCh' = respCh
  BY DEF RemovePending
<1>2. /\ pending' \in [Processes -> SUBSET (Nat \X ToolCalls)]
      /\ respCh' \in [ToolCalls -> {"empty", "yes", "no", "closed"}]
      /\ \A p \in Processes : pending'[p] \subseteq pending[p]
  BY <1>1 DEF HooksShape
<1>3. ASSUME NEW d \in ToolCalls, respCh'[d] # respCh[d]
      PROVE  /\ d = c /\ respCh'[d] = "closed"
             /\ \A p \in Processes :
                   /\ reader[p] # <<>> => reader[p][1] # d
                   /\ \A w \in pending'[p] : w[2] # d
  <2>1. d = c /\ respCh'[d] = "closed" /\ <<rpcId[c], c>> \in pending[via[c]]
    BY <1>1, <1>3 DEF HooksShape
  <2>2. \A p \in Processes : reader[p] # <<>> => reader[p][1] # c
    BY <2>1 DEF YesIsGranted
  <2>3. \A p \in Processes : \A w \in pending'[p] : w[2] # c
    <3> SUFFICES ASSUME NEW p \in Processes, NEW w \in pending'[p], w[2] = c PROVE FALSE
      OBVIOUS
    <3>1. w \in pending[p] /\ w \in Nat \X ToolCalls
      BY <1>2
    <3>2. w[1] = rpcId[c] /\ via[c] = p
      BY <3>1 DEF ListedRight
    <3>3. w = <<rpcId[c], c>>
      BY <3>1, <3>2
    <3> QED
      BY <1>1, <3>2, <3>3 DEF HooksShape
  <2> QED
    BY <2>1, <2>2, <2>3
<1> QED
  BY <1>2, <1>3

(* The call sends its request, waits, gets its answer or gives up. *)
LEMMA CallKeeps ==
  ASSUME HooksInv, NEW c \in ToolCalls,
         SendRequest(c) \/ GetAnswer(c) \/ ApprovalTimeout(c) \/ StopWaitingForAnswer(c)
  PROVE  HooksInv'
<1> USE DEF CallFrame, mountVars, processVars, rpcVars
<1>1. HooksShape /\ asking[c] \in {"check", "send", "wait"}
  BY DEF HooksInv, SendRequest, GetAnswer, ApprovalTimeout, StopWaitingForAnswer
<1>2. via[c] \in Processes
  BY <1>1, HooksAssumption DEF HooksInv, HooksShape, IdsOwn, Processes
<1>3. /\ UNCHANGED <<mounted, processes, nextId, reader, via, rpcId, granted, pipe, onceBroken,
                     hooksCrashed>>
      /\ hooksCrashed => onceBroken
  BY DEF SendRequest, GetAnswer, ApprovalTimeout, StopWaitingForAnswer, HooksInv, GrantsAreOwn
<1>4. CASE SendRequest(c)
  <2>1. asking[c] = "send" /\ rpcId[c] # 0 /\ rpcId[c] \in Nat
    BY <1>1, <1>4 DEF SendRequest, HooksInv, IdsOwn, HooksShape
  <2>2. CASE /\ received' = [received EXCEPT ![via[c]] = received[via[c]] \cup {<<rpcId[c], c>>}]
             /\ asking' = [asking EXCEPT ![c] = "wait"]
             /\ UNCHANGED <<pending, respCh, verdict>>
    <3>1. <<rpcId[c], c>> \in Nat \X ToolCalls
      BY <2>1
    <3>2. HooksShape'
      BY <1>1, <1>3, <2>2, <3>1 DEF HooksShape
    <3>3. \A p \in Processes : \A q \in received'[p] :
             q \in received[p] \/ (q[1] # 0 /\ rpcId[q[2]] = q[1] /\ via[q[2]] = p)
      BY <1>1, <2>1, <2>2 DEF HooksShape
    <3>4. \A d \in ToolCalls : asking'[d] # asking[d] => asking[d] = "send" /\ asking'[d] = "wait"
      BY <1>1, <2>1, <2>2 DEF HooksShape
    <3> QED
      BY <1>3, <2>2, <3>2, <3>3, <3>4, LessKeeps
  <2>3. CASE RemovePending(c) /\ Deny(c) /\ UNCHANGED received
    <3>1. /\ asking' = [asking EXCEPT ![c] = "over"]
          /\ verdict' = [verdict EXCEPT ![c] = IF verdict[c] = "none" THEN "no" ELSE verdict[c]]
      BY <2>3 DEF Deny, Verdict
    <3>2. /\ pending' \in [Processes -> SUBSET (Nat \X ToolCalls)]
          /\ respCh' \in [ToolCalls -> {"empty", "yes", "no", "closed"}]
          /\ \A p \in Processes : pending'[p] \subseteq pending[p]
          /\ \A d \in ToolCalls : respCh'[d] # respCh[d] =>
                /\ d = c /\ respCh'[d] = "closed"
                /\ \A p \in Processes :
                      /\ reader[p] # <<>> => reader[p][1] # d
                      /\ \A w \in pending'[p] : w[2] # d
      BY <1>2, <2>3, RemovalTakesOut
    <3>3. HooksShape'
      BY <1>1, <1>3, <2>3, <3>1, <3>2 DEF HooksShape
    <3>4. \A d \in ToolCalls :
             /\ asking'[d] # asking[d] \/ verdict'[d] # verdict[d] \/ d = c =>
                   asking[d] = "send" /\ asking'[d] = "over"
             /\ verdict'[d] = "yes" => verdict[d] = "yes"
      BY <1>1, <2>1, <3>1 DEF HooksShape
    <3> QED
      BY <1>3, <2>3, <3>2, <3>3, <3>4, LessKeeps DEF Before
  <2> QED
    BY <1>4, <2>2, <2>3 DEF SendRequest
<1>5. CASE GetAnswer(c)
  <2>1. /\ UNCHANGED <<pending, received, respCh>>
        /\ asking[c] = "wait" /\ asking' = [asking EXCEPT ![c] = "over"]
        /\ \/ respCh[c] = "yes" /\ verdict' \in {verdict, [verdict EXCEPT ![c] = "yes"]}
           \/ verdict' \in {verdict, [verdict EXCEPT ![c] = "no"]}
    BY <1>1, <1>5 DEF GetAnswer, Verdict, HooksShape
  <2>2. HooksShape'
    BY <1>1, <1>3, <2>1 DEF HooksShape
  <2>3. \A d \in ToolCalls :
           /\ asking'[d] # asking[d] => asking[d] = "wait" /\ asking'[d] = "over"
           /\ verdict'[d] # verdict[d] => asking[d] = "wait"
           /\ verdict'[d] = "yes" => verdict[d] = "yes" \/ respCh[d] = "yes"
    BY <1>1, <2>1 DEF HooksShape
  <2> QED
    BY <1>3, <2>1, <2>2, <2>3, LessKeeps
<1>6. CASE ApprovalTimeout(c)
  <2>1. /\ UNCHANGED <<pending, received, respCh, asking>>
        /\ verdict' = [verdict EXCEPT ![c] = "no"]
    BY <1>1, <1>6 DEF ApprovalTimeout, Verdict, HooksShape
  <2>2. HooksShape'
    BY <1>1, <1>3, <2>1 DEF HooksShape
  <2>3. \A d \in ToolCalls :
           /\ verdict'[d] # verdict[d] => asking[d] \in {"check", "send", "wait"}
           /\ verdict'[d] = "yes" => verdict[d] = "yes"
    BY <1>1, <2>1 DEF HooksShape
  <2> QED
    BY <1>3, <2>1, <2>2, <2>3, LessKeeps
<1>7. CASE StopWaitingForAnswer(c)
  <2>1. /\ UNCHANGED <<received, verdict>> /\ RemovePending(c)
        /\ asking[c] = "wait" /\ asking' = [asking EXCEPT ![c] = "over"]
    BY <1>7 DEF StopWaitingForAnswer
  <2>2. /\ pending' \in [Processes -> SUBSET (Nat \X ToolCalls)]
        /\ respCh' \in [ToolCalls -> {"empty", "yes", "no", "closed"}]
        /\ \A p \in Processes : pending'[p] \subseteq pending[p]
        /\ \A d \in ToolCalls : respCh'[d] # respCh[d] =>
              /\ d = c /\ respCh'[d] = "closed"
              /\ \A p \in Processes :
                    /\ reader[p] # <<>> => reader[p][1] # d
                    /\ \A w \in pending'[p] : w[2] # d
    BY <1>2, <2>1, RemovalTakesOut
  <2>3. HooksShape'
    BY <1>1, <1>3, <2>1, <2>2 DEF HooksShape
  <2>4. \A d \in ToolCalls : asking'[d] # asking[d] \/ d = c =>
           asking[d] = "wait" /\ asking'[d] = "over"
    BY <1>1, <2>1 DEF HooksShape
  <2> QED
    BY <1>3, <2>1, <2>2, <2>3, <2>4, LessKeeps DEF Before
<1> QED
  BY <1>4, <1>5, <1>6, <1>7

(* The process ends and what waits for it fails. *)
LEMMA EndingKeeps ==
  ASSUME HooksInv, NEW p \in Processes, ExitProcess(p) \/ Reap(p) \/ FailPending(p)
  PROVE  HooksInv'
<1> USE DEF ProcessFrame, mountVars, callVars, rpcVars
<1>1. HooksShape /\ (hooksCrashed => onceBroken)
  BY DEF HooksInv, GrantsAreOwn
<1>2. UNCHANGED <<mounted, processes, nextId, reader, via, rpcId, granted, asking, verdict,
                  onceBroken, hooksCrashed>>
  BY DEF ExitProcess, Reap, FailPending
<1>3. CASE ExitProcess(p) \/ Reap(p)
  <2>1. /\ UNCHANGED <<pending, respCh>>
        /\ received' \in {received, [received EXCEPT ![p] = {}]}
        /\ pipe' \in {pipe, [pipe EXCEPT ![p] = {}]}
    BY <1>3 DEF ExitProcess, Reap
  <2>2. HooksShape'
    BY <1>1, <1>2, <2>1 DEF HooksShape
  <2>3. \A q \in Processes : received'[q] \subseteq received[q] /\ pipe'[q] \subseteq pipe[q]
    BY <1>1, <2>1 DEF HooksShape
  <2> QED
    BY <1>1, <1>2, <2>1, <2>2, <2>3, LessKeeps
<1>4. CASE FailPending(p)
  <2>1. /\ UNCHANGED <<received, pipe>> /\ pending' = [pending EXCEPT ![p] = {}]
        /\ respCh' = [c \in ToolCalls |->
                        IF \E w \in pending[p] : w[2] = c THEN "no" ELSE respCh[c]]
    BY <1>4 DEF FailPending
  <2>2. HooksShape'
    BY <1>1, <1>2, <2>1 DEF HooksShape
  <2>3. ASSUME NEW c \in ToolCalls, respCh'[c] # respCh[c]
        PROVE  /\ respCh'[c] = "no" /\ asking[c] \notin Before
               /\ \A q \in Processes :
                     /\ reader[q] # <<>> => reader[q][1] # c
                     /\ \A w \in pending'[q] : w[2] # c
    <3>1. respCh'[c] = "no" /\ \E w \in pending[p] : w[2] = c
      BY <2>1, <2>3
    <3>2. via[c] = p /\ rpcId[c] # 0
      BY <3>1 DEF HooksInv, ListedRight
    <3>3. asking[c] \notin Before
      BY <3>2 DEF HooksInv, IdsOwn
    <3>4. \A q \in Processes : reader[q] # <<>> => reader[q][1] # c
      BY <3>1, <3>2 DEF HooksInv, YesIsGranted
    <3>5. \A q \in Processes : \A w \in pending'[q] : w[2] # c
      BY <1>1, <2>1, <3>2 DEF HooksInv, ListedRight, HooksShape
    <3> QED
      BY <3>1, <3>3, <3>4, <3>5
  <2>4. \A q \in Processes : pending'[q] \subseteq pending[q]
    BY <1>1, <2>1 DEF HooksShape
  <2> QED
    BY <1>1, <1>2, <2>1, <2>2, <2>3, <2>4, LessKeeps
<1> QED
  BY <1>3, <1>4

(* The process grants a call before its yes is on the way. *)
LEMMA DecideKeeps ==
  ASSUME HooksInv, NEW p \in Processes, Decide(p)
  PROVE  HooksInv'
<1> USE DEF ProcessFrame, mountVars, callVars, HooksInv
<1>1. PICK q \in received[p], answer \in Verdicts :
         /\ received' = [received EXCEPT ![p] = received[p] \ {q}]
         /\ pipe' = [pipe EXCEPT ![p] = pipe[p] \cup {<<q[1], answer>>}]
         /\ granted' = IF answer = "yes" THEN granted \cup {q[2]} ELSE granted
  BY DEF Decide, Verdicts
<1>2. UNCHANGED <<mounted, processes, nextId, pending, reader, asking, via, rpcId, respCh,
                  verdict, onceBroken, hooksCrashed>>
  BY DEF Decide
<1>3. /\ q[1] \in Nat /\ q[2] \in ToolCalls /\ q[1] # 0
      /\ rpcId[q[2]] = q[1] /\ via[q[2]] = p
  BY DEF HooksShape, ListedRight
<1>4. HooksShape'
  <2>1. <<q[1], answer>> \in Nat \X Verdicts
    BY <1>3
  <2> QED
    BY <1>1, <1>2, <2>1 DEF HooksShape
<1>5. IdsOwn'
  BY <1>2 DEF IdsOwn
<1>6. ListedRight'
  <2>1. \A r \in Processes : received'[r] \subseteq received[r]
    BY <1>1 DEF HooksShape
  <2> QED
    BY <1>2, <2>1 DEF ListedRight
<1>7. granted \subseteq granted'
  BY <1>1
<1>8. YesIsGranted'
  <2>1. ASSUME NEW r \in Processes, NEW a \in pipe'[r]
        PROVE  /\ a[1] # 0 /\ a[1] <= nextId[r]
               /\ a[2] = "yes" =>
                     \A c \in ToolCalls : via[c] = r /\ rpcId[c] = a[1] => c \in granted'
    <3>1. CASE a \in pipe[r]
      BY <1>7, <3>1 DEF YesIsGranted
    <3>2. CASE r = p /\ a = <<q[1], answer>>
      <4>1. a[1] # 0 /\ a[1] <= nextId[r]
        BY <1>3, <3>2 DEF IdsOwn
      <4>2. ASSUME a[2] = "yes", NEW c \in ToolCalls, via[c] = r, rpcId[c] = a[1]
            PROVE  c \in granted'
        <5>1. c = q[2]
          BY <1>3, <3>2, <4>2 DEF IdsOwn
        <5> QED
          BY <1>1, <3>2, <4>2, <5>1
      <4> QED
        BY <4>1, <4>2
    <3> QED
      BY <1>1, <2>1, <3>1, <3>2 DEF HooksShape
  <2>2. \A r \in Processes : reader'[r] # <<>> =>
           /\ via'[reader'[r][1]] = r /\ rpcId'[reader'[r][1]] # 0
           /\ respCh'[reader'[r][1]] = "empty"
           /\ \A w \in pending'[r] : w[2] # reader'[r][1]
           /\ reader'[r][2] = "yes" => reader'[r][1] \in granted'
    BY <1>2, <1>7 DEF YesIsGranted
  <2>3. \A c \in ToolCalls : respCh'[c] = "yes" => c \in granted'
    BY <1>2, <1>7 DEF YesIsGranted
  <2> QED
    BY <1>2, <2>1, <2>2, <2>3 DEF YesIsGranted
<1>9. GrantsAreOwn'
  BY <1>2, <1>7 DEF GrantsAreOwn
<1> QED
  BY <1>4, <1>5, <1>6, <1>8, <1>9

(* readLoop finds the call of the id. *)
LEMMA ReadKeeps ==
  ASSUME HooksInv, NEW p \in Processes, ReadAnswer(p)
  PROVE  HooksInv'
<1> USE DEF ProcessFrame, mountVars, callVars, HooksInv
<1>1. PICK a \in pipe[p] :
         /\ pipe' = [pipe EXCEPT ![p] = pipe[p] \ {a}]
         /\ pending' = [pending EXCEPT ![p] = pending[p] \ {w \in pending[p] : w[1] = a[1]}]
         /\ \/ UNCHANGED reader
            \/ \E w \in {v \in pending[p] : v[1] = a[1]} :
                  reader' = [reader EXCEPT ![p] = <<w[2], a[2]>>]
  BY DEF ReadAnswer
<1>2. UNCHANGED <<mounted, processes, nextId, received, asking, via, rpcId, respCh, verdict,
                  granted, onceBroken, hooksCrashed>>
  BY DEF ReadAnswer
<1>3. \A r \in Processes : pending'[r] \subseteq pending[r] /\ pipe'[r] \subseteq pipe[r]
  BY <1>1 DEF HooksShape
<1>4. CASE UNCHANGED reader
  <2>1. HooksShape'
    BY <1>1, <1>2, <1>4 DEF HooksShape
  <2> QED
    BY <1>2, <1>3, <1>4, <2>1, LessKeeps DEF GrantsAreOwn
<1>5. ASSUME NEW w \in pending[p], w[1] = a[1], reader' = [reader EXCEPT ![p] = <<w[2], a[2]>>]
      PROVE  HooksInv'
  <2>1. /\ w[2] \in ToolCalls /\ a[2] \in Verdicts
        /\ rpcId[w[2]] = a[1] /\ a[1] # 0 /\ via[w[2]] = p /\ respCh[w[2]] = "empty"
        /\ a[2] = "yes" => w[2] \in granted
    BY <1>5 DEF HooksShape, ListedRight, YesIsGranted
  <2>2. HooksShape'
    <3>1. <<w[2], a[2]>> \in ToolCalls \X Verdicts
      BY <2>1
    <3> QED
      BY <1>1, <1>2, <1>5, <3>1 DEF HooksShape
  <2>3. IdsOwn' /\ ListedRight' /\ GrantsAreOwn'
    BY <1>2, <1>3 DEF IdsOwn, ListedRight, GrantsAreOwn
  <2>4. \A v \in pending'[p] : v[2] # w[2]
    BY <1>1, <2>1 DEF ListedRight, HooksShape
  <2>5. \A r \in Processes : reader'[r] # <<>> =>
           /\ via'[reader'[r][1]] = r /\ rpcId'[reader'[r][1]] # 0
           /\ respCh'[reader'[r][1]] = "empty"
           /\ \A v \in pending'[r] : v[2] # reader'[r][1]
           /\ reader'[r][2] = "yes" => reader'[r][1] \in granted'
    <3> TAKE r \in Processes
    <3>1. CASE r = p
      <4>1. reader'[r] = <<w[2], a[2]>>
        BY <1>5, <3>1 DEF HooksShape
      <4> QED
        BY <1>2, <2>1, <2>4, <3>1, <4>1
    <3>2. CASE r # p
      <4>1. reader'[r] = reader[r]
        BY <1>5, <3>2 DEF HooksShape
      <4> QED
        BY <1>2, <1>3, <4>1 DEF YesIsGranted
    <3> QED
      BY <3>1, <3>2
  <2>6. YesIsGranted'
    BY <1>2, <1>3, <2>5 DEF YesIsGranted
  <2> QED
    BY <2>2, <2>3, <2>6
<1> QED
  BY <1>1, <1>4, <1>5

(* ... and hands it the answer, on a channel that is empty and open. *)
LEMMA HandOverKeeps ==
  ASSUME HooksInv, NEW p \in Processes, HandOver(p)
  PROVE  HooksInv'
<1> USE DEF ProcessFrame, mountVars, HooksInv
<1> DEFINE c == reader[p][1]
           ans == reader[p][2]
<1>1. /\ c \in ToolCalls /\ ans \in Verdicts /\ reader[p] # <<>>
      /\ via[c] = p /\ rpcId[c] # 0 /\ respCh[c] = "empty"
      /\ ans = "yes" => c \in granted
      /\ \A w \in pending[p] : w[2] # c
  BY DEF HandOver, HooksShape, YesIsGranted
<1>2. /\ reader' = [reader EXCEPT ![p] = <<>>] /\ respCh' = [respCh EXCEPT ![c] = ans]
      /\ hooksCrashed' = FALSE
      /\ UNCHANGED <<mounted, processes, nextId, pending, received, pipe, asking, via, rpcId,
                     verdict, granted, onceBroken>>
  BY <1>1 DEF HandOver
<1> HIDE DEF c, ans
<1>3. HooksShape'
  BY <1>1, <1>2 DEF HooksShape, Verdicts
<1>4. /\ respCh'[c] = ans
      /\ \A d \in ToolCalls \ {c} : respCh'[d] = respCh[d]
  BY <1>1, <1>2 DEF HooksShape
<1>5. IdsOwn'
  BY <1>1, <1>2, <1>4 DEF IdsOwn
<1>6. ListedRight'
  <2>1. \A r \in Processes : \A w \in pending[r] : w[2] \in ToolCalls \ {c}
    BY <1>1 DEF ListedRight, HooksShape
  <2> QED
    BY <1>2, <1>4, <2>1 DEF ListedRight
<1>7. YesIsGranted'
  <2>1. \A r \in Processes : reader'[r] # <<>> =>
           reader'[r] = reader[r] /\ reader[r][1] \in ToolCalls \ {c}
    BY <1>1, <1>2 DEF YesIsGranted, HooksShape
  <2> QED
    BY <1>1, <1>2, <1>4, <2>1 DEF YesIsGranted
<1>8. GrantsAreOwn'
  BY <1>2 DEF GrantsAreOwn
<1> QED
  BY <1>3, <1>5, <1>6, <1>7, <1>8

(* The invariant of the approval hooks. *)
THEOREM HooksInvariant == HooksSpec => []HooksInv
<1>1. HooksInv /\ [HooksNext]_hookVars => HooksInv'
  BY MountingKeeps, AskingKeeps, RegisterKeeps, CallKeeps, EndingKeeps, DecideKeeps, ReadKeeps,
     HandOverKeeps DEF HooksNext
<1> QED
  BY HooksInitHolds, <1>1, PTL DEF HooksSpec

(* ApproveTool lets a tool run on the word of its approver only if that has  *)
(* said yes to this very call, and readLoop never sends on a closed channel.  *)
THEOREM ApprovalsAreOwn == HooksSpec => []GrantsAreOwn
  BY HooksInvariant, PTL DEF HooksInv

\* The rest of the types of the hooks.
HooksRest ==
    /\ hookInit \in {"fresh", "starting", "mounting", "done", "failed"}
    /\ listed \in BOOLEAN /\ onceBroken \in BOOLEAN /\ hooksCrashed \in BOOLEAN
    /\ unmounting \in 0..MaxProcesses
    /\ reset \in [count : Nat, of : 0..MaxProcesses]
    /\ process \in [Processes -> {"none", "runs", "exited", "reaped", "done"}]
    /\ expired \subseteq ToolCalls /\ granted \subseteq ToolCalls

LEMMA HooksRestKept ==
  ASSUME HooksInv, HooksRest, [HooksNext]_hookVars
  PROVE  HooksRest'
<1> USE HooksAssumption DEF HooksRest
<1>1. CASE StartHook \/ EnsureEnd \/ ResetHooks \/ UnmountBegin \/ UnmountEnd
  <2>1. mounted \in 0..MaxProcesses /\ mounted' \in 0..MaxProcesses
    BY <1>1, MountingKeeps DEF HooksInv, HooksShape
  <2>2. process' \in [Processes -> {"none", "runs", "exited", "reaped", "done"}]
    BY <1>1 DEF StartHook, EnsureEnd, ResetHooks, UnmountBegin, UnmountEnd, processVars
  <2>3. /\ reset' \in [count : Nat, of : 0..MaxProcesses]
        /\ unmounting' \in 0..MaxProcesses
    BY <1>1, <2>1 DEF StartHook, EnsureEnd, ResetHooks, UnmountBegin, UnmountEnd
  <2>4. /\ hookInit' \in {"fresh", "starting", "mounting", "done", "failed"}
        /\ listed' \in BOOLEAN /\ onceBroken' \in BOOLEAN /\ hooksCrashed' \in BOOLEAN
    BY <1>1 DEF StartHook, EnsureEnd, ResetHooks, UnmountBegin, UnmountEnd
  <2>5. expired' = expired /\ granted' = granted
    BY <1>1 DEF StartHook, EnsureEnd, ResetHooks, UnmountBegin, UnmountEnd, callVars
  <2> QED
    BY <2>2, <2>3, <2>4, <2>5
<1>2. ASSUME NEW c \in ToolCalls,
             \/ EnsureBegin(c) \/ BeginCall(c) \/ Ask(c) \/ Register(c) \/ SendRequest(c)
             \/ GetAnswer(c) \/ ApprovalTimeout(c) \/ StopWaitingForAnswer(c)
      PROVE  HooksRest'
  <2>1. /\ UNCHANGED <<listed, unmounting, reset, process, onceBroken, hooksCrashed, granted>>
        /\ hookInit' \in {hookInit, "starting"}
        /\ expired' \in {expired, expired \cup {c}}
    BY <1>2
    DEF EnsureBegin, BeginCall, Ask, Register, SendRequest, GetAnswer, ApprovalTimeout,
        StopWaitingForAnswer, CallFrame, mountVars, processVars, callVars
  <2> QED
    BY <2>1
<1>3. ASSUME NEW p \in Processes,
             \/ Decide(p) \/ ExitProcess(p) \/ ReadAnswer(p) \/ HandOver(p) \/ Reap(p)
             \/ FailPending(p)
      PROVE  HooksRest'
  <2>1. UNCHANGED <<mountVars, onceBroken, expired>>
    BY <1>3
    DEF Decide, ExitProcess, ReadAnswer, HandOver, Reap, FailPending, ProcessFrame, callVars
  <2>2. process' \in [Processes -> {"none", "runs", "exited", "reaped", "done"}]
    BY <1>3 DEF Decide, ExitProcess, ReadAnswer, HandOver, Reap, FailPending
  <2>3. hooksCrashed' \in BOOLEAN
    BY <1>3 DEF Decide, ExitProcess, ReadAnswer, HandOver, Reap, FailPending
  <2>4. granted' \subseteq ToolCalls
    <3>1. \A q \in received[p] : q[2] \in ToolCalls
      BY DEF HooksInv, HooksShape
    <3> QED
      BY <1>3, <3>1 DEF Decide, ExitProcess, ReadAnswer, HandOver, Reap, FailPending
  <2> QED
    BY <2>1, <2>2, <2>3, <2>4 DEF mountVars
<1>4. CASE UNCHANGED hookVars
  BY <1>4 DEF hookVars, mountVars, processVars, callVars
<1> QED
  BY <1>1, <1>2, <1>3, <1>4 DEF HooksNext

\* The types of the hooks: who waits in pending has an id the process has given.
LEMMA HooksTypes == HooksSpec => []HooksTypeOK
<1>1. HooksInit => HooksRest
  <2> SUFFICES ASSUME HooksInit PROVE HooksRest
    OBVIOUS
  <2>1. reset \in [count : Nat, of : 0..MaxProcesses]
    BY HooksAssumption DEF HooksInit
  <2>2. process \in [Processes -> {"none", "runs", "exited", "reaped", "done"}]
    BY DEF HooksInit
  <2> QED
    BY <2>1, <2>2, HooksAssumption DEF HooksInit, HooksRest
<1>2. HooksInv /\ HooksRest /\ [HooksNext]_hookVars => HooksRest'
  BY HooksRestKept
<1>3. HooksInv /\ HooksRest => HooksTypeOK
  <2> SUFFICES ASSUME HooksInv, HooksRest PROVE HooksTypeOK
    OBVIOUS
  <2>1. \A p \in Processes : \A w \in pending[p] : w[1] \in 1..nextId[p] /\ w[2] \in ToolCalls
    BY DEF HooksInv, HooksShape, IdsOwn, ListedRight
  <2>2. {listed, onceBroken, hooksCrashed} \subseteq BOOLEAN
    BY Zenon DEF HooksRest
  <2>3. {mounted, unmounting, processes} \subseteq 0..MaxProcesses
    BY DEF HooksRest, HooksInv, HooksShape
  <2> QED
    BY <2>1, <2>2, <2>3 DEF HooksInv, HooksShape, HooksRest, HooksTypeOK
<1> QED
  BY <1>1, <1>2, <1>3, HooksInvariant, PTL DEF HooksSpec

-------------------------------------------------------------------------------
(* The tool servers *)

\* Close has found a manager and waits for the calls, or is through.
CloseWaits == mcpClosing = "waiting"
CloseLocks == mcpClosing \in {"locking?", "locking"}
CloseIsOver == mcpClosing = "done" /\ ~closedEarly

\* The sessions and the initialisation: what is open is in the manager's map,
\* nothing connects any more once the tools are registered, the manager is set
\* at the end, and turns begin after it.
Initialised ==
    /\ \A s \in Servers : session[s] = "open" => s \in servers
    /\ mcpInit \in {"registering", "done", "failed"} =>
          \A s \in Servers : session[s] # "connecting"
    /\ managerSet => mcpInit = "done"
    /\ mcpInit # "done" => \A t \in ToolTurns : toolTurn[t] = "new"

\* Once wg.Wait has returned, no call but those it has missed is on its way,
\* and as closed is set there will be none.
ClosingInOrder ==
    /\ closedEarly => mcpClosing = "done"
    /\ CloseWaits \/ CloseLocks \/ CloseIsOver => mcpInit = "done" /\ mcpClosed
    /\ CloseLocks \/ CloseIsOver =>
          \A t \in ToolTurns : toolTurn[t] \in {"count", "calling"} => t \in raced
    /\ CloseIsOver => \A s \in Servers : session[s] # "open"
    /\ \A s \in Servers : session[s] = "closed" => mcpInit = "failed" \/ CloseIsOver

\* A turn that has not ended has a round left.
RoundsLeft == \A t \in ToolTurns : toolTurn[t] # "ended" => rounds[t] < MaxRounds

ServersInv == ToolServersTypeOK /\ Initialised /\ ClosingInOrder /\ RoundsLeft

LEMMA ServersInitHolds == ToolServersInit => ServersInv
<1> SUFFICES ASSUME ToolServersInit PROVE ServersInv
  OBVIOUS
<1> USE ToolServersAssumption DEF ToolServersInit
<1>1. 0 \in 0..ToolTTL /\ 0 \in 0..MaxRounds /\ (CHOOSE s \in Servers : TRUE) \in Servers
  OBVIOUS
<1>2. {managerSet, mcpClosed, closedEarly} \subseteq BOOLEAN
  OBVIOUS
<1>3. ToolServersTypeOK
  BY <1>1, <1>2 DEF ToolServersTypeOK
<1>4. Initialised /\ ClosingInOrder /\ RoundsLeft
  BY DEF Initialised, ClosingInOrder, RoundsLeft, CloseWaits, CloseLocks, CloseIsOver
<1> QED
  BY <1>3, <1>4 DEF ServersInv

(* The initialisation: it ends before turns begin and a manager is found.    *)
LEMMA InitialisationKeeps ==
  ASSUME ServersInv, EnsureMCP \/ Connected \/ RegisterTools \/ \E s \in Servers : ConnectServer(s)
  PROVE  ServersInv'
<1> USE DEF ServersInv, InitFrame, RoundsLeft, CloseWaits, CloseLocks, CloseIsOver
<1>1. CASE EnsureMCP
  <2>1. ToolServersTypeOK'
    BY <1>1 DEF ToolServersTypeOK, EnsureMCP
  <2>2. Initialised' /\ ClosingInOrder' /\ RoundsLeft'
    BY <1>1 DEF Initialised, ClosingInOrder, EnsureMCP
  <2> QED
    BY <2>1, <2>2
<1>2. CASE Connected
  <2>1. ToolServersTypeOK'
    BY <1>2 DEF ToolServersTypeOK, Connected
  <2>2. Initialised' /\ ClosingInOrder' /\ RoundsLeft'
    BY <1>2 DEF Initialised, ClosingInOrder, Connected
  <2> QED
    BY <2>1, <2>2
<1>3. CASE RegisterTools
  <2>1. ToolServersTypeOK'
    BY <1>3 DEF ToolServersTypeOK, RegisterTools, Registries
  <2>2. Initialised' /\ ClosingInOrder' /\ RoundsLeft'
    BY <1>3 DEF Initialised, ClosingInOrder, RegisterTools, ToolServersTypeOK
  <2> QED
    BY <2>1, <2>2
<1>4. CASE \E s \in Servers : ConnectServer(s)
  <2> PICK s \in Servers : ConnectServer(s)
    BY <1>4
  <2>1. ToolServersTypeOK'
    BY DEF ToolServersTypeOK, ConnectServer
  <2>2. Initialised' /\ ClosingInOrder' /\ RoundsLeft'
    BY DEF Initialised, ClosingInOrder, ConnectServer, ToolServersTypeOK
  <2> QED
    BY <2>1, <2>2
<1> QED
  BY <1>1, <1>2, <1>3, <1>4

(* A turn does not touch the sessions; only its second look at closed makes  *)
(* a call, and it makes none when closed is set.                            *)
LEMMA TurnsKeep ==
  ASSUME ServersInv, NEW t \in ToolTurns,
         \/ BeginToolTurn(t) \/ SearchTools(t) \/ PickTool(t) \/ GetTool(t) \/ FirstCheck(t)
         \/ SecondCheck(t) \/ CountCall(t) \/ CallReturns(t) \/ TickTTL(t)
  PROVE  ServersInv'
<1> USE ToolServersAssumption DEF ServersInv, Goto
<1>1. RegistryOf(t) \in Registries /\ AgentTools \in Registries
  BY DEF RegistryOf, Registries
<1>2. TurnFrame /\ mcpInit = "done" /\ toolTurn' = [toolTurn EXCEPT ![t] = toolTurn'[t]]
  BY DEF BeginToolTurn, SearchTools, PickTool, GetTool, FirstCheck, SecondCheck, CountCall,
         CallReturns, TickTTL, Initialised, ToolServersTypeOK
<1>3. toolTurn'[t] \in {"count", "calling"} => toolTurn[t] = "count" \/ ~mcpClosed
  BY DEF BeginToolTurn, SearchTools, PickTool, GetTool, FirstCheck, SecondCheck, CountCall,
         CallReturns, TickTTL, StillOpen, ToolServersTypeOK
<1>4. toolTurn'[t] \in {"new", "model", "get", "check", "lock", "count", "calling", "after", "ended"}
  BY DEF BeginToolTurn, SearchTools, PickTool, GetTool, FirstCheck, SecondCheck, CountCall,
         CallReturns, TickTTL, ToolServersTypeOK
<1>5. known' \in [Registries -> SUBSET Servers]
  BY <1>1 DEF BeginToolTurn, SearchTools, PickTool, GetTool, FirstCheck, SecondCheck, CountCall,
              CallReturns, TickTTL, ToolServersTypeOK
<1>6. ttl' \in [Registries -> [Servers -> 0..ToolTTL]]
  <2>1. CASE BeginToolTurn(t)
    BY <2>1, <1>1 DEF BeginToolTurn, ToolServersTypeOK
  <2>2. CASE SearchTools(t)
    <3> PICK found \in SUBSET known[AgentTools] : PromoteTools(found)
      BY <2>2 DEF SearchTools
    <3>1. [s \in Servers |-> IF s \in found THEN ToolTTL ELSE ttl[AgentTools][s]]
             \in [Servers -> 0..ToolTTL]
      BY <1>1 DEF ToolServersTypeOK
    <3> QED
      BY <3>1, <1>1 DEF PromoteTools, ToolServersTypeOK
  <2>3. CASE TickTTL(t)
    <3>1. [s \in Servers |-> IF s \in Unlocked(RegistryOf(t)) THEN ttl[RegistryOf(t)][s] - 1
                             ELSE ttl[RegistryOf(t)][s]] \in [Servers -> 0..ToolTTL]
      BY <1>1 DEF Unlocked, ToolServersTypeOK
    <3> QED
      BY <3>1, <2>3, <1>1 DEF TickTTL, ToolServersTypeOK
  <2> QED
    BY <2>1, <2>2, <2>3 DEF PickTool, GetTool, FirstCheck, SecondCheck, CountCall, CallReturns,
                            ToolServersTypeOK
<1>7. wanted' \in [ToolTurns -> Servers]
  BY <1>1 DEF BeginToolTurn, SearchTools, PickTool, GetTool, FirstCheck, SecondCheck, CountCall,
              CallReturns, TickTTL, Unlocked, ToolServersTypeOK
<1>8. rounds' \in [ToolTurns -> 0..MaxRounds] /\ RoundsLeft'
  <2>1. CASE TickTTL(t)
    <3>1. rounds[t] \in 0..MaxRounds /\ rounds[t] < MaxRounds
      BY <2>1 DEF TickTTL, ToolServersTypeOK, RoundsLeft
    <3>2. rounds[t] + 1 \in 0..MaxRounds
      BY <3>1
    <3>3. rounds' = [rounds EXCEPT ![t] = rounds[t] + 1]
      BY <2>1 DEF TickTTL
    <3>4. rounds' \in [ToolTurns -> 0..MaxRounds]
      BY <3>2, <3>3 DEF ToolServersTypeOK
    <3>5. toolTurn'[t] # "ended" => rounds'[t] < MaxRounds
      BY <2>1 DEF TickTTL, ToolServersTypeOK
    <3> QED
      BY <1>2, <3>3, <3>4, <3>5 DEF RoundsLeft, ToolServersTypeOK
  <2>2. CASE ~TickTTL(t)
    <3>1. UNCHANGED rounds /\ toolTurn[t] # "ended"
      BY <2>2 DEF BeginToolTurn, SearchTools, PickTool, GetTool, FirstCheck, SecondCheck,
                  CountCall, CallReturns
    <3> QED
      BY <1>2, <3>1 DEF RoundsLeft, ToolServersTypeOK
  <2> QED
    BY <2>1, <2>2
<1>9. ToolServersTypeOK'
  BY <1>2, <1>4, <1>5, <1>6, <1>7, <1>8 DEF ToolServersTypeOK, TurnFrame
<1>10. Initialised'
  BY <1>2 DEF Initialised, TurnFrame
<1>11. ClosingInOrder'
  BY <1>2, <1>3 DEF ClosingInOrder, TurnFrame, CloseWaits, CloseLocks, CloseIsOver, ToolServersTypeOK
<1> QED
  BY <1>8, <1>9, <1>10, <1>11

(* Close: wg.Wait returns when no call is counted, and those that are just   *)
(* being counted are raced.                                                 *)
LEMMA ClosingKeeps ==
  ASSUME ServersInv, TakeManager \/ WaitForCalls \/ AskForLock \/ CloseSessions
  PROVE  ServersInv'
<1> USE DEF ServersInv, CloseFrame, RoundsLeft, CloseWaits, CloseLocks, CloseIsOver
<1>1. CASE TakeManager
  <2>1. ToolServersTypeOK'
    BY <1>1 DEF TakeManager, ToolServersTypeOK
  <2>2. Initialised' /\ ClosingInOrder' /\ RoundsLeft'
    BY <1>1 DEF TakeManager, Initialised, ClosingInOrder
  <2> QED
    BY <2>1, <2>2
<1>2. CASE WaitForCalls
  <2>1. ToolServersTypeOK'
    BY <1>2 DEF WaitForCalls, Holding, ToolServersTypeOK
  <2>2. Initialised' /\ ClosingInOrder' /\ RoundsLeft'
    BY <1>2 DEF WaitForCalls, Holding, InFlight, Initialised, ClosingInOrder
  <2> QED
    BY <2>1, <2>2
<1>3. CASE AskForLock
  <2>1. ToolServersTypeOK'
    BY <1>3 DEF AskForLock, ToolServersTypeOK
  <2>2. Initialised' /\ ClosingInOrder' /\ RoundsLeft'
    BY <1>3 DEF AskForLock, Initialised, ClosingInOrder
  <2> QED
    BY <2>1, <2>2
<1>4. CASE CloseSessions
  <2>1. ToolServersTypeOK'
    BY <1>4 DEF CloseSessions, ToolServersTypeOK
  <2>2. ~closedEarly /\ ~closedEarly'
    BY <1>4 DEF CloseSessions, ClosingInOrder
  <2>3. Initialised' /\ ClosingInOrder' /\ RoundsLeft'
    BY <1>4, <2>2 DEF CloseSessions, Initialised, ClosingInOrder
  <2> QED
    BY <2>1, <2>3
<1> QED
  BY <1>1, <1>2, <1>3, <1>4

(* The invariant of the tool servers. *)
THEOREM ServersInvariant == ToolServersSpec => []ServersInv
<1>1. ServersInv /\ UNCHANGED toolVars => ServersInv'
  BY DEF ServersInv, ToolServersTypeOK, Initialised, ClosingInOrder, RoundsLeft, CloseWaits,
         CloseLocks, CloseIsOver, toolVars
<1>2. ServersInv /\ [ToolServersNext]_toolVars => ServersInv'
  BY <1>1, InitialisationKeeps, TurnsKeep, ClosingKeeps DEF ToolServersNext
<1> QED
  BY ServersInitHolds, <1>2, PTL DEF ToolServersSpec

(* AgentLoop.Close and Manager.Close end no call they had to wait for, and   *)
(* leave no session open, for any interleaving of initialisation, turns and  *)
(* Close.                                                                   *)
THEOREM CloseSparesCalls == ToolServersSpec => []SessionsOutliveCalls
<1>1. ServersInv => SessionsOutliveCalls
  BY DEF ServersInv, ToolServersTypeOK, Initialised, ClosingInOrder, CloseWaits, CloseLocks,
         CloseIsOver, SessionsOutliveCalls, InFlight
<1> QED
  BY <1>1, ServersInvariant, PTL
===============================================================================
