----------------------------- MODULE SubTurnProofs -----------------------------
(***************************************************************************)
(* Proofs about sub-turns: the slots of a turn, the results of its children  *)
(* and the cascade of HardAbort, for any number of turns, slots and buffers. *)
(***************************************************************************)
EXTENDS SubTurn, FiniteSetTheorems, TLAPS

\* The tree of turns and where their goroutines are.
TreeOK ==
    /\ st \in [Turns -> {"free", "waiting", "acquired", "registered", "running", "returned",
                         "delivering", "sending", "done"}]
    /\ parent \in [SubTurns -> Turns \cup {None}]
    /\ async \in [SubTurns -> BOOLEAN]
    /\ depth \in [Turns -> 0..MaxDepth]
    /\ active \subseteq Turns /\ panicked \subseteq SubTurns
    /\ \A t \in SubTurns : st[t] = "free" <=> parent[t] = None

HeldOf(p) == {t \in holds : parent[t] = p}
Inside == {"acquired", "registered", "running", "returned"}

\* A slot is held from its acquisition until the turn has returned, or, after a
\* panic, until its result is delivered; the tokens are counted.
SlotsOK ==
    /\ sem \in [Turns -> 0..MaxConcurrent]
    /\ holds \subseteq SubTurns
    /\ \A t \in holds : /\ parent[t] \in SubTurns
                        /\ st[t] \in Inside \cup {"delivering", "sending"}
                        /\ st[t] \in {"delivering", "sending"} => t \in panicked
    /\ \A t \in SubTurns : st[t] \in Inside /\ parent[t] # Root => t \in holds
    /\ \A p \in Turns : sem[p] = Cardinality(HeldOf(p))

\* The result of a turn has a fate when the turn is over; the results in a
\* channel are of children of its turn, over, and there once each; and one that
\* has been put into the channel and not polled is there.
ResultsOK ==
    /\ chan \in [Turns -> Seq(SubTurns)]
    /\ fate \in [SubTurns -> {"none", "refused", "returned", "channel", "injected", "orphan",
                              "nil"}]
    /\ \A p \in Turns :
          /\ Len(chan[p]) <= ChannelCap
          /\ \A i \in 1..Len(chan[p]) :
                /\ parent[chan[p][i]] = p /\ st[chan[p][i]] = "done"
                /\ fate[chan[p][i]] \in {"channel", "nil"}
          /\ \A i, j \in 1..Len(chan[p]) : chan[p][i] = chan[p][j] => i = j
    /\ \A t \in SubTurns : st[t] = "done" <=> fate[t] # "none"
    /\ \A t \in SubTurns : fate[t] = "channel" =>
          \E i \in 1..Len(chan[parent[t]]) : chan[parent[t]][i] = t

\* A turn that has been attached to its parent was registered before.
Settled(t) == st[t] \notin {"free", "waiting", "acquired", "registered"}

\* What a frame of Finish(true) will still finish: its turn, or the children.
Covers(f, t) ==
    \/ f.pc = "flag" /\ f.turn = t
    \/ f.pc = "close" /\ f.turn # Root /\ t \in ToSet(children[f.turn])
    \/ f.pc = "cascade" /\ t \in ToSet(f.todo)
Covered(t) == \E i \in 1..Len(abort) : Covers(abort[i], t)

Frames == [turn : Turns, pc : {"flag", "close", "cascade"}, todo : Seq(SubTurns)]

\* A child that is due, and still active, is finished or some frame covers it.
CascadeOK ==
    /\ finished \subseteq Turns /\ closed \subseteq Turns /\ aborts \in 0..MaxAborts
    /\ due \subseteq SubTurns
    /\ children \in [Turns -> Seq(SubTurns)]
    /\ abort \in Seq(Frames)
    /\ \A p \in Turns : \A t \in ToSet(children[p]) : Settled(t)
    /\ \A t \in due : Settled(t)
    /\ \A t \in due : t \in active => t \in finished \/ Covered(t)

SubTurnInv == TreeOK /\ SlotsOK /\ ResultsOK /\ CascadeOK

-------------------------------------------------------------------------------
(* Sequences *)

(* What the abort stack does with its top. *)
LEMMA TopReplaced ==
  ASSUME NEW S, NEW s \in Seq(S), s # <<>>, NEW x \in S
  PROVE  /\ <<x>> \o Tail(s) \in Seq(S) /\ Len(<<x>> \o Tail(s)) = Len(s)
         /\ (<<x>> \o Tail(s))[1] = x
         /\ \A i \in 2..Len(s) : (<<x>> \o Tail(s))[i] = s[i]
  OBVIOUS

LEMMA TopPushed ==
  ASSUME NEW S, NEW s \in Seq(S), s # <<>>, NEW x \in S, NEW y \in S
  PROVE  /\ <<x, y>> \o Tail(s) \in Seq(S) /\ Len(<<x, y>> \o Tail(s)) = Len(s) + 1
         /\ (<<x, y>> \o Tail(s))[1] = x /\ (<<x, y>> \o Tail(s))[2] = y
         /\ \A i \in 2..Len(s) : (<<x, y>> \o Tail(s))[i + 1] = s[i]
  OBVIOUS

LEMMA TailOf ==
  ASSUME NEW S, NEW s \in Seq(S), s # <<>>
  PROVE  /\ Head(s) \in S /\ Head(s) = s[1] /\ Tail(s) \in Seq(S)
         /\ Len(s) \in Nat \ {0} /\ Len(Tail(s)) = Len(s) - 1
         /\ \A i \in 2..Len(s) : Tail(s)[i - 1] = s[i]
         /\ \A i \in 1..Len(Tail(s)) : Tail(s)[i] = s[i + 1]
  OBVIOUS

LEMMA AppendOf ==
  ASSUME NEW S, NEW s \in Seq(S), NEW x \in S
  PROVE  /\ Append(s, x) \in Seq(S) /\ Len(Append(s, x)) = Len(s) + 1
         /\ Append(s, x)[Len(s) + 1] = x
         /\ \A i \in 1..Len(s) : Append(s, x)[i] = s[i]
  OBVIOUS

LEMMA RootIsNoSubTurn ==
  Root \notin SubTurns /\ Root \in Turns /\ SubTurns \subseteq Turns /\ None \notin Turns
  /\ IsFiniteSet(SubTurns)
<1>1. IsFiniteSet(SubTurns)
  BY SubTurnAssumption, FS_Interval DEF SubTurns
<1> QED
  BY <1>1, SubTurnAssumption DEF Root, SubTurns, Turns, None

-------------------------------------------------------------------------------
(* The tree *)

LEMMA TreeKept ==
  ASSUME TreeOK, [Next]_vars
  PROVE  TreeOK'
<1> USE RootIsNoSubTurn DEF TreeOK, Goto
<1>1. ASSUME NEW p \in Turns, NEW t \in SubTurns, NEW a \in BOOLEAN, Spawn(p, t, a)
      PROVE  TreeOK'
  BY <1>1 DEF Spawn
<1>2. ASSUME NEW t \in SubTurns, Acquire(t) \/ StopWaiting(t) \/ Refuse(t) \/ Attach(t)
      PROVE  TreeOK'
  BY <1>2 DEF Acquire, StopWaiting, Refuse, Attach, treeVars
<1>3. ASSUME NEW t \in SubTurns, Register(t)
      PROVE  TreeOK'
  <2>1. depth' \in [Turns -> 0..MaxDepth]
    <3>1. parent[t] \in Turns
      BY <1>3 DEF Register
    <3>2. depth[parent[t]] + 1 \in 0..MaxDepth
      BY <1>3, <3>1, SubTurnAssumption DEF Register
    <3> QED
      BY <1>3, <3>2 DEF Register
  <2> QED
    BY <1>3, <2>1 DEF Register
<1>4. ASSUME NEW t \in SubTurns, Panic(t) \/ Release(t) \/ CheckParent(t) \/ Send(t) \/ SendClosed(t)
      PROVE  TreeOK'
  BY <1>4 DEF Panic, Release, CheckParent, Send, SendClosed, Delivered, treeVars
<1>5. ASSUME NEW t \in Turns, Poll(t) \/ HardAbort(t)
      PROVE  TreeOK'
  BY <1>5 DEF Poll, HardAbort, treeVars
<1>6. ASSUME NEW t \in Turns, Return(t)
      PROVE  TreeOK'
  BY <1>6 DEF Return, treeVars
<1>7. CASE Finish
  BY <1>7 DEF Finish, FinishFlag, FinishClose, FinishCascade, treeVars
<1>8. CASE UNCHANGED vars
  BY <1>8 DEF vars, treeVars
<1> QED
  BY <1>1, <1>2, <1>3, <1>4, <1>5, <1>6, <1>7, <1>8 DEF Next, Begin, Deliver

-------------------------------------------------------------------------------
(* The slots *)

LEMMA HeldFinite ==
  ASSUME SlotsOK, NEW p
  PROVE  IsFiniteSet(HeldOf(p)) /\ Cardinality(HeldOf(p)) \in Nat
<1>1. HeldOf(p) \in SUBSET SubTurns
  BY DEF HeldOf, SlotsOK
<1> QED
  BY <1>1, RootIsNoSubTurn, FS_Subset, FS_CardinalityType

(* FreeSlot takes one token out of the semaphore of the parent. *)
LEMMA SlotFreed ==
  ASSUME TreeOK, SlotsOK, NEW t \in SubTurns, FreeSlot(t), UNCHANGED parent
  PROVE  /\ sem' \in [Turns -> 0..MaxConcurrent] /\ holds' = holds \ {t}
         /\ \A p \in Turns : sem'[p] = Cardinality(HeldOf(p)')
<1>1. CASE t \notin holds
  <2>1. holds' = holds /\ sem' = sem
    BY <1>1 DEF FreeSlot, slotVars
  <2>2. \A p \in Turns : HeldOf(p)' = HeldOf(p)
    BY <2>1 DEF HeldOf
  <2> QED
    BY <1>1, <2>1, <2>2 DEF SlotsOK
<1>2. CASE t \in holds
  <2> PICK q \in Turns : q = parent[t]
    BY <1>2, RootIsNoSubTurn DEF SlotsOK
  <2>1. /\ q \in SubTurns /\ q \in Turns /\ holds' = holds \ {t}
        /\ sem' = [sem EXCEPT ![q] = sem[q] - 1]
    BY <1>2, RootIsNoSubTurn DEF FreeSlot, SlotsOK
  <2>2. t \in HeldOf(q) /\ HeldOf(q)' = HeldOf(q) \ {t}
    BY <1>2, <2>1 DEF HeldOf
  <2>3. /\ Cardinality(HeldOf(q)) \in Nat /\ Cardinality(HeldOf(q)) # 0
        /\ Cardinality(HeldOf(q)') = Cardinality(HeldOf(q)) - 1
    <3> DEFINE H == HeldOf(q)
    <3>1. IsFiniteSet(H) /\ Cardinality(H) \in Nat /\ t \in H
      BY <2>2, HeldFinite, Zenon
    <3> HIDE DEF H
    <3>2. Cardinality(H) # 0
      BY <3>1, FS_EmptySet
    <3>3. Cardinality(H \ {t}) = Cardinality(H) - 1
      BY <3>1, FS_RemoveElement
    <3> QED  BY <2>2, <3>1, <3>2, <3>3 DEF H
  <2>4. \A p \in Turns \ {q} : HeldOf(p)' = HeldOf(p)
    BY <2>1 DEF HeldOf
  <2>5. sem[q] \in 0..MaxConcurrent /\ sem[q] = Cardinality(HeldOf(q))
    BY <2>1 DEF SlotsOK
  <2>6. sem[q] - 1 \in 0..MaxConcurrent
    BY <2>3, <2>5, SubTurnAssumption
  <2>7. sem' \in [Turns -> 0..MaxConcurrent]
    BY <2>1, <2>6 DEF SlotsOK
  <2>8. ASSUME NEW p \in Turns PROVE sem'[p] = Cardinality(HeldOf(p)')
    <3>1. CASE p = q
      BY <3>1, <2>1, <2>3, <2>5 DEF SlotsOK
    <3>2. CASE p # q
      <4>1. sem'[p] = sem[p] /\ HeldOf(p)' = HeldOf(p)
        BY <3>2, <2>1, <2>4 DEF SlotsOK
      <4> QED
        BY <4>1 DEF SlotsOK
    <3> QED
      BY <3>1, <3>2
  <2> QED
    BY <2>1, <2>7, <2>8
<1> QED
  BY <1>1, <1>2

LEMMA SlotTaken ==
  ASSUME TreeOK, SlotsOK, NEW t \in SubTurns, Acquire(t)
  PROVE  SlotsOK'
<1> PICK q \in Turns : q = parent[t]
  BY DEF Acquire, TreeOK
<1>1. /\ q \in Turns /\ st[t] = "waiting" /\ st' = [st EXCEPT ![t] = "acquired"]
      /\ UNCHANGED <<parent, panicked>> /\ t \notin holds
  BY RootIsNoSubTurn DEF Acquire, TreeOK, SlotsOK, Goto, treeVars, Inside
<1>2. CASE q = Root
  <2>1. UNCHANGED <<sem, holds>>
    BY <1>2 DEF Acquire, slotVars
  <2>2. \A p \in Turns : HeldOf(p)' = HeldOf(p)
    BY <1>1, <2>1 DEF HeldOf
  <2>3. \A u \in SubTurns \ {t} : st'[u] = st[u]
    BY <1>1 DEF TreeOK
  <2>4. \A u \in SubTurns : st'[u] \in Inside /\ parent'[u] # Root => u \in holds'
    BY <1>1, <1>2, <2>1, <2>3 DEF SlotsOK
  <2>5. \A u \in holds' : u \in SubTurns \ {t}
    BY <1>1, <2>1 DEF SlotsOK
  <2> QED
    BY <1>1, <2>1, <2>2, <2>3, <2>4, <2>5 DEF SlotsOK
<1>3. CASE q # Root
  <2>1. /\ q \in SubTurns /\ sem[q] < MaxConcurrent
        /\ sem' = [sem EXCEPT ![q] = sem[q] + 1] /\ holds' = holds \cup {t}
    BY <1>1, <1>3 DEF Acquire, Turns
  <2>2. t \notin HeldOf(q) /\ HeldOf(q)' = HeldOf(q) \cup {t}
    BY <1>1, <2>1 DEF HeldOf
  <2>3. Cardinality(HeldOf(q)') = Cardinality(HeldOf(q)) + 1
    BY <2>2, HeldFinite, FS_AddElement
  <2>4. \A p \in Turns \ {q} : HeldOf(p)' = HeldOf(p)
    BY <1>1, <2>1 DEF HeldOf
  <2>5. sem[q] \in 0..MaxConcurrent /\ sem[q] = Cardinality(HeldOf(q))
    BY <1>1 DEF SlotsOK
  <2>6. sem[q] + 1 \in 0..MaxConcurrent
    BY <2>1, <2>5, SubTurnAssumption
  <2>7. sem' \in [Turns -> 0..MaxConcurrent]
    BY <2>1, <2>6 DEF SlotsOK
  <2>8. ASSUME NEW p \in Turns PROVE sem'[p] = Cardinality(HeldOf(p)')
    <3>1. CASE p = q
      BY <3>1, <1>1, <2>1, <2>3, <2>5 DEF SlotsOK
    <3>2. CASE p # q
      <4>1. sem'[p] = sem[p] /\ HeldOf(p)' = HeldOf(p)
        BY <3>2, <2>1, <2>4 DEF SlotsOK
      <4> QED
        BY <4>1 DEF SlotsOK
    <3> QED
      BY <3>1, <3>2
  <2>9. /\ holds' \subseteq SubTurns
        /\ \A u \in holds' : /\ parent'[u] \in SubTurns
                             /\ st'[u] \in Inside \cup {"delivering", "sending"}
                             /\ st'[u] \in {"delivering", "sending"} => u \in panicked'
        /\ \A u \in SubTurns : st'[u] \in Inside /\ parent'[u] # Root => u \in holds'
    BY <1>1, <2>1, RootIsNoSubTurn DEF SlotsOK, TreeOK, Inside
  <2> QED
    BY <2>7, <2>8, <2>9 DEF SlotsOK
<1> QED
  BY <1>2, <1>3

(* A turn ends or is refused: its slot is free. *)
LEMMA SlotGone ==
  ASSUME TreeOK, SlotsOK, NEW t \in SubTurns, FreeSlot(t), UNCHANGED parent,
         panicked \subseteq panicked',
         NEW to \in {"delivering", "done"}, st' = [st EXCEPT ![t] = to]
  PROVE  SlotsOK'
<1>1. /\ sem' \in [Turns -> 0..MaxConcurrent] /\ holds' = holds \ {t}
      /\ \A p \in Turns : sem'[p] = Cardinality(HeldOf(p)')
  BY SlotFreed
<1> QED
  BY <1>1, RootIsNoSubTurn DEF SlotsOK, TreeOK, Inside

(* The other steps of a turn leave its slot as it is. *)
SlotStep(u) ==
    \/ st'[u] = st[u] /\ parent'[u] = parent[u]
    \/ st[u] = "free" /\ st'[u] = "waiting"
    \/ /\ parent'[u] = parent[u]
       /\ \/ st[u] = "waiting" /\ st'[u] = "done"
          \/ st[u] \in Inside /\ st'[u] \in Inside
          \/ st[u] \in Inside /\ st'[u] = "delivering" /\ u \in panicked'
          \/ st[u] = "delivering" /\ st'[u] = "sending"

LEMMA SlotStays ==
  ASSUME TreeOK, SlotsOK, UNCHANGED <<sem, holds>>, panicked \subseteq panicked',
         \A u \in SubTurns : SlotStep(u)
  PROVE  SlotsOK'
<1>1. \A u \in holds : parent'[u] = parent[u]
  BY DEF SlotsOK, SlotStep, Inside
<1>2. \A p \in Turns : HeldOf(p)' = HeldOf(p)
  BY <1>1 DEF HeldOf
<1> QED
  BY <1>1, <1>2 DEF SlotsOK, SlotStep, Inside

(* One turn makes such a step, or none does. *)
LEMMA OneSlotStep ==
  ASSUME TreeOK, NEW t \in SubTurns, UNCHANGED parent, NEW to, st' = [st EXCEPT ![t] = to],
         \/ st[t] = "waiting" /\ to = "done"
         \/ st[t] \in Inside /\ to \in Inside
         \/ st[t] \in Inside /\ to = "delivering" /\ t \in panicked'
         \/ st[t] = "delivering" /\ to = "sending"
  PROVE  \A u \in SubTurns : SlotStep(u)
  BY RootIsNoSubTurn DEF SlotStep, TreeOK

LEMMA NoSlotStep ==
  ASSUME \A u \in SubTurns : st'[u] = st[u], UNCHANGED parent
  PROVE  \A u \in SubTurns : SlotStep(u)
  BY DEF SlotStep

LEMMA SlotsKept ==
  ASSUME TreeOK, SlotsOK, [Next]_vars
  PROVE  SlotsOK'
<1> USE RootIsNoSubTurn
<1>1. ASSUME NEW p \in Turns, NEW t \in SubTurns, NEW a \in BOOLEAN, Spawn(p, t, a)
      PROVE  SlotsOK'
  <2>1. \A u \in SubTurns : SlotStep(u)
    BY <1>1 DEF Spawn, Goto, SlotStep, TreeOK
  <2> QED
    BY <1>1, <2>1, SlotStays DEF Spawn, slotVars
<1>2. ASSUME NEW t \in SubTurns, StopWaiting(t) \/ Register(t) \/ Attach(t)
      PROVE  SlotsOK'
  <2>1. \A u \in SubTurns : SlotStep(u)
    BY <1>2, OneSlotStep DEF StopWaiting, Register, Attach, Goto, treeVars, Inside
  <2> QED
    BY <1>2, <2>1, SlotStays DEF StopWaiting, Register, Attach, slotVars
<1>3. ASSUME NEW t \in SubTurns, Acquire(t)
      PROVE  SlotsOK'
  BY <1>3, SlotTaken
<1>4. ASSUME NEW t \in SubTurns, Refuse(t) \/ Release(t)
      PROVE  SlotsOK'
  BY <1>4, SlotGone DEF Refuse, Release, treeVars, Goto
<1>5. ASSUME NEW t \in SubTurns, Panic(t)
      PROVE  SlotsOK'
  <2>1. CASE async[t]
    <3>1. \A u \in SubTurns : SlotStep(u)
      BY <1>5, <2>1, OneSlotStep DEF Panic, Goto, treeVars, Inside
    <3> QED
      BY <1>5, <2>1, <3>1, SlotStays DEF Panic, slotVars
  <2>2. CASE ~async[t]
    BY <1>5, <2>2, SlotGone DEF Panic, treeVars, Goto
  <2> QED
    BY <2>1, <2>2
<1>6. ASSUME NEW t \in SubTurns, CheckParent(t) \/ Send(t) \/ SendClosed(t)
      PROVE  SlotsOK'
  <2>1. UNCHANGED <<parent, panicked>>
    BY <1>6 DEF CheckParent, Send, SendClosed, treeVars
  <2>2. CASE UNCHANGED slotVars /\ st[t] = "delivering" /\ st' = [st EXCEPT ![t] = "sending"]
    <3>1. \A u \in SubTurns : SlotStep(u)
      BY <2>1, <2>2, OneSlotStep
    <3> QED
      BY <2>1, <2>2, <3>1, SlotStays DEF slotVars
  <2>3. CASE FreeSlot(t) /\ st' = [st EXCEPT ![t] = "done"]
    BY <2>1, <2>3, SlotGone
  <2> QED
    BY <1>6, <2>2, <2>3 DEF CheckParent, Send, SendClosed, Delivered, Goto
<1>7. ASSUME NEW t \in Turns, Return(t)
      PROVE  SlotsOK'
  <2>1. CASE t = Root
    <3>1. \A u \in SubTurns : SlotStep(u)
      BY <1>7, <2>1, NoSlotStep DEF Return, Goto, treeVars, TreeOK
    <3> QED
      BY <1>7, <3>1, SlotStays DEF Return, slotVars
  <2>2. CASE t # Root
    <3>1. t \in SubTurns
      BY <2>2 DEF Turns
    <3>2. \A u \in SubTurns : SlotStep(u)
      BY <1>7, <2>2, <3>1, OneSlotStep DEF Return, Goto, treeVars, Inside
    <3> QED
      BY <1>7, <3>2, SlotStays DEF Return, slotVars
  <2> QED
    BY <2>1, <2>2
<1>8. CASE (\E t \in Turns : Poll(t) \/ HardAbort(t)) \/ Finish \/ UNCHANGED vars
  <2>1. UNCHANGED <<st, parent, sem, holds, panicked>>
    BY <1>8 DEF Poll, HardAbort, Finish, FinishFlag, FinishClose, FinishCascade, slotVars,
                treeVars, vars
  <2>2. \A u \in SubTurns : SlotStep(u)
    BY <2>1, NoSlotStep
  <2> QED
    BY <2>1, <2>2, SlotStays
<1> QED
  BY <1>1, <1>2, <1>3, <1>4, <1>5, <1>6, <1>7, <1>8 DEF Next, Begin, Deliver

-------------------------------------------------------------------------------
(* The results *)

(* A step that ends no turn and touches no channel. *)
LEMMA QuietKeeps ==
  ASSUME TreeOK, ResultsOK, UNCHANGED <<chan, fate>>,
         \A t \in SubTurns : (st'[t] = "done") <=> (st[t] = "done"),
         \A t \in SubTurns : st[t] = "done" => parent'[t] = parent[t]
  PROVE  ResultsOK'
<1>1. \A p \in Turns : \A i \in 1..Len(chan[p]) : chan[p][i] \in SubTurns
  BY DEF ResultsOK
<1>2. \A p \in Turns : \A i \in 1..Len(chan[p]) :
         parent'[chan[p][i]] = p /\ st'[chan[p][i]] = "done"
  BY <1>1 DEF ResultsOK
<1>3. \A t \in SubTurns : fate[t] = "channel" => parent'[t] = parent[t]
  BY DEF ResultsOK
<1> QED
  BY <1>2, <1>3 DEF ResultsOK

(* A turn ends, and its result goes anywhere but into the channel. *)
LEMMA EndingKeepsResults ==
  ASSUME TreeOK, ResultsOK, UNCHANGED <<chan, parent>>, NEW t \in SubTurns, st[t] # "done",
         st' = [st EXCEPT ![t] = "done"],
         NEW f \in {"refused", "returned", "orphan", "nil"}, fate' = [fate EXCEPT ![t] = f]
  PROVE  ResultsOK'
<1>1. /\ st'[t] = "done" /\ fate'[t] = f /\ fate[t] = "none"
      /\ \A u \in SubTurns \ {t} : st'[u] = st[u] /\ fate'[u] = fate[u]
  BY RootIsNoSubTurn DEF TreeOK, ResultsOK
<1>2. \A p \in Turns : \A i \in 1..Len(chan[p]) : chan[p][i] \in SubTurns \ {t}
  BY <1>1 DEF ResultsOK
<1>3. fate' \in [SubTurns -> {"none", "refused", "returned", "channel", "injected", "orphan",
                              "nil"}]
  BY DEF ResultsOK
<1> QED
  BY <1>1, <1>2, <1>3 DEF ResultsOK

LEMMA ResultHasParent ==
  ASSUME TreeOK, ResultsOK, NEW t \in SubTurns, fate[t] # "none"
  PROVE  parent[t] \in Turns
<1>1. st[t] = "done"
  BY DEF ResultsOK
<1>2. parent[t] # None /\ parent[t] \in Turns \cup {None}
  BY <1>1 DEF TreeOK
<1> QED
  BY <1>2

(* A turn ends, and its result, or nil, is put into the channel. *)
LEMMA SendKeepsResults ==
  ASSUME TreeOK, ResultsOK, NEW t \in SubTurns, Send(t)
  PROVE  ResultsOK'
<1> PICK q \in Turns : q = parent[t]
  BY DEF Send, TreeOK
<1> PICK f \in {"channel", "nil"} : fate' = [fate EXCEPT ![t] = f]
  BY DEF Send, Delivered
<1>1. /\ UNCHANGED parent /\ st[t] = "sending" /\ st' = [st EXCEPT ![t] = "done"]
      /\ Len(chan[q]) < ChannelCap /\ chan' = [chan EXCEPT ![q] = Append(chan[q], t)]
  BY DEF Send, Delivered, Goto, treeVars
<1>2. /\ st'[t] = "done" /\ fate'[t] = f /\ fate[t] = "none" /\ parent'[t] = q
      /\ \A u \in SubTurns \ {t} : st'[u] = st[u] /\ fate'[u] = fate[u]
  BY <1>1, RootIsNoSubTurn DEF TreeOK, ResultsOK
<1>3. \A p \in Turns : chan[p] \in Seq(SubTurns) /\ Len(chan[p]) \in Nat
                       /\ \A i \in 1..Len(chan[p]) : chan[p][i] \in SubTurns \ {t}
  BY <1>2 DEF ResultsOK
<1>4. /\ chan'[q] \in Seq(SubTurns) /\ Len(chan'[q]) = Len(chan[q]) + 1
      /\ chan'[q][Len(chan[q]) + 1] = t
      /\ \A i \in 1..Len(chan[q]) : chan'[q][i] = chan[q][i]
      /\ \A p \in Turns \ {q} : chan'[p] = chan[p]
  BY <1>1, <1>3, AppendOf DEF ResultsOK
<1>5. /\ chan' \in [Turns -> Seq(SubTurns)]
      /\ fate' \in [SubTurns -> {"none", "refused", "returned", "channel", "injected",
                                 "orphan", "nil"}]
  BY <1>1, <1>4 DEF ResultsOK
<1>6. ASSUME NEW p \in Turns
      PROVE  /\ Len(chan'[p]) <= ChannelCap
             /\ \A i \in 1..Len(chan'[p]) :
                   /\ parent'[chan'[p][i]] = p /\ st'[chan'[p][i]] = "done"
                   /\ fate'[chan'[p][i]] \in {"channel", "nil"}
             /\ \A i, j \in 1..Len(chan'[p]) : chan'[p][i] = chan'[p][j] => i = j
  <2>1. CASE p = q
    <3>1. \A i \in 1..Len(chan'[p]) : i \in 1..Len(chan[q]) \/ i = Len(chan[q]) + 1
      BY <1>3, <1>4, <2>1
    <3>2. Len(chan'[p]) <= ChannelCap
      BY <1>1, <1>3, <1>4, <2>1, SubTurnAssumption
    <3>3. \A i \in 1..Len(chan'[p]) :
             /\ parent'[chan'[p][i]] = p /\ st'[chan'[p][i]] = "done"
             /\ fate'[chan'[p][i]] \in {"channel", "nil"}
      BY <1>1, <1>2, <1>3, <1>4, <2>1, <3>1 DEF ResultsOK
    <3>4. \A i, j \in 1..Len(chan'[p]) : chan'[p][i] = chan'[p][j] => i = j
      <4> TAKE i, j \in 1..Len(chan'[p])
      <4>1. CASE i = Len(chan[q]) + 1 \/ j = Len(chan[q]) + 1
        <5>1. \A k \in 1..Len(chan[q]) : chan'[p][k] # t
          BY <1>3, <1>4, <2>1
        <5>2. chan'[p][Len(chan[q]) + 1] = t
          BY <1>4, <2>1
        <5> QED
          BY <3>1, <4>1, <5>1, <5>2
      <4>2. CASE i \in 1..Len(chan[q]) /\ j \in 1..Len(chan[q])
        <5>1. chan'[p][i] = chan[q][i] /\ chan'[p][j] = chan[q][j]
          BY <1>4, <2>1, <4>2
        <5>2. \A m, n \in 1..Len(chan[q]) : chan[q][m] = chan[q][n] => m = n
          BY DEF ResultsOK
        <5> QED  BY <4>2, <5>1, <5>2
      <4> QED
        BY <3>1, <4>1, <4>2
    <3> QED
      BY <3>2, <3>3, <3>4
  <2>2. CASE p # q
    <3>1. chan'[p] = chan[p]
      BY <1>4, <2>2
    <3>2. ASSUME NEW i \in 1..Len(chan[p])
          PROVE  /\ parent'[chan[p][i]] = p /\ st'[chan[p][i]] = "done"
                 /\ fate'[chan[p][i]] \in {"channel", "nil"}
      <4>1. chan[p][i] \in SubTurns \ {t}
        BY <1>3
      <4>2. /\ parent[chan[p][i]] = p /\ st[chan[p][i]] = "done"
            /\ fate[chan[p][i]] \in {"channel", "nil"}
        BY DEF ResultsOK
      <4> QED  BY <1>1, <1>2, <4>1, <4>2
    <3>3. /\ Len(chan[p]) <= ChannelCap
          /\ \A i, j \in 1..Len(chan[p]) : chan[p][i] = chan[p][j] => i = j
      BY DEF ResultsOK
    <3> QED
      BY <3>1, <3>2, <3>3
  <2> QED
    BY <2>1, <2>2
<1>7. \A u \in SubTurns : st'[u] = "done" <=> fate'[u] # "none"
  BY <1>2 DEF ResultsOK
<1>8. ASSUME NEW u \in SubTurns, fate'[u] = "channel"
      PROVE  \E i \in 1..Len(chan'[parent'[u]]) : chan'[parent'[u]][i] = u
  <2>1. CASE u = t
    <3>1. Len(chan[q]) + 1 \in 1..Len(chan'[q])
      BY <1>3, <1>4
    <3> QED
      BY <1>2, <1>4, <2>1, <3>1
  <2>2. CASE u # t
    <3>1. parent'[u] = parent[u] /\ parent[u] \in Turns
      BY <1>1, <1>2, <1>8, <2>2, ResultHasParent
    <3>2. PICK i \in 1..Len(chan[parent[u]]) : chan[parent[u]][i] = u
      BY <1>2, <1>8, <2>2 DEF ResultsOK
    <3>3. CASE parent[u] = q
      <4>1. i \in 1..Len(chan'[q]) /\ chan'[q][i] = u
        BY <1>3, <1>4, <3>2, <3>3
      <4> QED  BY <3>1, <3>3, <4>1
    <3>4. CASE parent[u] # q
      <4>1. chan'[parent[u]] = chan[parent[u]]
        BY <1>4, <3>1, <3>4
      <4> QED  BY <3>1, <3>2, <4>1
    <3> QED  BY <3>3, <3>4
  <2> QED
    BY <2>1, <2>2
<1> QED
  BY <1>5, <1>6, <1>7, <1>8 DEF ResultsOK

(* The parent takes the first of its results. *)
LEMMA PollKeepsResults ==
  ASSUME TreeOK, ResultsOK, NEW p \in Turns, Poll(p)
  PROVE  ResultsOK'
<1> DEFINE s == chan[p]
<1> PICK t : t = Head(chan[p])
  OBVIOUS
<1>1. /\ UNCHANGED <<st, parent>> /\ s # <<>> /\ s \in Seq(SubTurns)
      /\ chan' = [chan EXCEPT ![p] = Tail(s)]
      /\ fate' = [fate EXCEPT ![t] = IF fate[t] = "nil" THEN "nil" ELSE "injected"]
  BY DEF Poll, treeVars, ResultsOK
<1>2. /\ t \in SubTurns /\ t = s[1] /\ Len(s) \in Nat \ {0} /\ Tail(s) \in Seq(SubTurns)
      /\ Len(Tail(s)) = Len(s) - 1 /\ \A i \in 1..Len(Tail(s)) : Tail(s)[i] = s[i + 1]
      /\ \A i \in 2..Len(s) : Tail(s)[i - 1] = s[i]
  BY <1>1, TailOf
<1>3. /\ chan'[p] = Tail(s) /\ chan' \in [Turns -> Seq(SubTurns)]
      /\ \A q \in Turns \ {p} : chan'[q] = chan[q]
  BY <1>1, <1>2 DEF ResultsOK
<1>4. /\ fate'[t] \in {"nil", "injected"} /\ parent[t] = p /\ st[t] = "done"
      /\ fate' \in [SubTurns -> {"none", "refused", "returned", "channel", "injected",
                                 "orphan", "nil"}]
      /\ \A u \in SubTurns \ {t} : fate'[u] = fate[u]
  <2>1. parent[t] = p /\ st[t] = "done"
    <3>1. 1 \in 1..Len(chan[p]) /\ t = chan[p][1]
      BY <1>2
    <3>2. \A i \in 1..Len(chan[p]) : parent[chan[p][i]] = p /\ st[chan[p][i]] = "done"
      BY Zenon DEF ResultsOK
    <3> QED  BY <3>1, <3>2
  <2>2. fate'[t] = (IF fate[t] = "nil" THEN "nil" ELSE "injected")
    BY <1>1, <1>2 DEF ResultsOK
  <2> QED  BY <1>1, <1>2, <2>1, <2>2 DEF ResultsOK
<1>5. \A i \in 2..Len(s) : s[i] \in SubTurns \ {t}
  BY <1>1, <1>2 DEF ResultsOK
<1>6. ASSUME NEW q \in Turns
      PROVE  /\ Len(chan'[q]) <= ChannelCap
             /\ \A i \in 1..Len(chan'[q]) :
                   /\ parent'[chan'[q][i]] = q /\ st'[chan'[q][i]] = "done"
                   /\ fate'[chan'[q][i]] \in {"channel", "nil"}
             /\ \A i, j \in 1..Len(chan'[q]) : chan'[q][i] = chan'[q][j] => i = j
  <2>1. CASE q = p
    <3>1. \A i \in 1..Len(chan'[q]) : i + 1 \in 2..Len(s) /\ chan'[q][i] = s[i + 1]
      <4> TAKE i \in 1..Len(chan'[q])
      <4>1. i \in 1..Len(Tail(s)) /\ i \in Nat
        BY <1>2, <1>3, <2>1
      <4>2. i + 1 \in 2..Len(s)
        BY <1>2, <4>1
      <4> QED
        BY <1>2, <1>3, <2>1, <4>1, <4>2
    <3>2. Len(chan'[q]) <= ChannelCap
      BY <1>2, <1>3, <2>1, SubTurnAssumption DEF ResultsOK
    <3>3. \A i \in 2..Len(s) : /\ parent[s[i]] = p /\ st[s[i]] = "done"
                               /\ fate[s[i]] \in {"channel", "nil"}
      BY <1>2 DEF ResultsOK
    <3>4. \A i \in 1..Len(chan'[q]) :
             /\ parent'[chan'[q][i]] = q /\ st'[chan'[q][i]] = "done"
             /\ fate'[chan'[q][i]] \in {"channel", "nil"}
      <4> TAKE i \in 1..Len(chan'[q])
      <4>1. i + 1 \in 2..Len(s) /\ chan'[q][i] = s[i + 1]
        BY <3>1
      <4> QED
        BY <1>1, <1>4, <1>5, <2>1, <3>3, <4>1
    <3>5. \A i, j \in 2..Len(s) : s[i] = s[j] => i = j
      BY <1>2 DEF ResultsOK
    <3>6. \A i, j \in 1..Len(chan'[q]) : chan'[q][i] = chan'[q][j] => i = j
      <4> TAKE i, j \in 1..Len(chan'[q])
      <4>1. i \in Nat /\ j \in Nat
        BY <1>2, <1>3, <2>1
      <4> QED
        BY <3>1, <3>5, <4>1
    <3> QED
      BY <3>2, <3>4, <3>6
  <2>2. CASE q # p
    <3>1. \A i \in 1..Len(chan[q]) : chan[q][i] \in SubTurns \ {t}
      BY <1>4, <2>2 DEF ResultsOK
    <3> QED
      BY <1>1, <1>3, <1>4, <2>2, <3>1 DEF ResultsOK
  <2> QED
    BY <2>1, <2>2
<1>7. \A u \in SubTurns : st'[u] = "done" <=> fate'[u] # "none"
  BY <1>1, <1>4 DEF ResultsOK
<1>8. ASSUME NEW u \in SubTurns, fate'[u] = "channel"
      PROVE  \E i \in 1..Len(chan'[parent'[u]]) : chan'[parent'[u]][i] = u
  <2>1. u # t /\ fate[u] = "channel" /\ parent'[u] = parent[u] /\ parent[u] \in Turns
    BY <1>1, <1>4, <1>8, ResultHasParent
  <2>2. PICK i \in 1..Len(chan[parent[u]]) : chan[parent[u]][i] = u
    BY <2>1 DEF ResultsOK
  <2>3. CASE parent[u] = p
    <3>1. i \in 2..Len(s)
      BY <1>2, <2>1, <2>2, <2>3
    <3>2. i - 1 \in 1..Len(chan'[p]) /\ chan'[p][i - 1] = u
      BY <1>2, <1>3, <2>2, <2>3, <3>1
    <3> QED
      BY <2>1, <2>3, <3>2
  <2>4. CASE parent[u] # p
    BY <1>3, <2>1, <2>2, <2>4
  <2> QED
    BY <2>3, <2>4
<1> QED
  BY <1>3, <1>4, <1>6, <1>7, <1>8 DEF ResultsOK

LEMMA ResultsKept ==
  ASSUME TreeOK, ResultsOK, [Next]_vars
  PROVE  ResultsOK'
<1> USE RootIsNoSubTurn
<1>1. ASSUME NEW p \in Turns, NEW t \in SubTurns, NEW a \in BOOLEAN, Spawn(p, t, a)
      PROVE  ResultsOK'
  <2>1. \A u \in SubTurns : /\ (st'[u] = "done") <=> (st[u] = "done")
                            /\ st[u] = "done" => parent'[u] = parent[u]
    BY <1>1 DEF Spawn, Goto, TreeOK
  <2> QED
    BY <1>1, <2>1, QuietKeeps DEF Spawn
<1>2. ASSUME NEW t \in Turns, NEW to, st[t] # "done", st' = [st EXCEPT ![t] = to],
             to # "done" \/ t = Root, UNCHANGED <<parent, chan, fate>>
      PROVE  ResultsOK'
  <2>1. \A u \in SubTurns : (st'[u] = "done") <=> (st[u] = "done")
    BY <1>2 DEF TreeOK
  <2> QED
    BY <1>2, <2>1, QuietKeeps
<1>3. ASSUME NEW t \in SubTurns, Acquire(t) \/ Register(t) \/ Attach(t)
      PROVE  ResultsOK'
  BY <1>3, <1>2 DEF Acquire, Register, Attach, Goto, treeVars
<1>4. ASSUME NEW t \in Turns, Return(t)
      PROVE  ResultsOK'
  BY <1>4, <1>2 DEF Return, Goto, treeVars
<1>5. ASSUME NEW t \in SubTurns, StopWaiting(t) \/ Refuse(t)
      PROVE  ResultsOK'
  BY <1>5, EndingKeepsResults DEF StopWaiting, Refuse, Goto, treeVars
<1>6. ASSUME NEW t \in SubTurns, Panic(t) \/ Release(t)
      PROVE  ResultsOK'
  <2>1. CASE async[t]
    BY <1>6, <2>1, <1>2 DEF Panic, Release, Goto, treeVars
  <2>2. CASE ~async[t]
    BY <1>6, <2>2, EndingKeepsResults DEF Panic, Release, Goto, treeVars
  <2> QED
    BY <2>1, <2>2
<1>7. ASSUME NEW t \in SubTurns, CheckParent(t) \/ SendClosed(t)
      PROVE  ResultsOK'
  <2>1. CASE Delivered(t, "orphan")
    <3>1. PICK f \in {"orphan", "nil"} : fate' = [fate EXCEPT ![t] = f]
      BY <2>1 DEF Delivered
    <3>2. /\ st' = [st EXCEPT ![t] = "done"] /\ st[t] # "done"
          /\ UNCHANGED <<chan, parent>>
      BY <1>7, <2>1 DEF CheckParent, SendClosed, Delivered, Goto, treeVars
    <3> QED
      BY <3>1, <3>2, EndingKeepsResults
  <2>2. CASE Goto(t, "sending") /\ UNCHANGED fate
    BY <1>7, <2>2, <1>2 DEF CheckParent, SendClosed, Goto, treeVars
  <2> QED
    BY <1>7, <2>1, <2>2 DEF CheckParent, SendClosed
<1>8. ASSUME NEW t \in SubTurns, Send(t)
      PROVE  ResultsOK'
  BY <1>8, SendKeepsResults
<1>9. ASSUME NEW p \in Turns, Poll(p)
      PROVE  ResultsOK'
  BY <1>9, PollKeepsResults
<1>10. CASE (\E t \in Turns : HardAbort(t)) \/ Finish \/ UNCHANGED vars
  <2>1. UNCHANGED <<st, parent, chan, fate>>
    BY <1>10 DEF HardAbort, Finish, FinishFlag, FinishClose, FinishCascade, treeVars, vars
  <2> QED
    BY <2>1, QuietKeeps
<1> QED
  BY <1>1, <1>3, <1>4, <1>5, <1>6, <1>7, <1>8, <1>9, <1>10 DEF Next, Begin, Deliver

-------------------------------------------------------------------------------
(* The cascade *)

LEMMA SetOfSequence ==
  ASSUME NEW S, NEW s \in Seq(S)
  PROVE  /\ ToSet(s) \subseteq S
         /\ \A x \in S : ToSet(Append(s, x)) = ToSet(s) \cup {x}
         /\ s = <<>> => ToSet(s) = {}
         /\ s # <<>> => ToSet(s) = {Head(s)} \cup ToSet(Tail(s))
<1>1. ToSet(s) \subseteq S
  BY DEF ToSet
<1>2. ASSUME NEW x \in S PROVE ToSet(Append(s, x)) = ToSet(s) \cup {x}
  <2>1. DOMAIN Append(s, x) = DOMAIN s \cup {Len(s) + 1}
    OBVIOUS
  <2> QED
    BY <2>1, AppendOf DEF ToSet
<1>3. s = <<>> => ToSet(s) = {}
  BY DEF ToSet
<1>4. ASSUME s # <<>> PROVE ToSet(s) = {Head(s)} \cup ToSet(Tail(s))
  <2>1. /\ Head(s) = s[1] /\ Len(s) \in Nat \ {0} /\ Tail(s) \in Seq(S)
        /\ Len(Tail(s)) = Len(s) - 1
        /\ \A i \in 2..Len(s) : Tail(s)[i - 1] = s[i]
        /\ \A i \in 1..Len(Tail(s)) : Tail(s)[i] = s[i + 1]
    BY <1>4, TailOf
  <2>2. DOMAIN s = 1..Len(s) /\ DOMAIN Tail(s) = 1..Len(Tail(s))
    BY <2>1
  <2>3. ASSUME NEW x \in ToSet(s) PROVE x = Head(s) \/ x \in ToSet(Tail(s))
    <3>1. PICK i \in 1..Len(s) : x = s[i]
      BY <2>2 DEF ToSet
    <3>2. CASE i = 1
      BY <2>1, <3>1, <3>2
    <3>3. CASE i \in 2..Len(s)
      <4>1. i - 1 \in 1..Len(Tail(s)) /\ Tail(s)[i - 1] = x
        BY <2>1, <3>1, <3>3
      <4> QED
        BY <2>2, <4>1 DEF ToSet
    <3> QED
      BY <2>1, <3>2, <3>3
  <2>4. ASSUME NEW x \in ToSet(Tail(s)) PROVE x \in ToSet(s)
    <3>1. PICK i \in 1..Len(Tail(s)) : x = Tail(s)[i]
      BY <2>2 DEF ToSet
    <3>2. i + 1 \in 1..Len(s) /\ s[i + 1] = x
      BY <2>1, <3>1
    <3> QED
      BY <2>2, <3>2 DEF ToSet
  <2>5. Head(s) \in ToSet(s)
    BY <2>1, <2>2 DEF ToSet
  <2> QED
    BY <2>3, <2>4, <2>5
<1> QED
  BY <1>1, <1>2, <1>3, <1>4

(* A step of a turn keeps what the abort has still to do. *)
LEMMA WorkKeepsCascade ==
  ASSUME TreeOK, CascadeOK, UNCHANGED abortVars,
         children' \in [Turns -> Seq(SubTurns)],
         \A p \in Turns : /\ ToSet(children[p]) \subseteq ToSet(children'[p])
                          /\ \A t \in ToSet(children'[p]) \ ToSet(children[p]) : Settled(t)',
         \A t \in SubTurns : Settled(t) => /\ Settled(t)'
                                           /\ t \in active' => t \in active
  PROVE  CascadeOK'
<1>1. UNCHANGED <<finished, closed, abort, aborts, due>>
  BY DEF abortVars
<1>2. \A t : Covered(t) => Covered(t)'
  <2> TAKE t
  <2> HAVE Covered(t)
  <2>1. PICK i \in 1..Len(abort) : Covers(abort[i], t)
    BY DEF Covered
  <2>2. abort[i].turn \in Turns
    <3>1. abort[i] \in Frames
      BY DEF CascadeOK
    <3> QED
      BY <3>1 DEF Frames
  <2>3. Covers(abort[i], t)'
    BY <1>1, <2>1, <2>2 DEF Covers
  <2> QED
    BY <1>1, <2>1, <2>3 DEF Covered
<1>3. \A p \in Turns : \A t \in ToSet(children'[p]) : Settled(t)'
  BY SetOfSequence DEF CascadeOK
<1> QED
  BY <1>1, <1>2, <1>3 DEF CascadeOK

LEMMA AttachKeepsCascade ==
  ASSUME TreeOK, CascadeOK, NEW t \in SubTurns, Attach(t)
  PROVE  CascadeOK'
<1> PICK q \in Turns : q = parent[t]
  BY DEF Attach, TreeOK
<1>1. /\ UNCHANGED <<abortVars, active>>
      /\ st[t] = "registered" /\ st' = [st EXCEPT ![t] = "running"]
      /\ children' = [children EXCEPT ![q] = Append(children[q], t)]
  BY DEF Attach, Goto
<1>2. children' \in [Turns -> Seq(SubTurns)]
  BY <1>1, AppendOf DEF CascadeOK
<1>3. \A u \in SubTurns : Settled(u) \/ u = t => Settled(u)'
  BY <1>1, RootIsNoSubTurn DEF Settled, TreeOK
<1>4. ToSet(children'[q]) = ToSet(children[q]) \cup {t}
  <2>1. children[q] \in Seq(SubTurns) /\ children'[q] = Append(children[q], t)
    BY <1>1 DEF CascadeOK
  <2> QED
    BY <2>1, SetOfSequence
<1>5. \A p \in Turns \ {q} : children'[p] = children[p]
  BY <1>1 DEF CascadeOK
<1>6. \A p \in Turns : /\ ToSet(children[p]) \subseteq ToSet(children'[p])
                       /\ \A u \in ToSet(children'[p]) \ ToSet(children[p]) : u = t
  <2> TAKE p \in Turns
  <2>1. CASE p = q
    BY <1>4, <2>1
  <2>2. CASE p # q
    BY <1>5, <2>2
  <2> QED
    BY <2>1, <2>2
<1> QED
  BY <1>1, <1>2, <1>3, <1>6, WorkKeepsCascade

(* The flag is set: the turn is finished, and its children are due. *)
LEMMA FlagKeepsCascade ==
  ASSUME TreeOK, CascadeOK, FinishFlag
  PROVE  CascadeOK'
<1> PICK f : f = Head(abort)
  OBVIOUS
<1> DEFINE g == Frame(f.turn, "close", <<>>)
<1>1. /\ UNCHANGED <<st, active, children, closed, aborts>> /\ abort # <<>> /\ f.pc = "flag"
      /\ finished' = finished \cup {f.turn}
      /\ due' = IF f.turn = Root THEN due ELSE due \cup ToSet(children[f.turn])
      /\ abort' = <<g>> \o Tail(abort)
  BY DEF FinishFlag, Top, Step
<1>2. /\ f \in Frames /\ f = abort[1] /\ Len(abort) \in Nat \ {0}
      /\ g \in Frames /\ g.turn = f.turn /\ g.pc = "close"
  <2>1. abort \in Seq(Frames) /\ abort # <<>>
    BY <1>1 DEF CascadeOK
  <2>2. f \in Frames /\ f = abort[1] /\ Len(abort) \in Nat \ {0}
    BY <2>1, TailOf
  <2>3. f.turn \in Turns
    BY <2>2 DEF Frames
  <2>4. g \in Frames /\ g.turn = f.turn /\ g.pc = "close"
    BY <2>3 DEF Frames, Frame
  <2> QED
    BY <2>2, <2>4
<1> HIDE DEF g
<1>3. /\ abort' \in Seq(Frames) /\ Len(abort') = Len(abort) /\ abort'[1] = g
      /\ \A i \in 2..Len(abort) : abort'[i] = abort[i]
  BY <1>1, <1>2, TopReplaced DEF CascadeOK
<1>4. \A t : Covered(t) => t \in finished' \/ Covered(t)'
  <2> TAKE t
  <2> HAVE Covered(t)
  <2>1. PICK i \in 1..Len(abort) : Covers(abort[i], t)
    BY DEF Covered
  <2>2. CASE i = 1
    BY <1>1, <1>2, <2>1, <2>2 DEF Covers
  <2>3. CASE i \in 2..Len(abort)
    <3>1. i \in 1..Len(abort') /\ abort'[i] = abort[i]
      BY <1>2, <1>3, <2>3
    <3>2. Covers(abort[i], t)'
      BY <1>1, <2>1, <3>1 DEF Covers
    <3> QED
      BY <3>1, <3>2 DEF Covered
  <2> QED
    BY <1>2, <2>2, <2>3
<1>5. \A t \in due' \ due : Covered(t)' /\ Settled(t) /\ t \in SubTurns
  <2> TAKE t \in due' \ due
  <2>1. f.turn \in Turns /\ f.turn # Root /\ t \in ToSet(children[f.turn])
    BY <1>1, <1>2 DEF Frames
  <2>2. Covers(abort[1], t)' /\ 1 \in 1..Len(abort')
    BY <1>1, <1>2, <1>3, <2>1 DEF Covers
  <2>3. Settled(t) /\ t \in SubTurns
    BY <2>1, SetOfSequence DEF CascadeOK
  <2> QED
    BY <2>2, <2>3 DEF Covered
<1>6. \A t : Settled(t)' <=> Settled(t)
  BY <1>1 DEF Settled
<1>7. finished' \subseteq Turns /\ finished \subseteq finished'
  BY <1>1, <1>2 DEF CascadeOK, Frames
<1> QED
  BY <1>1, <1>3, <1>4, <1>5, <1>6, <1>7 DEF CascadeOK

(* The channel is closed, and the children are read. *)
LEMMA CloseKeepsCascade ==
  ASSUME TreeOK, CascadeOK, FinishClose
  PROVE  CascadeOK'
<1> PICK f : f = Head(abort)
  OBVIOUS
<1> DEFINE todo == IF f.turn = Root THEN <<>> ELSE children[f.turn]
           g == Frame(f.turn, "cascade", todo)
<1>1. /\ UNCHANGED <<st, active, children, finished, aborts, due>> /\ abort # <<>>
      /\ f.pc = "close" /\ closed' = closed \cup {f.turn}
      /\ abort' = <<g>> \o Tail(abort)
  BY DEF FinishClose, Top, Step
<1>2. f \in Frames /\ f = abort[1] /\ Len(abort) \in Nat \ {0}
  BY <1>1, TailOf DEF CascadeOK
<1>3. todo \in Seq(SubTurns) /\ (f.turn # Root => todo = children[f.turn])
  BY <1>2 DEF CascadeOK, Frames
<1> HIDE DEF todo
<1>4. g \in Frames /\ g.todo = todo /\ g.pc = "cascade"
  BY <1>2, <1>3 DEF Frames, Frame
<1> HIDE DEF g
<1>5. /\ abort' \in Seq(Frames) /\ Len(abort') = Len(abort) /\ abort'[1] = g
      /\ \A i \in 2..Len(abort) : abort'[i] = abort[i]
  BY <1>1, <1>4, TopReplaced DEF CascadeOK
<1>6. \A t : Covered(t) => Covered(t)'
  <2> TAKE t
  <2> HAVE Covered(t)
  <2>1. PICK i \in 1..Len(abort) : Covers(abort[i], t)
    BY DEF Covered
  <2>2. CASE i = 1
    <3>1. f.turn # Root /\ t \in ToSet(children[f.turn])
      BY <1>1, <1>2, <2>1, <2>2 DEF Covers
    <3>2. Covers(abort[1], t)' /\ 1 \in 1..Len(abort')
      BY <1>2, <1>3, <1>4, <1>5, <3>1 DEF Covers
    <3> QED
      BY <3>2 DEF Covered
  <2>3. CASE i \in 2..Len(abort)
    <3>1. i \in 1..Len(abort') /\ abort'[i] = abort[i]
      BY <1>2, <1>5, <2>3
    <3>2. Covers(abort[i], t)'
      BY <1>1, <2>1, <3>1 DEF Covers
    <3> QED
      BY <3>1, <3>2 DEF Covered
  <2> QED
    BY <1>2, <2>2, <2>3
<1>7. \A t : Settled(t)' <=> Settled(t)
  BY <1>1 DEF Settled
<1>8. closed' \subseteq Turns
  BY <1>1, <1>2 DEF CascadeOK, Frames
<1> QED
  BY <1>1, <1>5, <1>6, <1>7, <1>8 DEF CascadeOK

(* The next child: a child that is not active is passed over for good. *)
LEMMA NextKeepsCascade ==
  ASSUME TreeOK, CascadeOK, FinishCascade
  PROVE  CascadeOK'
<1> PICK f : f = Head(abort)
  OBVIOUS
<1>1. /\ UNCHANGED <<st, active, children, finished, closed, aborts, due>> /\ abort # <<>>
      /\ f.pc = "cascade"
  BY DEF FinishCascade, Top
<1>2. /\ f \in Frames /\ f = abort[1] /\ Len(abort) \in Nat \ {0}
      /\ Tail(abort) \in Seq(Frames) /\ Len(Tail(abort)) = Len(abort) - 1
      /\ \A i \in 2..Len(abort) : Tail(abort)[i - 1] = abort[i]
  BY <1>1, TailOf DEF CascadeOK
<1>3. f.todo \in Seq(SubTurns) /\ f.turn \in Turns
  BY <1>2 DEF Frames
<1>4. \A t : Settled(t)' <=> Settled(t)
  BY <1>1 DEF Settled
<1>5. SUFFICES /\ abort' \in Seq(Frames)
               /\ \A t \in active : Covered(t) => Covered(t)'
  BY <1>1, <1>4 DEF CascadeOK
<1>6. CASE f.todo = <<>>
  <2>1. abort' = Tail(abort)
    BY <1>6 DEF FinishCascade, Top
  <2>2. ASSUME NEW t \in active, Covered(t) PROVE Covered(t)'
    <3>1. PICK i \in 1..Len(abort) : Covers(abort[i], t)
      BY <2>2 DEF Covered
    <3>2. i # 1
      BY <1>1, <1>2, <1>3, <1>6, <3>1, SetOfSequence DEF Covers
    <3>3. i - 1 \in 1..Len(abort') /\ abort'[i - 1] = abort[i]
      BY <1>2, <2>1, <3>2
    <3>4. Covers(abort[i - 1], t)'
      BY <1>1, <3>1, <3>3 DEF Covers
    <3> QED
      BY <3>3, <3>4 DEF Covered
  <2> QED
    BY <1>2, <2>1, <2>2
<1>7. CASE f.todo # <<>>
  <2> DEFINE g == Frame(f.turn, "cascade", Tail(f.todo))
             h == Frame(Head(f.todo), "flag", <<>>)
  <2>1. Head(f.todo) \in SubTurns /\ Tail(f.todo) \in Seq(SubTurns)
    BY <1>3, <1>7, TailOf
  <2>2. /\ g \in Frames /\ g.pc = "cascade" /\ g.todo = Tail(f.todo)
        /\ h \in Frames /\ h.pc = "flag" /\ h.turn = Head(f.todo)
    BY <1>3, <2>1, RootIsNoSubTurn DEF Frames, Frame
  <2>3. \/ abort' = <<g>> \o Tail(abort) /\ Head(f.todo) \notin active
        \/ abort' = <<h, g>> \o Tail(abort)
    BY <1>7 DEF FinishCascade, Top
  <2> HIDE DEF g, h
  <2>4. ToSet(f.todo) = {Head(f.todo)} \cup ToSet(Tail(f.todo))
    BY <1>3, <1>7, SetOfSequence
  <2>5. CASE abort' = <<g>> \o Tail(abort) /\ Head(f.todo) \notin active
    <3>1. /\ abort' \in Seq(Frames) /\ Len(abort') = Len(abort) /\ abort'[1] = g
          /\ \A i \in 2..Len(abort) : abort'[i] = abort[i]
      BY <1>1, <2>2, <2>5, TopReplaced DEF CascadeOK
    <3>2. ASSUME NEW t \in active, Covered(t) PROVE Covered(t)'
      <4>1. PICK i \in 1..Len(abort) : Covers(abort[i], t)
        BY <3>2 DEF Covered
      <4>2. CASE i = 1
        <5>1. t \in ToSet(Tail(f.todo))
          BY <1>1, <1>2, <2>4, <2>5, <3>2, <4>1, <4>2 DEF Covers
        <5>2. Covers(abort[1], t)' /\ 1 \in 1..Len(abort')
          BY <1>2, <2>2, <3>1, <5>1 DEF Covers
        <5> QED
          BY <5>2 DEF Covered
      <4>3. CASE i \in 2..Len(abort)
        <5>1. i \in 1..Len(abort') /\ abort'[i] = abort[i]
          BY <1>2, <3>1, <4>3
        <5>2. Covers(abort[i], t)'
          BY <1>1, <4>1, <5>1 DEF Covers
        <5> QED
          BY <5>1, <5>2 DEF Covered
      <4> QED
        BY <1>2, <4>2, <4>3
    <3> QED
      BY <3>1, <3>2
  <2>6. CASE abort' = <<h, g>> \o Tail(abort)
    <3>1. /\ abort' \in Seq(Frames) /\ Len(abort') = Len(abort) + 1
          /\ abort'[1] = h /\ abort'[2] = g
          /\ \A i \in 2..Len(abort) : abort'[i + 1] = abort[i]
      BY <1>1, <2>2, <2>6, TopPushed DEF CascadeOK
    <3>2. ASSUME NEW t \in active, Covered(t) PROVE Covered(t)'
      <4>1. PICK i \in 1..Len(abort) : Covers(abort[i], t)
        BY <3>2 DEF Covered
      <4>2. CASE i = 1
        <5>1. t = Head(f.todo) \/ t \in ToSet(Tail(f.todo))
          BY <1>1, <1>2, <2>4, <4>1, <4>2 DEF Covers
        <5>2. Covers(abort[1], t)' \/ Covers(abort[2], t)'
          BY <2>2, <3>1, <5>1 DEF Covers
        <5>3. 1 \in 1..Len(abort') /\ 2 \in 1..Len(abort')
          BY <1>2, <3>1
        <5> QED
          BY <5>2, <5>3 DEF Covered
      <4>3. CASE i \in 2..Len(abort)
        <5>1. i + 1 \in 1..Len(abort') /\ abort'[i + 1] = abort[i]
          BY <1>2, <3>1, <4>3
        <5>2. Covers(abort[i + 1], t)'
          BY <1>1, <4>1, <5>1 DEF Covers
        <5> QED
          BY <5>1, <5>2 DEF Covered
      <4> QED
        BY <1>2, <4>2, <4>3
    <3> QED
      BY <3>1, <3>2
  <2> QED
    BY <2>3, <2>5, <2>6
<1> QED
  BY <1>6, <1>7

LEMMA CascadeKept ==
  ASSUME TreeOK, CascadeOK, [Next]_vars
  PROVE  CascadeOK'
<1> USE RootIsNoSubTurn
<1>1. ASSUME UNCHANGED <<children, abortVars>>,
             \A t \in SubTurns : Settled(t) => Settled(t)' /\ (t \in active' => t \in active)
      PROVE  CascadeOK'
  BY <1>1, WorkKeepsCascade DEF CascadeOK
<1>2. ASSUME NEW p \in Turns, NEW t \in SubTurns, NEW a \in BOOLEAN, Spawn(p, t, a)
      PROVE  CascadeOK'
  <2>1. \A u \in SubTurns : Settled(u) => Settled(u)' /\ (u \in active' => u \in active)
    BY <1>2 DEF Spawn, Goto, Settled, TreeOK
  <2> QED
    BY <1>1, <1>2, <2>1 DEF Spawn
<1>3. ASSUME NEW t \in SubTurns, Acquire(t) \/ StopWaiting(t) \/ Refuse(t) \/ Register(t)
      PROVE  CascadeOK'
  <2>1. \A u \in SubTurns : Settled(u) => Settled(u)' /\ (u \in active' => u \in active)
    BY <1>3 DEF Acquire, StopWaiting, Refuse, Register, Goto, Settled, TreeOK
  <2> QED
    BY <1>1, <1>3, <2>1 DEF Acquire, StopWaiting, Refuse, Register
<1>4. ASSUME NEW t \in SubTurns, Attach(t)
      PROVE  CascadeOK'
  BY <1>4, AttachKeepsCascade
<1>5. ASSUME NEW t \in SubTurns, Panic(t) \/ Release(t) \/ Deliver(t)
      PROVE  CascadeOK'
  <2>1. \A u \in SubTurns : Settled(u) => Settled(u)' /\ (u \in active' => u \in active)
    BY <1>5 DEF Panic, Release, Deliver, CheckParent, Send, SendClosed, Delivered, Goto, Settled,
                TreeOK
  <2> QED
    BY <1>1, <1>5, <2>1 DEF Panic, Release, Deliver, CheckParent, Send, SendClosed
<1>6. ASSUME NEW t \in Turns, Poll(t) \/ Return(t)
      PROVE  CascadeOK'
  <2>1. \A u \in SubTurns : Settled(u) => Settled(u)' /\ (u \in active' => u \in active)
    BY <1>6 DEF Poll, Return, Goto, Settled, TreeOK
  <2> QED
    BY <1>1, <1>6, <2>1 DEF Poll, Return
<1>7. ASSUME NEW t \in Turns, HardAbort(t)
      PROVE  CascadeOK'
  <2>1. /\ UNCHANGED <<st, active, children, finished, closed, due>>
        /\ abort = <<>> /\ aborts' = aborts + 1 /\ aborts < MaxAborts
        /\ abort' = <<Frame(t, "flag", <<>>)>>
    BY <1>7 DEF HardAbort
  <2>2. abort' \in Seq(Frames)
    <3>1. Frame(t, "flag", <<>>) \in Frames
      BY DEF Frame, Frames
    <3> QED
      BY <2>1, <3>1
  <2>3. \A u : ~Covered(u)
    BY <2>1 DEF Covered
  <2>4. \A u : Settled(u)' <=> Settled(u)
    BY <2>1 DEF Settled
  <2>5. aborts' \in 0..MaxAborts
    BY <2>1, SubTurnAssumption DEF CascadeOK
  <2> QED
    BY <2>1, <2>2, <2>3, <2>4, <2>5 DEF CascadeOK
<1>8. CASE Finish
  BY <1>8, FlagKeepsCascade, CloseKeepsCascade, NextKeepsCascade DEF Finish
<1>9. CASE UNCHANGED vars
  <2>1. \A u \in SubTurns : Settled(u) => Settled(u)' /\ (u \in active' => u \in active)
    BY <1>9 DEF vars, Settled
  <2> QED
    BY <1>1, <1>9, <2>1 DEF vars, abortVars
<1> QED
  BY <1>2, <1>3, <1>4, <1>5, <1>6, <1>7, <1>8, <1>9 DEF Next, Begin

-------------------------------------------------------------------------------
(* The theorems *)

LEMMA SubTurnInit == Init => SubTurnInv
<1> SUFFICES ASSUME Init PROVE SubTurnInv
  OBVIOUS
<1> USE RootIsNoSubTurn, SubTurnAssumption DEF Init
<1>1. TreeOK
  BY DEF TreeOK
<1>2. SlotsOK
  <2>1. \A p \in Turns : HeldOf(p) = {}
    BY DEF HeldOf
  <2>2. sem \in [Turns -> 0..MaxConcurrent]
    OBVIOUS
  <2>3. \A p \in Turns : sem[p] = Cardinality(HeldOf(p))
    BY <2>1, FS_EmptySet
  <2>4. \A t \in SubTurns : st[t] \notin Inside
    BY DEF Inside, Turns
  <2> QED
    BY <2>2, <2>3, <2>4 DEF SlotsOK
<1>3. ResultsOK
  BY DEF ResultsOK
<1>4. CascadeOK
  <2>1. children \in [Turns -> Seq(SubTurns)] /\ abort \in Seq(Frames)
    OBVIOUS
  <2>2. \A p \in Turns : ToSet(children[p]) = {}
    BY <2>1, SetOfSequence
  <2>3. aborts \in 0..MaxAborts
    OBVIOUS
  <2> QED
    BY <2>1, <2>2, <2>3 DEF CascadeOK
<1> QED
  BY <1>1, <1>2, <1>3, <1>4 DEF SubTurnInv

(* The invariant of the sub-turns. *)
THEOREM SubTurnInvariant == Spec => []SubTurnInv
<1>1. SubTurnInv /\ [Next]_vars => SubTurnInv'
  BY TreeKept, SlotsKept, ResultsKept, CascadeKept DEF SubTurnInv
<1> QED
  BY SubTurnInit, <1>1, PTL DEF Spec

(* Every variable has its type: no semaphore has more tokens than slots, no  *)
(* channel more results than its buffer, and no turn is too deep.            *)
THEOREM SubTurnTypes == Spec => []TypeOK
<1>1. SubTurnInv => TypeOK
  BY DEF SubTurnInv, TreeOK, SlotsOK, ResultsOK, CascadeOK, Frames, TypeOK
<1> QED
  BY <1>1, SubTurnInvariant, PTL

(* However turns spawn, wait, panic and return, no sub-turn has more children *)
(* at work than slots, and the slots taken are those of its children.        *)
THEOREM SlotsBoundChildren == Spec => []ConcurrencyBound
<1>1. ASSUME SubTurnInv, NEW p \in SubTurns
      PROVE  LET Of(S) == {t \in SubTurns : parent[t] = p /\ st[t] \in S} IN
             /\ sem[p] = Cardinality({t \in holds : parent[t] = p})
             /\ Cardinality(Of({"acquired", "registered", "running", "returned"})) <= MaxConcurrent
             /\ Of({"delivering", "sending"}) \cap holds \subseteq panicked
  <2> DEFINE Of(S) == {t \in SubTurns : parent[t] = p /\ st[t] \in S}
  <2>1. sem[p] = Cardinality(HeldOf(p)) /\ sem[p] \in 0..MaxConcurrent
    BY <1>1, RootIsNoSubTurn DEF SubTurnInv, SlotsOK
  <2>2. Of({"acquired", "registered", "running", "returned"}) \in SUBSET HeldOf(p)
    BY <1>1, RootIsNoSubTurn DEF SubTurnInv, SlotsOK, HeldOf, Inside
  <2>3. Cardinality(Of({"acquired", "registered", "running", "returned"}))
           <= Cardinality(HeldOf(p))
    BY <1>1, <2>2, HeldFinite, FS_Subset DEF SubTurnInv
  <2>4. IsFiniteSet(Of({"acquired", "registered", "running", "returned"}))
    BY <1>1, <2>2, HeldFinite, FS_Subset DEF SubTurnInv
  <2>5. Cardinality(Of({"acquired", "registered", "running", "returned"})) \in Nat
    BY <2>4, FS_CardinalityType
  <2>6. Cardinality(Of({"acquired", "registered", "running", "returned"})) <= MaxConcurrent
    BY <2>1, <2>3, <2>5, SubTurnAssumption
  <2>7. Of({"delivering", "sending"}) \cap holds \subseteq panicked
    BY <1>1 DEF SubTurnInv, SlotsOK
  <2> QED
    BY <2>1, <2>6, <2>7 DEF HeldOf
<1>2. SubTurnInv => ConcurrencyBound
  BY <1>1 DEF ConcurrencyBound
<1> QED
  BY <1>2, SubTurnInvariant, PTL

(* The result of every sub-turn that is over is refused, returned, injected, *)
(* reported as an orphan, lost in a panic or in its parent's channel, once.   *)
THEOREM NoResultLost == Spec => []ResultsAccounted
<1>1. ASSUME SubTurnInv, NEW t \in SubTurns, st[t] = "done"
      PROVE  /\ fate[t] # "none"
             /\ fate[t] = "channel" =>
                  Cardinality({i \in DOMAIN chan[parent[t]] : chan[parent[t]][i] = t}) = 1
             /\ fate[t] = "injected" => t \notin ToSet(chan[parent[t]])
  <2>1. fate[t] # "none"
    BY <1>1 DEF SubTurnInv, ResultsOK
  <2>2. parent[t] \in Turns
    BY <1>1, <2>1, ResultHasParent DEF SubTurnInv
  <2>3. DOMAIN chan[parent[t]] = 1..Len(chan[parent[t]])
    BY <1>1, <2>2 DEF SubTurnInv, ResultsOK
  <2>4. ASSUME fate[t] = "channel"
        PROVE  Cardinality({i \in DOMAIN chan[parent[t]] : chan[parent[t]][i] = t}) = 1
    <3>1. PICK k \in 1..Len(chan[parent[t]]) : chan[parent[t]][k] = t
      BY <1>1, <2>4 DEF SubTurnInv, ResultsOK
    <3>2. {i \in DOMAIN chan[parent[t]] : chan[parent[t]][i] = t} = {k}
      BY <1>1, <2>2, <2>3, <3>1 DEF SubTurnInv, ResultsOK
    <3> QED
      BY <3>2, FS_Singleton
  <2>5. ASSUME fate[t] = "injected" PROVE t \notin ToSet(chan[parent[t]])
    BY <1>1, <2>2, <2>3, <2>5 DEF SubTurnInv, ResultsOK, ToSet
  <2> QED
    BY <2>1, <2>4, <2>5
<1>2. SubTurnInv => ResultsAccounted
  BY <1>1 DEF ResultsAccounted
<1> QED
  BY <1>2, SubTurnInvariant, PTL

(* When a HardAbort is over, all children that were attached when Finish     *)
(* began are finished or gone, whatever the turns have done meanwhile.       *)
THEOREM AbortReachesChildren == Spec => []CascadeComplete
<1>1. SubTurnInv => CascadeComplete
  BY DEF SubTurnInv, CascadeOK, CascadeComplete, Covered
<1> QED
  BY <1>1, SubTurnInvariant, PTL
===============================================================================
