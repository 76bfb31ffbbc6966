-------------------------- MODULE TurnHistoryProofs --------------------------
(***************************************************************************)
(* Proofs about the session of a turn: the types of TurnHistory, that a turn *)
(* that was aborted leaves nothing behind, that no message is lost, and that *)
(* every request has the results of its tool calls.                         *)
(*                                                                          *)
(* The inductive invariant has seven parts.  Types: every message names a   *)
(* known one, and forceCompression and a batch of calls have something to   *)
(* work on.  AbortInv: the copies of the history that may be written back (a *)
(* restore point, what a compression keeps, what HardAbort has read) are as *)
(* clean of aborted turns as the history.  OwnedInv: a message names the turn *)
(* that wrote it, and a turn records its own.  NoneLost: while the writers  *)
(* do not cross, every message is in the session, and would be in the one a *)
(* restore writes.  ToldInv: these copies are in the order in which their   *)
(* messages were written, no batch of results has another message in it, and *)
(* only HardAbort takes away what is in front of a result.  BatchInv: the   *)
(* batch that is carried out is the youngest in all of them.  TalkInv: the  *)
(* conversation is sound, or ends with the batch that is carried out.       *)
(*                                                                          *)
(* The last section gives a turn a rank that every step of it lowers.        *)
(***************************************************************************)
EXTENDS TurnHistory, Integers, NumberProofs

-------------------------------------------------------------------------------
(* Numbers *)

\* Max is the greatest number.
LEMMA MaxIs ==
    ASSUME NEW S, S \subseteq Nat, IsFiniteSet(S), S # {}
    PROVE  Max(S) \in S /\ \A i \in S : i <= Max(S)
<1>1. \E m \in S : \A i \in S : m >= i
  BY NatMax
<1> QED  BY <1>1 DEF Max

\* Min is the least number.
LEMMA MinIs ==
    ASSUME NEW S, S \subseteq Nat, S # {}
    PROVE  Min(S) \in S /\ \A i \in S : Min(S) <= i
<1>1. \E m \in S : \A i \in S : m <= i
  BY NatMin
<1> QED  BY <1>1 DEF Min

Below(S, n) == {i \in S : i < n}

\* In a finite set of numbers there is one with k numbers before it, for each k.
LEMMA NthExists ==
    ASSUME NEW S, S \subseteq Nat, IsFiniteSet(S), NEW k \in Nat, k < Cardinality(S)
    PROVE  \E n \in S : Cardinality(Below(S, n)) = k
<1> DEFINE P(T, j) == \E n \in T : Cardinality(Below(T, n)) = j
           G == {c \in Nat : \A T \in SUBSET Nat :
                   IsFiniteSet(T) /\ Cardinality(T) = c => \A j \in Nat : j < c => P(T, j)}
<1>1. 0 \in G
  OBVIOUS
<1>2. ASSUME NEW c \in Nat, c \in G
      PROVE  c + 1 \in G
  <2> SUFFICES ASSUME NEW T \in SUBSET Nat, IsFiniteSet(T), Cardinality(T) = c + 1,
                      NEW j \in Nat, j < c + 1
               PROVE  P(T, j)
    OBVIOUS
  <2>1. T # {}
    BY FS_EmptySet
  <2>2. PICK m \in T : \A i \in T : i <= m
    BY <2>1, NatMax
  <2> DEFINE R == T \ {m}
  <2>3. R \in SUBSET Nat /\ IsFiniteSet(R) /\ Cardinality(R) = c /\ m \in Nat
    <3>1. IsFiniteSet(R) /\ Cardinality(R) = Cardinality(T) - 1
      BY FS_RemoveElement, Zenon
    <3>2. Cardinality(R) = c
      BY <3>1
    <3>3. R \in SUBSET Nat
      OBVIOUS
    <3>4. m \in T
      BY <2>2
    <3>5. m \in Nat
      BY <3>4
    <3> QED  BY <3>1, <3>2, <3>3, <3>5, Zenon
  <2>0. \A i \in T : i \in Nat /\ i <= m
    BY <2>2
  <2>4. Below(T, m) = R
    <3>1. \A i \in T : i < m <=> i # m
      BY <2>0, <2>3
    <3> QED  BY <3>1 DEF Below
  <2>5. \A n \in R : Below(T, n) = Below(R, n)
    <3>1. \A n \in T : n # m => ~(m < n)
      BY <2>0, <2>3
    <3> QED  BY <3>1 DEF Below
  <2>6. R \subseteq T
    OBVIOUS
  <2> HIDE DEF R
  <2>7. CASE j = c
    BY <2>3, <2>4, <2>7
  <2>8. CASE j # c
    <3>1. P(R, j)
      BY <1>2, <2>3, <2>8
    <3> QED  BY <2>5, <2>6, <3>1
  <2> QED  BY <2>7, <2>8
<1>3. Nat \subseteq G
  <2> HIDE DEF G
  <2> QED  BY <1>1, <1>2, NumberInduction
<1>4. Cardinality(S) \in Nat
  BY FS_CardinalityType
<1> QED  BY <1>3, <1>4

\* Nth finds it.
LEMMA NthIs ==
    ASSUME NEW S, S \subseteq Nat, IsFiniteSet(S), NEW k \in Nat, k < Cardinality(S)
    PROVE  Nth(S, k) \in S /\ Cardinality(Below(S, Nth(S, k))) = k
<1>1. \E n \in S : Cardinality({i \in S : i < n}) = k
  BY NthExists DEF Below
<1> QED  BY <1>1 DEF Nth, Below

-------------------------------------------------------------------------------
(* Parts of a history: boundaries, halves, tails *)

Msg == [role : {"user", "assistant", "tool"}, id : Nat, turn : Nat, calls : Nat, of : Nat, nr : Nat]

\* h is a part of g without gaps.
PartOf(h, g) ==
    /\ h \in Seq(Msg)
    /\ \E d \in Nat : Len(h) + d <= Len(g) /\ \A i \in 1..Len(h) : h[i] = g[i + d]

\* A history is a part of itself.
LEMMA PartSelf == ASSUME NEW g \in Seq(Msg) PROVE PartOf(g, g)
<1>1. 0 \in Nat /\ Len(g) \in Nat /\ Len(g) + 0 <= Len(g) /\ \A i \in 1..Len(g) : g[i] = g[i + 0]
  OBVIOUS
<1> QED  BY <1>1 DEF PartOf

\* The empty history is a part of every one.
LEMMA PartEmpty == ASSUME NEW g \in Seq(Msg) PROVE PartOf(<<>>, g)
<1>1. /\ 0 \in Nat /\ Len(<<>>) = 0 /\ Len(<<>>) + 0 <= Len(g) /\ <<>> \in Seq(Msg)
      /\ \A i \in 1..Len(<<>>) : <<>>[i] = g[i + 0]
  OBVIOUS
<1> QED  BY <1>1 DEF PartOf

\* An interval of a history is a part of it.
LEMMA PartSub ==
    ASSUME NEW g \in Seq(Msg), NEW a \in 1..(Len(g) + 1), NEW b \in 0..Len(g),
           NEW h, h = SubSeq(g, a, b)
    PROVE  PartOf(h, g)
<1>1. a - 1 \in Nat /\ Len(g) \in Nat
  OBVIOUS
<1>2. h \in Seq(Msg)
  OBVIOUS
<1>3. Len(h) = (IF a <= b THEN b - a + 1 ELSE 0) /\ \A i \in 1..Len(h) : h[i] = g[a + i - 1]
  OBVIOUS
<1>4. Len(h) + (a - 1) <= Len(g)
  BY <1>1, <1>3
<1>5. \A i \in 1..Len(h) : h[i] = g[i + (a - 1)]
  <2>1. \A i \in 1..Len(h) : a + i - 1 = i + (a - 1)
    OBVIOUS
  <2> QED  BY <1>3, <2>1
<1> QED  BY <1>1, <1>2, <1>4, <1>5 DEF PartOf

\* So is one of its messages.
LEMMA PartSingle ==
    ASSUME NEW g \in Seq(Msg), NEW k \in 1..Len(g)
    PROVE  PartOf(<<g[k]>>, g)
<1> DEFINE h == <<g[k]>>
<1>1. k - 1 \in Nat /\ Len(g) \in Nat /\ g[k] \in Msg
  OBVIOUS
<1>2. h \in Seq(Msg) /\ Len(h) = 1 /\ h[1] = g[k]
  BY <1>1
<1> HIDE DEF h
<1>3. Len(h) + (k - 1) <= Len(g) /\ \A i \in 1..Len(h) : h[i] = g[i + (k - 1)]
  BY <1>1, <1>2
<1>4. PartOf(h, g)
  BY <1>1, <1>2, <1>3 DEF PartOf
<1> QED  BY <1>4 DEF h

\* The boundaries are numbers below the length.
LEMMA BoundariesAre ==
    ASSUME NEW h \in Seq(Msg)
    PROVE  /\ Boundaries(h) \subseteq Nat /\ IsFiniteSet(Boundaries(h))
           /\ \A b \in Boundaries(h) : b < Len(h)
<1>1. \A b \in Boundaries(h) : b \in 0..(Len(h) - 1)
  BY DEF Boundaries
<1>2. Len(h) \in Nat
  OBVIOUS
<1>3. IsFiniteSet(0..(Len(h) - 1))
  <2>1. 0 \in Int /\ Len(h) - 1 \in Int
    BY <1>2
  <2> QED  BY <2>1, FS_Interval
<1>4. Boundaries(h) \in SUBSET (0..(Len(h) - 1))
  BY <1>1
<1>5. IsFiniteSet(Boundaries(h))
  BY <1>3, <1>4, FS_Subset
<1>6. Boundaries(h) \subseteq Nat /\ \A b \in Boundaries(h) : b < Len(h)
  BY <1>1, <1>2
<1> QED  BY <1>5, <1>6

\* findSafeBoundary returns a number of messages of the history.
LEMMA SafeBoundaryIn ==
    ASSUME NEW h \in Seq(Msg), NEW t \in Int
    PROVE  SafeBoundary(h, t) \in 0..Len(h)
<1> DEFINE before == {b \in Boundaries(h) : b <= t}
           after == {b \in Boundaries(h) : b > t}
<1>1. Len(h) \in Nat /\ Boundaries(h) \subseteq Nat /\ IsFiniteSet(Boundaries(h))
      /\ \A b \in Boundaries(h) : b < Len(h)
  BY BoundariesAre
<1>2. before \in SUBSET Boundaries(h) /\ after \in SUBSET Boundaries(h)
  OBVIOUS
<1>3. IsFiniteSet(before)
  BY <1>1, <1>2, FS_Subset
<1>4. SafeBoundary(h, t) = 
       IF t <= 0 THEN 0 ELSE IF t >= Len(h) THEN Len(h) ELSE IF Boundaries(h) = {} THEN t
       ELSE IF before \ {0} # {} THEN Max(before) ELSE IF after # {} THEN Min(after) ELSE 0
  BY DEF SafeBoundary
<1> HIDE DEF before, after
<1>5. before # {} => Max(before) \in 0..Len(h)
  <2>0. before \subseteq Nat
    BY <1>1, <1>2
  <2>1. before # {} => Max(before) \in before
    BY <2>0, <1>3, MaxIs
  <2> QED  BY <1>1, <1>2, <2>1
<1>6. after # {} => Min(after) \in 0..Len(h)
  <2>0. after \subseteq Nat
    BY <1>1, <1>2
  <2>1. after # {} => Min(after) \in after
    BY <2>0, MinIs
  <2> QED  BY <1>1, <1>2, <2>1
<1>7. before \ {0} # {} => before # {}
  OBVIOUS
<1> QED  BY <1>1, <1>4, <1>5, <1>6, <1>7

\* forceCompression keeps a part of the history.
LEMMA HalfIsPart ==
    ASSUME NEW h \in Seq(Msg)
    PROVE  PartOf(Half(h), h)
<1> DEFINE starts == Boundaries(h)
           half == Cardinality(starts) \div 2
           mid == IF half > 0 THEN Nth(starts, half) ELSE SafeBoundary(h, Len(h) \div 2)
<1>1. Len(h) \in Nat /\ starts \subseteq Nat /\ IsFiniteSet(starts) /\ \A b \in starts : b < Len(h)
  BY BoundariesAre
<1>2. Half(h) = IF mid > 0 THEN DropFirst(h, mid)
                ELSE IF starts = {} THEN <<>> ELSE <<h[Max(starts) + 1]>>
  BY DEF Half
<1>3. mid \in 0..Len(h)
  <2> HIDE DEF starts
  <2>1. Cardinality(starts) \in Nat
    BY <1>1, FS_CardinalityType
  <2>2. half \in Nat /\ (half > 0 => half < Cardinality(starts))
    <3> DEFINE c == Cardinality(starts)
    <3>1. c \in Nat
      BY <2>1
    <3> HIDE DEF c
    <3>2. c \div 2 \in Nat /\ (c \div 2 > 0 => c \div 2 < c)
      BY <3>1
    <3> QED  BY <3>2 DEF c
  <2> HIDE DEF half
  <2>3. CASE half > 0
    <3>1. Nth(starts, half) \in starts
      BY <1>1, <2>2, <2>3, NthIs
    <3>2. \A b \in starts : b \in 0..Len(h)
      BY <1>1
    <3>3. Nth(starts, half) \in 0..Len(h)
      BY <3>1, <3>2
    <3> QED  BY <2>3, <3>3
  <2>4. CASE ~(half > 0)
    <3>1. Len(h) \div 2 \in Int
      BY <1>1
    <3>2. SafeBoundary(h, Len(h) \div 2) \in 0..Len(h)
      BY <3>1, SafeBoundaryIn
    <3> QED  BY <2>4, <3>2
  <2> QED  BY <2>3, <2>4
<1>4. starts # {} => Max(starts) \in starts
  BY <1>1, MaxIs
<1> HIDE DEF starts, mid
<1>5. CASE mid > 0
  <2>1. DropFirst(h, mid) = SubSeq(h, mid + 1, Len(h))
    BY DEF DropFirst
  <2>2. mid + 1 \in 1..(Len(h) + 1) /\ Len(h) \in 0..Len(h)
    BY <1>1, <1>3
  <2>3. PartOf(DropFirst(h, mid), h)
    BY <2>1, <2>2, PartSub
  <2> QED  BY <1>2, <1>5, <2>3
<1>6. CASE ~(mid > 0) /\ starts = {}
  BY <1>2, <1>6, PartEmpty
<1>7. CASE ~(mid > 0) /\ starts # {}
  <2>0. \A b \in starts : b + 1 \in 1..Len(h)
    BY <1>1
  <2>1. Max(starts) + 1 \in 1..Len(h)
    BY <2>0, <1>4, <1>7
  <2>2. PartOf(<<h[Max(starts) + 1]>>, h)
    BY <2>1, PartSingle
  <2> QED  BY <1>2, <1>7, <2>2
<1> QED  BY <1>5, <1>6, <1>7

\* What TruncateHistory drops: the first messages.
Dropped(h, k) == IF k >= Len(h) THEN 0 ELSE Len(h) - k
\* TruncateHistory keeps the last messages.
LEMMA LastOfIs ==
    ASSUME NEW h \in Seq(Msg), NEW k \in Nat, NEW l, l = LastOf(h, k)
    PROVE  /\ PartOf(l, h) /\ Dropped(h, k) \in 0..Len(h) /\ Len(l) = Len(h) - Dropped(h, k)
           /\ \A i \in 1..Len(l) : l[i] = h[i + Dropped(h, k)]
<1>1. Len(h) \in Nat
  OBVIOUS
<1>2. CASE k >= Len(h)
  <2>1. l = h /\ Dropped(h, k) = 0
    BY <1>2 DEF LastOf, Dropped
  <2> QED  BY <1>1, <2>1, PartSelf
<1>3. CASE ~(k >= Len(h))
  <2>1. l = SubSeq(h, Len(h) - k + 1, Len(h)) /\ Dropped(h, k) = Len(h) - k
    BY <1>3 DEF LastOf, Dropped
  <2>2. Len(h) - k + 1 \in 1..(Len(h) + 1) /\ Len(h) \in 0..Len(h)
    BY <1>1, <1>3
  <2>3. PartOf(l, h)
    BY <2>1, <2>2, PartSub
  <2>4. Len(l) = k /\ \A i \in 1..Len(l) : l[i] = h[(Len(h) - k + 1) + i - 1]
    BY <1>1, <1>3, <2>1, <2>2
  <2>5. Len(h) - (Len(h) - k) = k /\ Len(h) - k \in 0..Len(h)
        /\ \A i \in 1..k : (Len(h) - k + 1) + i - 1 = i + (Len(h) - k)
    BY <1>1, <1>3
  <2> QED  BY <2>1, <2>3, <2>4, <2>5
<1> QED  BY <1>2, <1>3

\* The tail that refreshRestorePointFromSession takes off is what the turn has added.
LEMMA MatchingTailIs ==
    ASSUME NEW h \in Seq(Msg), NEW p \in Seq(Msg), NEW k, k = MatchingTail(h, p)
    PROVE  /\ k \in 0..Len(h) /\ k <= Len(p)
           /\ \A i \in 0..(k - 1) : h[Len(h) - i] = p[Len(p) - i]
<1> DEFINE Same(a, b) == a = b /\ a.calls = 0
           fits == {n \in 0..Len(h) : n <= Len(p) /\
                    \A i \in 0 .. n - 1 : Same(h[Len(h) - i], p[Len(p) - i])}
<1>1. Len(h) \in Nat /\ Len(p) \in Nat
  OBVIOUS
<1>2. k = Max(fits)
  BY DEF MatchingTail
<1>3. 0 \in fits
  BY <1>1
<1>4. fits \in SUBSET (0..Len(h))
  OBVIOUS
<1>5. IsFiniteSet(0..Len(h))
  <2>1. 0 \in Int /\ Len(h) \in Int
    BY <1>1
  <2> QED  BY <2>1, FS_Interval
<1>6. IsFiniteSet(fits)
  BY <1>4, <1>5, FS_Subset
<1>7. fits \subseteq Nat
  BY <1>1
<1>8. k \in fits
  <2> HIDE DEF fits
  <2> QED  BY <1>2, <1>3, <1>6, <1>7, MaxIs
<1> QED  BY <1>8

-------------------------------------------------------------------------------
(* sanitizeHistoryForProvider *)

\* One step of the first pass: a message is kept when it fits.
KeepIfFits(s, m) == IF Fits(s, m) THEN Append(s, m) ELSE s
Passes(h, n, p) ==
    p = [i \in 0..n |-> IF i = 0 THEN <<>> ELSE KeepIfFits(p[i - 1], h[i])]

\* The recursive function of FirstPass exists, and FirstPass is its last value.
LEMMA FirstPassIs ==
    ASSUME NEW M, NEW h \in Seq(M)
    PROVE  \E p : Passes(h, Len(h), p) /\ FirstPass(h) = p[Len(h)]
<1> DEFINE G == {n \in Nat : \E p : Passes(h, n, p)}
<1>1. 0 \in G
  <2> DEFINE p == [i \in 0..0 |-> <<>>]
  <2>1. Passes(h, 0, p)
    <3>1. p = [i \in 0..0 |-> IF i = 0 THEN <<>> ELSE KeepIfFits(p[i - 1], h[i])]
      OBVIOUS
    <3> QED  BY <3>1 DEF Passes
  <2> QED  BY <2>1
<1>2. ASSUME NEW n \in Nat, n \in G
      PROVE  n + 1 \in G
  <2>1. PICK p : Passes(h, n, p)
    BY <1>2
  <2> DEFINE q == [i \in 0..(n + 1) |-> IF i <= n THEN p[i] ELSE KeepIfFits(p[n], h[n + 1])]
  <2>2. ASSUME NEW i \in 0..(n + 1)
        PROVE  q[i] = IF i = 0 THEN <<>> ELSE KeepIfFits(q[i - 1], h[i])
    <3>1. CASE i = 0
      <4>1. p[0] = <<>>
        BY <2>1 DEF Passes
      <4> QED  BY <3>1, <4>1
    <3>2. CASE i # 0 /\ i <= n
      <4>1. i - 1 \in 0..n /\ i \in 0..n /\ i - 1 \in 0..(n + 1) /\ i - 1 <= n
        BY <3>2
      <4>2. p[i] = KeepIfFits(p[i - 1], h[i])
        BY <2>1, <3>2, <4>1 DEF Passes
      <4>3. q[i] = p[i] /\ q[i - 1] = p[i - 1]
        BY <3>2, <4>1
      <4> QED  BY <3>2, <4>2, <4>3
    <3>3. CASE i = n + 1
      <4>1. ~(n + 1 <= n) /\ n \in 0..(n + 1) /\ n <= n /\ i - 1 = n /\ i # 0
        BY <3>3
      <4>2. q[i] = KeepIfFits(p[n], h[n + 1]) /\ q[i - 1] = p[n]
        BY <3>3, <4>1
      <4> QED  BY <3>3, <4>1, <4>2
    <3> QED  BY <3>1, <3>2, <3>3
  <2>3. q = [i \in 0..(n + 1) |-> q[i]]
    OBVIOUS
  <2> HIDE DEF q
  <2>4. Passes(h, n + 1, q)
    BY <2>2, <2>3, Zenon DEF Passes
  <2> QED  BY <2>4
<1>3. Nat \subseteq G
  <2> HIDE DEF G
  <2> QED  BY <1>1, <1>2, NumberInduction
<1>4. \E p : Passes(h, Len(h), p)
  <2>1. Len(h) \in Nat
    OBVIOUS
  <2> QED  BY <1>3, <2>1
<1> DEFINE last == CHOOSE p : Passes(h, Len(h), p)
<1>5. Passes(h, Len(h), last)
  BY <1>4, Zenon
<1>6. FirstPass(h) = last[Len(h)]
  BY DEF FirstPass, Passes, KeepIfFits
<1> QED  BY <1>5, <1>6

\* The first pass keeps messages of the history only.
LEMMA FirstPassType ==
    ASSUME NEW M, NEW h \in Seq(M)
    PROVE  FirstPass(h) \in Seq(M)
<1>1. PICK p : Passes(h, Len(h), p) /\ FirstPass(h) = p[Len(h)]
  BY FirstPassIs
<1> DEFINE G == {n \in Nat : n <= Len(h) => p[n] \in Seq(M)}
<1>2. Len(h) \in Nat
  OBVIOUS
<1>3. 0 \in G
  <2>1. p[0] = <<>>
    BY <1>1, <1>2 DEF Passes
  <2>2. <<>> \in Seq(M)
    OBVIOUS
  <2> QED  BY <2>1, <2>2
<1>4. ASSUME NEW n \in Nat, n \in G
      PROVE  n + 1 \in G
  <2> SUFFICES ASSUME n + 1 <= Len(h)
               PROVE  p[n + 1] \in Seq(M)
    OBVIOUS
  <2>1. p[n] \in Seq(M) /\ h[n + 1] \in M
    BY <1>2, <1>4
  <2>2. n + 1 \in 0..Len(h) /\ n + 1 # 0 /\ (n + 1) - 1 = n
    BY <1>2
  <2>3. p[n + 1] = KeepIfFits(p[n], h[n + 1])
    BY <1>1, <2>2 DEF Passes
  <2>4. Append(p[n], h[n + 1]) \in Seq(M)
    BY <2>1
  <2> QED  BY <2>1, <2>3, <2>4 DEF KeepIfFits
<1>5. Nat \subseteq G
  <2> HIDE DEF G
  <2> QED  BY <1>3, <1>4, NumberInduction
<1> QED  BY <1>1, <1>2, <1>5

\* What the second pass takes of the first, by its numbers.
Out(s) ==
    LET torn == {i \in DOMAIN s : s[i].calls > 0 /\ ~Answered(s, i)}
    IN torn \cup UNION {Block(s, i) : i \in torn}
Again(s) ==
    {j \in DOMAIN s \ Out(s) : s[j].role = "tool" /\
        \E i \in 1 .. j - 1 : i \notin Out(s) /\ <<s[i].of, s[i].nr>> = <<s[j].of, s[j].nr>>}
Rest(s) == DOMAIN s \ (Out(s) \cup Again(s))

\* What the second pass returns is a choice among those messages.
LEMMA SanitizeIs ==
    ASSUME NEW M, NEW h \in Seq(M), NEW s, s = FirstPass(h)
    PROVE  /\ Rest(s) \subseteq 1..Len(s) /\ Rest(s) \subseteq Nat /\ IsFiniteSet(Rest(s))
           /\ Cardinality(Rest(s)) \in Nat
           /\ Sanitize(h) = [i \in 1 .. Cardinality(Rest(s)) |-> s[Nth(Rest(s), i - 1)]]
           /\ \A k \in 1 .. Cardinality(Rest(s)) :
                 /\ Nth(Rest(s), k - 1) \in Rest(s)
                 /\ Cardinality(Below(Rest(s), Nth(Rest(s), k - 1))) = k - 1
<1> DEFINE R == Rest(s)
<1>1. s \in Seq(M)
  BY FirstPassType
<1>2. DOMAIN s = 1..Len(s) /\ Len(s) \in Nat
  BY <1>1
<1>3. R \subseteq 1..Len(s)
  BY <1>2 DEF Rest
<1>4. R \subseteq Nat
  BY <1>2, <1>3
<1>5. IsFiniteSet(1..Len(s))
  <2>1. 1 \in Int /\ Len(s) \in Int
    BY <1>2
  <2> QED  BY <2>1, FS_Interval
<1>6. IsFiniteSet(R)
  BY <1>3, <1>5, FS_Subset
<1>7. Cardinality(R) \in Nat
  BY <1>6, FS_CardinalityType
<1>8. Sanitize(h) = [i \in 1 .. Cardinality(R) |-> s[Nth(R, i - 1)]]
  BY DEF Sanitize, Rest, Again, Out
<1> HIDE DEF R
<1>9. \A k \in 1 .. Cardinality(R) : Nth(R, k - 1) \in R /\ Cardinality(Below(R, Nth(R, k - 1))) = k - 1
  <2> SUFFICES ASSUME NEW k \in 1 .. Cardinality(R)
               PROVE  Nth(R, k - 1) \in R /\ Cardinality(Below(R, Nth(R, k - 1))) = k - 1
    OBVIOUS
  <2>1. k - 1 \in Nat /\ k - 1 < Cardinality(R)
    BY <1>7
  <2> QED  BY <1>4, <1>6, <2>1, NthIs
<1> QED  BY <1>3, <1>4, <1>6, <1>7, <1>8, <1>9 DEF R

\* The conversation has no message that the history has not.
LEMMA SanitizeType ==
    ASSUME NEW M, NEW h \in Seq(M)
    PROVE  Sanitize(h) \in Seq(M)
<1> DEFINE s == FirstPass(h)
           R == Rest(s)
<1>1. s \in Seq(M)
  BY FirstPassType
<1>2. /\ R \subseteq 1..Len(s) /\ Cardinality(R) \in Nat
      /\ Sanitize(h) = [i \in 1 .. Cardinality(R) |-> s[Nth(R, i - 1)]]
      /\ \A k \in 1 .. Cardinality(R) : Nth(R, k - 1) \in R
  BY SanitizeIs
<1> HIDE DEF R, s
<1>3. \A n \in R : s[n] \in M
  <2>1. \A n \in 1..Len(s) : s[n] \in M
    BY <1>1
  <2> QED  BY <1>2, <2>1
<1>4. \A k \in 1 .. Cardinality(R) : s[Nth(R, k - 1)] \in M
  BY <1>2, <1>3, Zenon
<1> QED  BY <1>2, <1>4

-------------------------------------------------------------------------------
(* Types: counters, limits, flags and places *)

Known == 1..Len(owner)

\* The counters.
Counts ==
    /\ base \in Nat /\ iter \in Nat
    /\ pending \in Nat /\ queue \in Nat /\ spent \in Nat
    /\ spent <= MaxTroubles /\ pending + queue <= spent

Limits ==
    /\ turn \in 0..MaxTurns /\ retry \in 0..MaxRetries
    /\ pc # "idle" => turn >= 1

Flags == terminal \in BOOLEAN /\ hardAbort \in BOOLEAN /\ graceful \in {"no", "asked", "used"}

\* forceCompression and the batch of tool calls have something to work on.
Compressing == {"compress", "note", "cut", "refresh", "rebuild"}
Places ==
    /\ work.back \in {"none", "save", "llm"}
    /\ pc \in Compressing => work.back \in {"save", "llm"}
    /\ pc \in Compressing \cup {"idle", "capture", "save", "loop", "inject", "llm", "tool", "skip",
                                "after", "finish", "restore", "restoreSummary"}
    /\ pc \notin Compressing => work = NoWork
    /\ pc \in {"tool", "skip"} => 1 <= job.nr /\ job.nr <= job.total

\* The messages that there are, and what refers to them.
Histories == Seq(Messages)
Points == [history : Histories, summary : SUBSET Known]
Works == [kept : Histories, dropped : SUBSET Known, summary : SUBSET Known,
          back : {"none", "save", "llm"}]
Sums == [pc : {"off", "snap", "read", "set", "cut"}, history : Histories,
         covered : SUBSET Known, keep : Nat]
Rolls == {r \in [history : Histories, base : Nat, turn : 1..MaxTurns] : r.base <= Len(r.history)}
Fates == [aborted : SUBSET (1..MaxTurns), undone : SUBSET (1..MaxTurns), noted : SUBSET Known,
          compressed : BOOLEAN, cut : SUBSET (0..Len(owner)), marks : SUBSET {"overlap", "replaced"}]
Jobs == [of : 0..Len(owner), nr : 0..MaxCalls, total : 0..MaxCalls]
Data ==
    /\ owner \in Seq(1..MaxTurns)
    /\ history \in Histories /\ mine \in Histories /\ messages \in Histories
    /\ summary \in SUBSET Known /\ point \in Points /\ work \in Works /\ sum \in Sums
    /\ rolling \in Seq(Rolls) /\ Len(rolling) <= 1
    /\ fate \in Fates /\ job \in Jobs

Types == Counts /\ Limits /\ Flags /\ Places /\ Data

\* What is in the steering queue or pending has arrived: there are not more
\* messages than troubles.
LEMMA CountsStep ==
    ASSUME Counts, history \in Histories, [Next]_vars
    PROVE  Counts'
<1>0. MaxTroubles \in Nat /\ Len(history) \in Nat
  BY TurnHistoryAssumption DEF Histories
<1>1. CASE UNCHANGED vars
  BY <1>1, <1>0 DEF Counts, vars, session, turnVars, signals, ghosts
<1>2. CASE Begin
  BY <1>2, <1>0 DEF Counts, Begin, signals
<1>3. CASE Capture
  BY <1>3, <1>0 DEF Counts, Capture, Trouble, signals
<1>4. CASE Save
  BY <1>4, <1>0 DEF Counts, Save, Persist, signals
<1>5. CASE Compress
  BY <1>5, <1>0 DEF Counts, Compress, signals
<1>6. CASE Note
  BY <1>6, <1>0 DEF Counts, Note, signals
<1>7. CASE Cut
  BY <1>7, <1>0 DEF Counts, Cut, signals
<1>8. CASE Refresh
  BY <1>8, <1>0 DEF Counts, Refresh, signals
<1>9. CASE Rebuild
  BY <1>9, <1>0 DEF Counts, Rebuild, signals
<1>10. CASE Loop
  BY <1>10, <1>0 DEF Counts, Loop
<1>11. CASE Inject
  BY <1>11, <1>0 DEF Counts, Inject, Persist, signals
<1>12. CASE Ask
  BY <1>12, <1>0 DEF Counts, Ask
<1>13. CASE Answer
  BY <1>13, <1>0 DEF Counts, Answer
<1>14. ASSUME NEW k \in 1..MaxCalls, CallTools(k)
       PROVE  Counts'
  BY <1>14, <1>0 DEF Counts, CallTools, Persist, signals
<1>15. CASE Retry
  BY <1>15, <1>0 DEF Counts, Retry, Trouble, signals
<1>16. CASE Fail
  BY <1>16, <1>0 DEF Counts, Fail, Leave
<1>17. CASE Abort
  BY <1>17, <1>0 DEF Counts, Abort, signals
<1>18. CASE RunTool
  BY <1>18, <1>0 DEF Counts, RunTool, Persist
<1>19. CASE DenyTool
  BY <1>19, <1>0 DEF Counts, DenyTool, Persist, signals
<1>20. CASE SkipTool
  BY <1>20, <1>0 DEF Counts, SkipTool, Persist, signals
<1>21. CASE After
  BY <1>21, <1>0 DEF Counts, After
<1>22. CASE Finish
  BY <1>22, <1>0 DEF Counts, Finish, Leave
<1>23. CASE HookAbort
  BY <1>23, <1>0 DEF Counts, HookAbort
<1>24. CASE Restore
  BY <1>24, <1>0 DEF Counts, Restore, signals
<1>25. CASE RestoreSummary
  <2>1. Leave /\ UNCHANGED <<turn, queue, spent>>
    BY <1>25 DEF RestoreSummary
  <2> QED  BY <2>1, <1>0 DEF Counts, Leave
<1>26. CASE Steer
  BY <1>26, <1>0 DEF Counts, Steer, Trouble, turnVars
<1>27. CASE InterruptGraceful
  BY <1>27, <1>0 DEF Counts, InterruptGraceful, Trouble, turnVars
<1>28. CASE InterruptHard
  BY <1>28, <1>0 DEF Counts, InterruptHard, Trouble, turnVars
<1>29. CASE Rollback
  BY <1>29, <1>0 DEF Counts, Rollback, Trouble, turnVars, signals
<1>30. CASE RollbackWrite
  BY <1>30, <1>0 DEF Counts, RollbackWrite, turnVars, signals
<1>31. CASE Snapshot
  BY <1>31, <1>0 DEF Counts, Snapshot, turnVars, signals
<1>32. CASE Decide
  BY <1>32, <1>0 DEF Counts, Decide, turnVars, signals
<1>33. CASE StoreSummary
  BY <1>33, <1>0 DEF Counts, StoreSummary, turnVars, signals
<1>34. CASE TruncateRest
  BY <1>34, <1>0 DEF Counts, TruncateRest, turnVars, signals
<1> QED
  BY <1>1, <1>2, <1>3, <1>4, <1>5, <1>6, <1>7, <1>8, <1>9, <1>10, <1>11, <1>12, <1>13, <1>14,
     <1>15, <1>16, <1>17, <1>18, <1>19, <1>20, <1>21, <1>22, <1>23, <1>24, <1>25, <1>26, <1>27,
     <1>28, <1>29, <1>30, <1>31, <1>32, <1>33, <1>34 DEF Next, RunTurn, Interfere, Summarize

\* The turns and the repeated LLM calls stay within their limits.
LEMMA LimitsStep ==
    ASSUME Limits, [Next]_vars
    PROVE  Limits'
<1>0. MaxTurns \in Nat /\ MaxRetries \in Nat
  BY TurnHistoryAssumption
<1>1. CASE UNCHANGED vars
  BY <1>1, <1>0 DEF Limits, vars, session, turnVars, signals, ghosts
<1>2. CASE Begin
  BY <1>2, <1>0 DEF Limits, Begin, signals
<1>3. CASE Capture
  BY <1>3, <1>0 DEF Limits, Capture, Trouble, signals
<1>4. CASE Save
  BY <1>4, <1>0 DEF Limits, Save, signals
<1>5. CASE Compress
  BY <1>5, <1>0 DEF Limits, Compress, signals
<1>6. CASE Note
  BY <1>6, <1>0 DEF Limits, Note, signals
<1>7. CASE Cut
  BY <1>7, <1>0 DEF Limits, Cut, signals
<1>8. CASE Refresh
  BY <1>8, <1>0 DEF Limits, Refresh, signals
<1>9. CASE Rebuild
  BY <1>9, <1>0 DEF Limits, Rebuild, signals
<1>10. CASE Loop
  BY <1>10, <1>0 DEF Limits, Loop
<1>11. CASE Inject
  BY <1>11, <1>0 DEF Limits, Inject, signals
<1>12. CASE Ask
  BY <1>12, <1>0 DEF Limits, Ask
<1>13. CASE Answer
  BY <1>13, <1>0 DEF Limits, Answer
<1>14. ASSUME NEW k \in 1..MaxCalls, CallTools(k)
       PROVE  Limits'
  BY <1>14, <1>0 DEF Limits, CallTools, signals
<1>15. CASE Retry
  BY <1>15, <1>0 DEF Limits, Retry, Trouble, signals
<1>16. CASE Fail
  BY <1>16, <1>0 DEF Limits, Fail, Leave
<1>17. CASE Abort
  BY <1>17, <1>0 DEF Limits, Abort, signals
<1>18. CASE RunTool
  BY <1>18, <1>0 DEF Limits, RunTool, NextJob
<1>19. CASE DenyTool
  BY <1>19, <1>0 DEF Limits, DenyTool, NextJob, signals
<1>20. CASE SkipTool
  BY <1>20, <1>0 DEF Limits, SkipTool, NextJob, signals
<1>21. CASE After
  BY <1>21, <1>0 DEF Limits, After
<1>22. CASE Finish
  BY <1>22, <1>0 DEF Limits, Finish, Leave
<1>23. CASE HookAbort
  BY <1>23, <1>0 DEF Limits, HookAbort
<1>24. CASE Restore
  BY <1>24, <1>0 DEF Limits, Restore, signals
<1>25. CASE RestoreSummary
  <2>1. Leave /\ UNCHANGED <<turn, queue, spent>>
    BY <1>25 DEF RestoreSummary
  <2> QED  BY <2>1, <1>0 DEF Limits, Leave
<1>26. CASE Steer
  BY <1>26, <1>0 DEF Limits, Steer, Trouble, turnVars
<1>27. CASE InterruptGraceful
  BY <1>27, <1>0 DEF Limits, InterruptGraceful, Trouble, turnVars
<1>28. CASE InterruptHard
  BY <1>28, <1>0 DEF Limits, InterruptHard, Trouble, turnVars
<1>29. CASE Rollback
  BY <1>29, <1>0 DEF Limits, Rollback, Trouble, turnVars, signals
<1>30. CASE RollbackWrite
  BY <1>30, <1>0 DEF Limits, RollbackWrite, turnVars, signals
<1>31. CASE Snapshot
  BY <1>31, <1>0 DEF Limits, Snapshot, turnVars, signals
<1>32. CASE Decide
  BY <1>32, <1>0 DEF Limits, Decide, turnVars, signals
<1>33. CASE StoreSummary
  BY <1>33, <1>0 DEF Limits, StoreSummary, turnVars, signals
<1>34. CASE TruncateRest
  BY <1>34, <1>0 DEF Limits, TruncateRest, turnVars, signals
<1> QED
  BY <1>1, <1>2, <1>3, <1>4, <1>5, <1>6, <1>7, <1>8, <1>9, <1>10, <1>11, <1>12, <1>13, <1>14,
     <1>15, <1>16, <1>17, <1>18, <1>19, <1>20, <1>21, <1>22, <1>23, <1>24, <1>25, <1>26, <1>27,
     <1>28, <1>29, <1>30, <1>31, <1>32, <1>33, <1>34 DEF Next, RunTurn, Interfere, Summarize

\* The flags stay flags.
LEMMA FlagsStep ==
    ASSUME Flags, [Next]_vars
    PROVE  Flags'
<1>1. CASE UNCHANGED vars
  BY <1>1, Zenon DEF Flags, vars, session, turnVars, signals, ghosts
<1>2. CASE Begin
  BY <1>2, Zenon DEF Flags, Begin, signals
<1>3. CASE Capture
  BY <1>3, Zenon DEF Flags, Capture, Trouble, signals
<1>4. CASE Save
  BY <1>4, Zenon DEF Flags, Save, signals
<1>5. CASE Compress
  BY <1>5, Zenon DEF Flags, Compress, signals
<1>6. CASE Note
  BY <1>6, Zenon DEF Flags, Note, signals
<1>7. CASE Cut
  BY <1>7, Zenon DEF Flags, Cut, signals
<1>8. CASE Refresh
  BY <1>8, Zenon DEF Flags, Refresh, signals
<1>9. CASE Rebuild
  BY <1>9, Zenon DEF Flags, Rebuild, signals
<1>10. CASE Loop
  BY <1>10, Zenon DEF Flags, Loop
<1>11. CASE Inject
  BY <1>11, Zenon DEF Flags, Inject, signals
<1>12. CASE Ask
  BY <1>12, Zenon DEF Flags, Ask
<1>13. CASE Answer
  BY <1>13, Zenon DEF Flags, Answer
<1>14. ASSUME NEW k \in 1..MaxCalls, CallTools(k)
       PROVE  Flags'
  BY <1>14, Zenon DEF Flags, CallTools, signals
<1>15. CASE Retry
  BY <1>15, Zenon DEF Flags, Retry, Trouble, signals
<1>16. CASE Fail
  BY <1>16, Zenon DEF Flags, Fail, Leave
<1>17. CASE Abort
  BY <1>17, Zenon DEF Flags, Abort, signals
<1>18. CASE RunTool
  BY <1>18, Zenon DEF Flags, RunTool
<1>19. CASE DenyTool
  BY <1>19, Zenon DEF Flags, DenyTool, signals
<1>20. CASE SkipTool
  BY <1>20, Zenon DEF Flags, SkipTool, signals
<1>21. CASE After
  BY <1>21, Zenon DEF Flags, After
<1>22. CASE Finish
  BY <1>22, Zenon DEF Flags, Finish, Leave
<1>23. CASE HookAbort
  BY <1>23, Zenon DEF Flags, HookAbort
<1>24. CASE Restore
  BY <1>24, Zenon DEF Flags, Restore, signals
<1>25. CASE RestoreSummary
  BY <1>25, Zenon DEF Flags, RestoreSummary, Leave
<1>26. CASE Steer
  BY <1>26, Zenon DEF Flags, Steer, Trouble, turnVars
<1>27. CASE InterruptGraceful
  BY <1>27, Zenon DEF Flags, InterruptGraceful, Trouble, turnVars
<1>28. CASE InterruptHard
  BY <1>28, Zenon DEF Flags, InterruptHard, Trouble, turnVars
<1>29. CASE Rollback
  BY <1>29, Zenon DEF Flags, Rollback, Trouble, turnVars, signals
<1>30. CASE RollbackWrite
  BY <1>30, Zenon DEF Flags, RollbackWrite, turnVars, signals
<1>31. CASE Snapshot
  BY <1>31, Zenon DEF Flags, Snapshot, turnVars, signals
<1>32. CASE Decide
  BY <1>32, Zenon DEF Flags, Decide, turnVars, signals
<1>33. CASE StoreSummary
  BY <1>33, Zenon DEF Flags, StoreSummary, turnVars, signals
<1>34. CASE TruncateRest
  BY <1>34, Zenon DEF Flags, TruncateRest, turnVars, signals
<1> QED
  BY <1>1, <1>2, <1>3, <1>4, <1>5, <1>6, <1>7, <1>8, <1>9, <1>10, <1>11, <1>12, <1>13, <1>14,
     <1>15, <1>16, <1>17, <1>18, <1>19, <1>20, <1>21, <1>22, <1>23, <1>24, <1>25, <1>26, <1>27,
     <1>28, <1>29, <1>30, <1>31, <1>32, <1>33, <1>34 DEF Next, RunTurn, Interfere, Summarize

\* The locals of forceCompression when it is called.
WorkFor(b) == [kept |-> <<>>, dropped |-> {}, summary |-> {}, back |-> b]
\* Where forceCompression returns to is one field of its variables.
LEMMA WorkWithBack ==
    ASSUME NEW k, NEW d, NEW s, NEW x, NEW b
    PROVE  [[kept |-> k, dropped |-> d, summary |-> s, back |-> x] EXCEPT !.back = b] =
               [kept |-> k, dropped |-> d, summary |-> s, back |-> b]
<1> DEFINE w == [kept |-> k, dropped |-> d, summary |-> s, back |-> x]
<1>1. w \in [kept : {k}, dropped : {d}, summary : {s}, back : {x}]
  OBVIOUS
<1>2. w.kept = k /\ w.dropped = d /\ w.summary = s
  OBVIOUS
<1> HIDE DEF w
<1>3. [w EXCEPT !.back = b] = [kept |-> w.kept, dropped |-> w.dropped, summary |-> w.summary, back |-> b]
  BY <1>1
<1> QED  BY <1>2, <1>3 DEF w

\* Its variables when it has nothing to do, and when it is called.
LEMMA NoWorkIs ==
    /\ NoWork = WorkFor("none") /\ NoWork.back = "none"
    /\ [NoWork EXCEPT !.back = "save"] = WorkFor("save") /\ WorkFor("save").back = "save"
    /\ [NoWork EXCEPT !.back = "llm"] = WorkFor("llm") /\ WorkFor("llm").back = "llm"
<1>1. NoWork = WorkFor("none") /\ NoWork.back = "none"
  BY DEF NoWork, WorkFor
<1>2. WorkFor("save").back = "save" /\ WorkFor("llm").back = "llm"
  BY DEF WorkFor
<1>3. ASSUME NEW b
      PROVE  [NoWork EXCEPT !.back = b] = WorkFor(b)
  <2> DEFINE e == <<>>
             z == {}
             n == "none"
  <2> HIDE DEF e, z, n
  <2>1. [[kept |-> e, dropped |-> z, summary |-> z, back |-> n] EXCEPT !.back = b] =
            [kept |-> e, dropped |-> z, summary |-> z, back |-> b]
    BY WorkWithBack
  <2> QED  BY <2>1 DEF e, z, n, NoWork, WorkFor
<1> QED  BY <1>1, <1>2, <1>3

\* The next call of a batch, or the end of it.
LEMMA NextJobIs ==
    ASSUME Data, NEW q, NextJob(q)
    PROVE  \/ /\ job.nr < job.total /\ pc' = q
              /\ job' = [of |-> job.of, nr |-> job.nr + 1, total |-> job.total]
           \/ ~(job.nr < job.total) /\ pc' = "loop" /\ job' = NoJob
<1>1. job \in [of : 0..Len(owner), nr : 0..MaxCalls, total : 0..MaxCalls]
  BY DEF Data, Jobs
<1>2. [job EXCEPT !.nr = job.nr + 1] = [of |-> job.of, nr |-> job.nr + 1, total |-> job.total]
  BY <1>1
<1> QED  BY <1>2 DEF NextJob

\* After a result the batch goes on with a call that it has, or ends.
LEMMA BatchGoesOn ==
    ASSUME Data, Places, pc \in {"tool", "skip"}, NEW q, NextJob(q), q \in {"tool", "skip"},
           work' = work
    PROVE  Places'
<1>1. job.nr \in Nat /\ job.total \in Nat /\ job.nr >= 1 /\ job.nr <= job.total
  <2>1. MaxCalls \in Nat
    BY TurnHistoryAssumption
  <2>2. job \in [of : 0..Len(owner), nr : 0..MaxCalls, total : 0..MaxCalls]
    BY DEF Data, Jobs
  <2>3. job.nr \in 0..MaxCalls /\ job.total \in 0..MaxCalls
    BY <2>2
  <2>4. 1 <= job.nr /\ job.nr <= job.total
    BY DEF Places
  <2> QED  BY <2>1, <2>3, <2>4
<1>2. CASE /\ job.nr < job.total /\ pc' = q
           /\ job' = [of |-> job.of, nr |-> job.nr + 1, total |-> job.total]
  <2>1. job'.nr = job.nr + 1 /\ job'.total = job.total
    BY <1>2
  <2>2. 1 <= job'.nr /\ job'.nr <= job'.total
    BY <1>1, <1>2, <2>1
  <2> QED  BY <1>2, <2>2 DEF Places, Compressing
<1>3. CASE pc' = "loop"
  BY <1>3 DEF Places, Compressing
<1> QED  BY <1>2, <1>3, NextJobIs

\* Whoever compresses knows where to return to, and a batch has a next call.
LEMMA PlacesStep ==
    ASSUME Places, Data, [Next]_vars
    PROVE  Places'
<1>0. MaxCalls \in Nat
  BY TurnHistoryAssumption
<1>1. CASE UNCHANGED vars
  BY <1>1, <1>0 DEF Places, Compressing, vars, session, turnVars, signals, ghosts
<1>2. CASE Begin
  BY <1>2, <1>0 DEF Places, Compressing, Begin
<1>3. CASE Capture
  <2>1. work = NoWork /\ pc = "capture"
    BY <1>3 DEF Places, Compressing, Capture
  <2>2. \/ pc' = "save" /\ work' = work
        \/ pc' = "compress" /\ work' = WorkFor("save")
    BY <1>3, NoWorkIs, Zenon DEF Capture
  <2> QED  BY <2>1, <2>2, NoWorkIs DEF Places, Compressing
<1>4. CASE Save
  BY <1>4, <1>0 DEF Places, Compressing, Save, Persist
<1>5. CASE Compress
  <2>1. work.back \in {"save", "llm"} /\ pc = "compress"
    BY <1>5 DEF Places, Compressing, Compress
  <2>2. work \in Works
    BY DEF Data
  <2>3. pc' \in {"rebuild", "note"} /\ work'.back = work.back
    BY <1>5, <2>2 DEF Compress, Works
  <2> QED  BY <2>1, <2>3 DEF Places, Compressing
<1>6. CASE Note
  BY <1>6, <1>0 DEF Places, Compressing, Note
<1>7. CASE Cut
  BY <1>7, <1>0 DEF Places, Compressing, Cut
<1>8. CASE Refresh
  BY <1>8, <1>0 DEF Places, Compressing, Refresh
<1>9. CASE Rebuild
  <2>1. work.back \in {"save", "llm"} /\ pc' = work.back /\ work' = NoWork
    BY <1>9 DEF Places, Compressing, Rebuild
  <2> QED  BY <2>1, NoWorkIs DEF Places, Compressing
<1>10. CASE Loop
  BY <1>10, <1>0 DEF Places, Compressing, Loop
<1>11. CASE Inject
  BY <1>11, <1>0 DEF Places, Compressing, Inject, Persist
<1>12. CASE Ask
  BY <1>12, <1>0 DEF Places, Compressing, Ask
<1>13. CASE Answer
  BY <1>13, <1>0 DEF Places, Compressing, Answer
<1>14. ASSUME NEW k \in 1..MaxCalls, CallTools(k)
       PROVE  Places'
  BY <1>14, <1>0 DEF Places, Compressing, CallTools, Persist
<1>15. CASE Retry
  <2>1. work = NoWork /\ pc = "llm"
    BY <1>15 DEF Places, Compressing, Retry
  <2>2. \/ pc' = "llm" /\ work' = work
        \/ pc' = "compress" /\ work' = WorkFor("llm")
    BY <1>15, NoWorkIs, <2>1, Zenon DEF Retry
  <2> QED  BY <2>1, <2>2, NoWorkIs DEF Places, Compressing
<1>16. CASE Fail
  BY <1>16, <1>0 DEF Places, Compressing, Fail, Leave
<1>17. CASE Abort
  BY <1>17, <1>0 DEF Places, Compressing, Abort
<1>18. CASE RunTool
  <2>1. pc \in {"tool", "skip"} /\ work' = work /\ NextJob(IF pending' > 0 \/ graceful = "asked" THEN "skip" ELSE "tool")
    BY <1>18 DEF RunTool
  <2> QED  BY <2>1, BatchGoesOn
<1>19. CASE DenyTool
  <2>1. pc \in {"tool", "skip"} /\ work' = work /\ NextJob("tool")
    BY <1>19 DEF DenyTool
  <2> QED  BY <2>1, BatchGoesOn
<1>20. CASE SkipTool
  <2>1. pc \in {"tool", "skip"} /\ work' = work /\ NextJob("skip")
    BY <1>20 DEF SkipTool
  <2> QED  BY <2>1, BatchGoesOn
<1>21. CASE After
  BY <1>21, <1>0 DEF Places, Compressing, After
<1>22. CASE Finish
  BY <1>22, <1>0 DEF Places, Compressing, Finish, Leave
<1>23. CASE HookAbort
  BY <1>23, <1>0 DEF Places, Compressing, HookAbort
<1>24. CASE Restore
  BY <1>24, <1>0 DEF Places, Compressing, Restore
<1>25. CASE RestoreSummary
  BY <1>25, <1>0 DEF Places, Compressing, RestoreSummary, Leave
<1>26. CASE Steer
  BY <1>26, <1>0 DEF Places, Compressing, Steer, Trouble, turnVars
<1>27. CASE InterruptGraceful
  BY <1>27, <1>0 DEF Places, Compressing, InterruptGraceful, Trouble, turnVars
<1>28. CASE InterruptHard
  BY <1>28, <1>0 DEF Places, Compressing, InterruptHard, Trouble, turnVars
<1>29. CASE Rollback
  BY <1>29, <1>0 DEF Places, Compressing, Rollback, Trouble, turnVars
<1>30. CASE RollbackWrite
  BY <1>30, <1>0 DEF Places, Compressing, RollbackWrite, turnVars
<1>31. CASE Snapshot
  BY <1>31, <1>0 DEF Places, Compressing, Snapshot, turnVars
<1>32. CASE Decide
  BY <1>32, <1>0 DEF Places, Compressing, Decide, turnVars
<1>33. CASE StoreSummary
  BY <1>33, <1>0 DEF Places, Compressing, StoreSummary, turnVars
<1>34. CASE TruncateRest
  BY <1>34, <1>0 DEF Places, Compressing, TruncateRest, turnVars
<1> QED
  BY <1>1, <1>2, <1>3, <1>4, <1>5, <1>6, <1>7, <1>8, <1>9, <1>10, <1>11, <1>12, <1>13, <1>14,
     <1>15, <1>16, <1>17, <1>18, <1>19, <1>20, <1>21, <1>22, <1>23, <1>24, <1>25, <1>26, <1>27,
     <1>28, <1>29, <1>30, <1>31, <1>32, <1>33, <1>34 DEF Next, RunTurn, Interfere, Summarize

-------------------------------------------------------------------------------
(* Types: messages *)

\* The sets of values depend on the number of messages written so far,
LEMMA SameOwner ==
    ASSUME owner' = owner
    PROVE  /\ Messages' = Messages /\ Known' = Known /\ Histories' = Histories /\ Points' = Points
           /\ Works' = Works /\ Sums' = Sums /\ Rolls' = Rolls /\ Fates' = Fates /\ Jobs' = Jobs
<1>1. Messages' = Messages /\ Known' = Known
  BY Zenon DEF Messages, Known
<1>2. Histories' = Histories
  BY <1>1 DEF Histories
<1>3. Points' = Points /\ Works' = Works /\ Sums' = Sums /\ Rolls' = Rolls
  BY <1>1, <1>2, Zenon DEF Points, Works, Sums, Rolls
<1>4. Fates' = Fates /\ Jobs' = Jobs
  BY <1>1, Zenon DEF Fates, Jobs
<1> QED  BY <1>1, <1>2, <1>3, <1>4

\* and grow with it.
LEMMA MoreOwner ==
    ASSUME owner \in Seq(1..MaxTurns), turn \in 1..MaxTurns, owner' = Append(owner, turn)
    PROVE  /\ owner' \in Seq(1..MaxTurns) /\ Len(owner') = Len(owner) + 1
           /\ Messages \subseteq Messages' /\ Known \subseteq Known'
           /\ Histories \subseteq Histories' /\ Points \subseteq Points'
           /\ Works \subseteq Works' /\ Sums \subseteq Sums' /\ Rolls \subseteq Rolls'
           /\ Seq(Rolls) \subseteq Seq(Rolls') /\ Fates \subseteq Fates' /\ Jobs \subseteq Jobs'
<1>1. owner' \in Seq(1..MaxTurns) /\ Len(owner') = Len(owner) + 1 /\ Len(owner) \in Nat
  OBVIOUS
<1>2. 1..Len(owner) \subseteq 1..Len(owner') /\ 0..Len(owner) \subseteq 0..Len(owner')
  BY <1>1
<1>3. Messages \subseteq Messages' /\ Known \subseteq Known'
  <2>1. ASSUME NEW m \in Messages
        PROVE  m \in Messages'
    <3> DEFINE I == 1..Len(owner)
               J == 0..Len(owner)
    <3>1. m \in [role : {"user", "assistant", "tool"}, id : I, turn : 1..MaxTurns,
                 calls : 0..MaxCalls, of : J, nr : 0..MaxCalls]
      BY DEF Messages
    <3>2. I \subseteq I' /\ J \subseteq J'
      BY <1>2
    <3> HIDE DEF I, J
    <3>3. m \in [role : {"user", "assistant", "tool"}, id : I', turn : 1..MaxTurns,
                 calls : 0..MaxCalls, of : J', nr : 0..MaxCalls]
      BY <3>1, <3>2
    <3> QED  BY <3>3 DEF Messages, I, J
  <2> QED  BY <1>2, <2>1 DEF Known
<1>4. Histories \subseteq Histories'
  <2>1. Seq(Messages) \subseteq Seq(Messages')
    BY <1>3
  <2> QED  BY <2>1 DEF Histories
<1>5. SUBSET Known \subseteq SUBSET Known' /\ SUBSET (0..Len(owner)) \subseteq SUBSET (0..Len(owner'))
  BY <1>2 DEF Known
<1>6. Points \subseteq Points'
  BY <1>4, <1>5 DEF Points
<1>7. Works \subseteq Works'
  BY <1>4, <1>5 DEF Works
<1>8. Sums \subseteq Sums'
  BY <1>4, <1>5 DEF Sums
<1>9. Rolls \subseteq Rolls'
  BY <1>4 DEF Rolls
<1>10. Seq(Rolls) \subseteq Seq(Rolls')
  BY <1>9
<1>11. Fates \subseteq Fates'
  BY <1>5 DEF Fates
<1>12. Jobs \subseteq Jobs'
  BY <1>2 DEF Jobs
<1> QED  BY <1>1, <1>3, <1>4, <1>6, <1>7, <1>8, <1>9, <1>10, <1>11, <1>12

\* A mark changes nothing else.
LEMMA MarkIs ==
    ASSUME fate \in Fates, NEW S, S \subseteq {"overlap", "replaced"}, Mark(S)
    PROVE  /\ fate' \in Fates /\ fate'.marks = fate.marks \cup S
           /\ fate'.aborted = fate.aborted /\ fate'.undone = fate.undone /\ fate'.noted = fate.noted
           /\ fate'.compressed = fate.compressed /\ fate'.cut = fate.cut
BY DEF Fates, Mark

\* The marks that a write may set.
LEMMA OverlapIs == Overlap \subseteq {"overlap", "replaced"} /\ Crossing \subseteq {"overlap", "replaced"}
BY DEF Overlap, Crossing

\* A new message.
LEMMA MessageType ==
    ASSUME owner \in Seq(1..MaxTurns), turn \in 1..MaxTurns, owner' = Append(owner, turn),
           NEW r \in {"user", "assistant", "tool"}, NEW k \in 0..MaxCalls,
           NEW a \in 0..(Len(owner) + 1), NEW i \in 0..MaxCalls
    PROVE  Message(r, NextId, k, a, i) \in Messages'
<1>1. Len(owner') = Len(owner) + 1 /\ Len(owner) \in Nat
  OBVIOUS
<1>2. NextId \in 1..Len(owner') /\ a \in 0..Len(owner')
  BY <1>1 DEF NextId
<1> HIDE DEF NextId
<1> QED  BY <1>2 DEF Message, Messages

\* What an added message changes.
LEMMA AddData ==
    ASSUME Data, turn \in 1..MaxTurns, NEW m, Add(m), m \in Messages'
    PROVE  /\ owner' \in Seq(1..MaxTurns) /\ history' \in Histories' /\ summary' \in SUBSET Known'
           /\ point \in Points' /\ work \in Works' /\ sum \in Sums' /\ rolling \in Seq(Rolls')
           /\ fate' \in Fates' /\ job \in Jobs' /\ mine \in Histories' /\ messages \in Histories'
           /\ Append(mine, m) \in Histories' /\ Append(messages, m) \in Histories'
<1>1. owner' = Append(owner, turn) /\ history' = Append(history, m) /\ Mark(Overlap) /\ summary' = summary
  BY DEF Add
<1>2. /\ owner' \in Seq(1..MaxTurns) /\ Known \subseteq Known'
      /\ Histories \subseteq Histories' /\ Points \subseteq Points'
      /\ Works \subseteq Works' /\ Sums \subseteq Sums'
      /\ Seq(Rolls) \subseteq Seq(Rolls') /\ Fates \subseteq Fates' /\ Jobs \subseteq Jobs'
  BY <1>1, MoreOwner DEF Data
<1>3. fate' \in Fates
  BY <1>1, MarkIs, OverlapIs DEF Data
<1>4. /\ point \in Points' /\ work \in Works' /\ sum \in Sums' /\ rolling \in Seq(Rolls')
      /\ fate' \in Fates' /\ job \in Jobs'
  BY <1>2, <1>3 DEF Data
<1>5. mine \in Histories' /\ messages \in Histories' /\ history \in Histories'
  BY <1>2 DEF Data
<1>6. Append(mine, m) \in Histories' /\ Append(messages, m) \in Histories' /\ Append(history, m) \in Histories'
  BY <1>5 DEF Histories
<1>7. summary' \in SUBSET Known'
  BY <1>1, <1>2 DEF Data
<1> QED  BY <1>1, <1>2, <1>4, <1>5, <1>6, <1>7

\* Leave sets everything that it changes to an initial value.
LEMMA LeaveData ==
    ASSUME Leave
    PROVE  point' \in Points' /\ work' \in Works' /\ job' \in Jobs' /\ mine' \in Histories' /\ messages' \in Histories'
<1>1. <<>> \in Histories' /\ {} \in SUBSET Known'
  BY DEF Histories
<1>2. point' \in Points'
  BY <1>1 DEF Leave, NoPoint, Points
<1>3. work' \in Works'
  BY <1>1, NoWorkIs DEF Leave, Works, WorkFor
<1>4. job' \in Jobs'
  BY TurnHistoryAssumption DEF Leave, NoJob, Jobs
<1> QED  BY <1>1, <1>2, <1>3, <1>4 DEF Leave

\* The messages in the beginning.
LEMMA DataInit == Init => Data
<1> SUFFICES ASSUME Init
             PROVE  Data
  OBVIOUS
<1>1. <<>> \in Histories /\ {} \in SUBSET Known /\ <<>> \in Seq(Rolls) /\ <<>> \in Seq(1..MaxTurns)
  BY DEF Histories
<1>2. point \in Points
  BY <1>1 DEF Init, NoPoint, Points
<1>3. work \in Works
  BY <1>1, NoWorkIs DEF Init, Works, WorkFor
<1>4. job \in Jobs
  BY TurnHistoryAssumption DEF Init, NoJob, Jobs
<1>5. sum \in Sums
  BY <1>1 DEF Init, Off, Sums
<1>6. fate \in Fates
  BY <1>1 DEF Init, Fates
<1> QED  BY <1>1, <1>2, <1>3, <1>4, <1>5, <1>6 DEF Init, Data

\* Parts of a history are histories.
LEMMA PartType ==
    ASSUME NEW M, NEW g \in Seq(M), NEW h, PartOf(h, g)
    PROVE  h \in Seq(M)
<1>1. h \in Seq(Msg)
  BY DEF PartOf
<1>2. PICK d \in Nat : Len(h) + d <= Len(g) /\ \A i \in 1..Len(h) : h[i] = g[i + d]
  BY DEF PartOf
<1>3. \A i \in 1..Len(h) : h[i] \in M
  <2>1. \A i \in 1..Len(h) : i + d \in 1..Len(g)
    BY <1>1, <1>2
  <2>2. \A j \in 1..Len(g) : g[j] \in M
    OBVIOUS
  <2> QED  BY <1>2, <2>1, <2>2
<1>4. Len(h) \in Nat /\ h = [i \in 1..Len(h) |-> h[i]]
  BY <1>1
<1> QED  BY <1>3, <1>4

\* A history is a sequence of messages, whoever wrote them.
LEMMA HistoriesAre ==
    ASSUME MaxTurns \in Nat
    PROVE  Histories \subseteq Seq(Msg)
<1>1. Messages \subseteq Msg
  <2>1. ASSUME NEW m \in Messages
        PROVE  m \in Msg
    <3> DEFINE I == 1..Len(owner)
               J == 0..Len(owner)
               T == 1..MaxTurns
               C == 0..MaxCalls
    <3>1. m \in [role : {"user", "assistant", "tool"}, id : I, turn : T, calls : C, of : J, nr : C]
      BY DEF Messages
    <3>2. I \subseteq Nat /\ J \subseteq Nat /\ T \subseteq Nat /\ C \subseteq Nat
      OBVIOUS
    <3> HIDE DEF I, J, T, C
    <3> QED  BY <3>1, <3>2 DEF Msg
  <2> QED  BY <2>1
<1>2. Seq(Messages) \subseteq Seq(Msg)
  BY <1>1
<1> QED  BY <1>2 DEF Histories

\* The numbers of the messages of a history.
LEMMA IdsKnown ==
    ASSUME NEW h \in Histories
    PROVE  Ids(h) \subseteq Known
<1>1. \A i \in DOMAIN h : h[i] \in Messages
  BY DEF Histories
<1>2. \A m \in Messages : m.id \in Known
  BY DEF Messages, Known
<1> QED  BY <1>1, <1>2 DEF Ids

\* A step that writes no new message.
LEMMA DataIfOwnerSame ==
    ASSUME Data, owner' = owner, history' \in Histories, mine' \in Histories, messages' \in Histories,
           summary' \in SUBSET Known, point' \in Points, work' \in Works, sum' \in Sums,
           rolling' \in Seq(Rolls), Len(rolling') <= 1, fate' \in Fates, job' \in Jobs
    PROVE  Data'
BY SameOwner, Zenon DEF Data

\* A record with some fields replaced has the type of the record.
LEMMA FateTypes ==
    ASSUME fate \in Fates, NEW A \in SUBSET (1..MaxTurns), NEW U \in SUBSET (1..MaxTurns),
           NEW N \in SUBSET Known, NEW c \in BOOLEAN, NEW C \in SUBSET (0..Len(owner)),
           NEW S \in SUBSET {"overlap", "replaced"}
    PROVE  /\ [fate EXCEPT !.compressed = c] \in Fates
           /\ [fate EXCEPT !.noted = N, !.compressed = c, !.marks = S] \in Fates
           /\ [fate EXCEPT !.aborted = A, !.undone = U, !.marks = S] \in Fates
           /\ [fate EXCEPT !.aborted = A, !.undone = U, !.compressed = c, !.cut = C, !.marks = S] \in Fates
BY DEF Fates

\* The fields of the history variable fate,
LEMMA FateFields ==
    ASSUME fate \in Fates
    PROVE  /\ fate.aborted \in SUBSET (1..MaxTurns) /\ fate.undone \in SUBSET (1..MaxTurns)
           /\ fate.noted \in SUBSET Known /\ fate.compressed \in BOOLEAN
           /\ fate.cut \in SUBSET (0..Len(owner)) /\ fate.marks \in SUBSET {"overlap", "replaced"}
BY DEF Fates

\* and the values of the summarizer.
LEMMA SumTypes ==
    ASSUME sum \in Sums, NEW p \in {"off", "snap", "read", "set", "cut"}, NEW h \in Histories
    PROVE  /\ [sum EXCEPT !.pc = p] \in Sums
           /\ [sum EXCEPT !.pc = p, !.history = h] \in Sums
           /\ [sum EXCEPT !.pc = p, !.covered = {}] \in Sums
           /\ Off \in Sums /\ sum.history \in Histories /\ sum.covered \in SUBSET Known /\ sum.keep \in Nat
<1>1. <<>> \in Histories
  BY DEF Histories
<1> QED  BY <1>1 DEF Sums, Off


\* The operators on histories return histories.
LEMMA HistoryOperators ==
    ASSUME NEW h \in Histories
    PROVE  /\ Half(h) \in Histories /\ Sanitize(h) \in Histories
           /\ \A k \in Nat : LastOf(h, k) \in Histories
           /\ \A b \in 0..Len(h) : SubSeq(h, 1, b) \in Histories
           /\ \A p \in Histories : SubSeq(h, 1, Len(h) - MatchingTail(h, p)) \in Histories
           /\ \A t \in Int : SafeBoundary(h, t) \in 0..Len(h)
           /\ Len(h) \in Nat
<1>0. MaxTurns \in Nat
  BY TurnHistoryAssumption
<1>1. h \in Seq(Msg) /\ h \in Seq(Messages) /\ Len(h) \in Nat
  <2>1. h \in Seq(Msg)
    BY <1>0, HistoriesAre
  <2> QED  BY <2>1 DEF Histories
<1>2. Half(h) \in Histories
  <2>1. PartOf(Half(h), h)
    BY <1>1, HalfIsPart
  <2> QED  BY <1>1, <2>1, PartType DEF Histories
<1>3. Sanitize(h) \in Histories
  BY <1>1, SanitizeType DEF Histories
<1>4. \A k \in Nat : LastOf(h, k) \in Histories
  <2>1. ASSUME NEW k \in Nat
        PROVE  LastOf(h, k) \in Histories
    <3>1. PartOf(LastOf(h, k), h)
      BY <1>1, LastOfIs
    <3> QED  BY <1>1, <3>1, PartType DEF Histories
  <2> QED  BY <2>1
<1>5. \A b \in 0..Len(h) : SubSeq(h, 1, b) \in Histories
  BY <1>1 DEF Histories
<1>6. \A p \in Histories : SubSeq(h, 1, Len(h) - MatchingTail(h, p)) \in Histories
  <2>1. ASSUME NEW p \in Histories
        PROVE  SubSeq(h, 1, Len(h) - MatchingTail(h, p)) \in Histories
    <3>1. p \in Seq(Msg)
      BY <1>0, HistoriesAre
    <3>2. MatchingTail(h, p) \in 0..Len(h)
      BY <1>1, <3>1, MatchingTailIs
    <3>3. Len(h) - MatchingTail(h, p) \in 0..Len(h)
      BY <1>1, <3>2
    <3> QED  BY <1>5, <3>3
  <2> QED  BY <2>1
<1>7. \A t \in Int : SafeBoundary(h, t) \in 0..Len(h)
  BY <1>1, SafeBoundaryIn
<1> QED  BY <1>1, <1>2, <1>3, <1>4, <1>5, <1>6, <1>7

\* A step that writes a message,
LEMMA DataIfAdded ==
    ASSUME Data, turn \in 1..MaxTurns, NEW m, Add(m), m \in Messages',
           sum' \in Sums', rolling' = rolling, job' \in Jobs', work' \in Works', point' \in Points',
           mine' \in Histories', messages' \in Histories'
    PROVE  Data'
BY AddData DEF Data

\* one that records it too,
LEMMA DataIfPersisted ==
    ASSUME Data, turn \in 1..MaxTurns, NEW m, Persist(m), m \in Messages',
           UNCHANGED <<sum, rolling, work, point>>, job' \in Jobs'
    PROVE  Data'
<1>1. Add(m) /\ mine' = Append(mine, m) /\ messages' = Append(messages, m)
  BY DEF Persist
<1>2. sum' \in Sums' /\ work' \in Works' /\ point' \in Points' /\ mine' \in Histories' /\ messages' \in Histories'
  BY <1>1, AddData
<1> QED  BY <1>1, <1>2, DataIfAdded

\* The messages of a turn.
LEMMA NewMessages ==
    ASSUME Data, turn \in 1..MaxTurns, owner' = Append(owner, turn)
    PROVE  /\ User \in Messages'
           /\ \A k \in 0..MaxCalls : Assistant(k) \in Messages'
           /\ job.nr \in 0..MaxCalls /\ ToolResult(job.of, job.nr) \in Messages'
<1>0. MaxCalls \in Nat /\ owner \in Seq(1..MaxTurns) /\ Len(owner) \in Nat
  BY TurnHistoryAssumption DEF Data
<1>1. 0 \in 0..MaxCalls /\ 0 \in 0..(Len(owner) + 1)
  BY <1>0
<1>2. job.nr \in 0..MaxCalls /\ job.of \in 0..(Len(owner) + 1)
  <2>1. job.nr \in 0..MaxCalls /\ job.of \in 0..Len(owner)
    BY DEF Data, Jobs
  <2> QED  BY <1>0, <2>1
<1>3. User \in Messages'
  BY <1>0, <1>1, MessageType DEF User
<1>4. \A k \in 0..MaxCalls : Assistant(k) \in Messages'
  BY <1>0, <1>1, MessageType DEF Assistant
<1>5. ToolResult(job.of, job.nr) \in Messages'
  BY <1>0, <1>1, <1>2, MessageType DEF ToolResult
<1> QED  BY <1>2, <1>3, <1>4, <1>5

\* and one that writes the result of a call.
LEMMA DataIfResult ==
    ASSUME Data, Places, pc \in {"tool", "skip"}, turn \in 1..MaxTurns,
           Persist(ToolResult(job.of, job.nr)), NEW q, NextJob(q),
           UNCHANGED <<sum, rolling, work, point>>
    PROVE  Data'
<1>0. MaxCalls \in Nat /\ owner \in Seq(1..MaxTurns) /\ job \in Jobs
  BY TurnHistoryAssumption DEF Data
<1>1. owner' = Append(owner, turn)
  BY DEF Persist, Add
<1>2. ToolResult(job.of, job.nr) \in Messages'
  BY <1>1, NewMessages
<1>3. Jobs \subseteq Jobs'
  BY <1>0, <1>1, MoreOwner
<1>4. job' \in Jobs
  <2>1. CASE /\ job.nr < job.total
             /\ job' = [of |-> job.of, nr |-> job.nr + 1, total |-> job.total]
    <3>1. job.of \in 0..Len(owner) /\ job.nr \in 0..MaxCalls /\ job.total \in 0..MaxCalls
      BY <1>0 DEF Jobs
    <3>2. job.nr + 1 \in 0..MaxCalls
      BY <1>0, <2>1, <3>1
    <3> QED  BY <2>1, <3>1, <3>2 DEF Jobs
  <2>2. CASE job' = NoJob
    BY <1>0, <2>2 DEF NoJob, Jobs
  <2> QED  BY <2>1, <2>2, NextJobIs
<1> QED  BY <1>2, <1>3, <1>4, DataIfPersisted

\* Every step leaves messages that are known.
LEMMA DataStep ==
    ASSUME Data, Counts, Limits, Places, [Next]_vars
    PROVE  Data'
<1>0. /\ history \in Histories /\ mine \in Histories /\ messages \in Histories
      /\ summary \in SUBSET Known /\ point \in Points /\ work \in Works /\ sum \in Sums
      /\ rolling \in Seq(Rolls) /\ Len(rolling) <= 1
      /\ fate \in Fates /\ job \in Jobs /\ owner \in Seq(1..MaxTurns)
  BY DEF Data
<1>a. MaxTurns \in Nat /\ MaxCalls \in Nat /\ (pc # "idle" => turn \in 1..MaxTurns)
  BY TurnHistoryAssumption DEF Limits
<1>b. Overlap \in SUBSET {"overlap", "replaced"} /\ Crossing \in SUBSET {"overlap", "replaced"}
  BY OverlapIs
<1>1. CASE UNCHANGED vars
  BY <1>1, <1>0, DataIfOwnerSame DEF vars, session, turnVars, ghosts
<1>2. CASE Begin
  <2>1. fate' = [fate EXCEPT !.compressed = FALSE]
    BY <1>2 DEF Begin
  <2>2. fate' \in Fates
    BY <2>1, <1>0 DEF Fates
  <2> QED  BY <1>2, <1>0, <2>2, DataIfOwnerSame DEF Begin, session
<1>3. CASE Capture
  <2>1. point' \in Points
    BY <1>3, <1>0 DEF Capture, Points
  <2>2. messages' \in Histories
    BY <1>3, <1>0, HistoryOperators DEF Capture
  <2>3. work' \in Works
    <3>1. work' = work \/ work' = WorkFor("save")
      BY <1>3, NoWorkIs, Zenon DEF Capture
    <3>2. <<>> \in Histories /\ {} \in SUBSET Known
      BY DEF Histories
    <3> QED  BY <1>0, <3>1, <3>2 DEF WorkFor, Works
  <2> QED  BY <1>3, <1>0, <2>1, <2>2, <2>3, DataIfOwnerSame DEF Capture, session, ghosts
<1>4. CASE Save
  <2>1. Persist(User) /\ turn \in 1..MaxTurns /\ UNCHANGED <<sum, rolling, work, point, job>>
    BY <1>4, <1>a DEF Save
  <2>2. owner' = Append(owner, turn)
    BY <2>1 DEF Persist, Add
  <2>3. User \in Messages' /\ job' \in Jobs'
    BY <1>0, <2>1, <2>2, NewMessages, MoreOwner
  <2> QED  BY <2>1, <2>3, DataIfPersisted
<1>5. CASE Compress
  <2>1. Half(history) \in Histories /\ Ids(history) \in SUBSET Known
    BY <1>0, HistoryOperators, IdsKnown
  <2>2. Ids(history) \ Ids(Half(history)) \in SUBSET Known
    BY <2>1
  <2>3. \/ work' = work
        \/ work' = [work EXCEPT !.kept = Half(history), !.summary = summary,
                                !.dropped = Ids(history) \ Ids(Half(history))]
    BY <1>5 DEF Compress
  <2>4. work' \in Works
    BY <1>0, <2>1, <2>2, <2>3 DEF Works
  <2> QED  BY <1>5, <1>0, <2>4, DataIfOwnerSame DEF Compress, session, ghosts
<1>6. CASE Note
  <2>1. summary' \in SUBSET Known
    BY <1>6, <1>0 DEF Note, Works
  <2>2. fate' \in Fates
    BY <1>6, <1>0, <1>b, MarkIs DEF Note
  <2> QED  BY <1>6, <1>0, <2>1, <2>2, DataIfOwnerSame DEF Note
<1>7. CASE Cut
  <2>1. work.kept \in Histories /\ work.dropped \in SUBSET Known
    BY <1>0 DEF Works
  <2>2. fate.noted \cup work.dropped \in SUBSET Known /\ fate.marks \cup Overlap \in SUBSET {"overlap", "replaced"}
    BY <1>0, <1>b, <2>1, FateFields
  <2>3. fate' = [fate EXCEPT !.noted = fate.noted \cup work.dropped, !.compressed = TRUE,
                             !.marks = fate.marks \cup Overlap]
    BY <1>7 DEF Cut
  <2>4. fate' \in Fates
    BY <1>0, <2>2, <2>3, FateTypes, FateFields
  <2> QED  BY <1>7, <1>0, <2>1, <2>4, DataIfOwnerSame DEF Cut
<1>8. CASE Refresh
  <2>1. SubSeq(history, 1, Len(history) - MatchingTail(history, mine)) \in Histories
    BY <1>0, HistoryOperators
  <2>2. point' = [history |-> SubSeq(history, 1, Len(history) - MatchingTail(history, mine)),
                  summary |-> summary]
    BY <1>8 DEF Refresh
  <2>3. point' \in Points
    BY <1>0, <2>1, <2>2 DEF Points
  <2> QED  BY <1>8, <1>0, <2>3, DataIfOwnerSame DEF Refresh, session, ghosts
<1>9. CASE Rebuild
  <2>1. messages' \in Histories
    BY <1>9, <1>0, HistoryOperators DEF Rebuild
  <2>2. work' \in Works
    <3>1. <<>> \in Histories /\ {} \in SUBSET Known
      BY DEF Histories
    <3>2. work' = WorkFor("none")
      BY <1>9, NoWorkIs DEF Rebuild
    <3> QED  BY <3>1, <3>2 DEF WorkFor, Works
  <2> QED  BY <1>9, <1>0, <2>1, <2>2, DataIfOwnerSame DEF Rebuild, session, ghosts
<1>10. CASE Loop
  BY <1>10, <1>0, DataIfOwnerSame DEF Loop, session, ghosts
<1>11. CASE Inject
  <2>1. Persist(User) /\ turn \in 1..MaxTurns /\ UNCHANGED <<sum, rolling, work, point, job>>
    BY <1>11, <1>a DEF Inject
  <2>2. owner' = Append(owner, turn)
    BY <2>1 DEF Persist, Add
  <2>3. User \in Messages' /\ job' \in Jobs'
    BY <1>0, <2>1, <2>2, NewMessages, MoreOwner
  <2> QED  BY <2>1, <2>3, DataIfPersisted
<1>12. CASE Ask
  BY <1>12, <1>0, DataIfOwnerSame DEF Ask, session, ghosts
<1>13. CASE Answer
  BY <1>13, <1>0, DataIfOwnerSame DEF Answer, session, ghosts
<1>14. ASSUME NEW k \in 1..MaxCalls, CallTools(k)
       PROVE  Data'
  <2>1. Persist(Assistant(k)) /\ turn \in 1..MaxTurns /\ UNCHANGED <<sum, rolling, work, point>>
    BY <1>14, <1>a DEF CallTools
  <2>2. owner' = Append(owner, turn)
    BY <2>1 DEF Persist, Add
  <2>3. Assistant(k) \in Messages'
    BY <1>a, <2>1, <2>2, NewMessages
  <2>4. job' \in Jobs'
    <3>1. job' = [of |-> NextId, nr |-> 1, total |-> k]
      BY <1>14 DEF CallTools
    <3>2. NextId \in 0..Len(owner') /\ 1 \in 0..MaxCalls /\ k \in 0..MaxCalls
      BY <1>0, <1>a, <2>1, <2>2, MoreOwner DEF NextId
    <3> QED  BY <3>1, <3>2 DEF Jobs
  <2> QED  BY <2>1, <2>3, <2>4, DataIfPersisted
<1>15. CASE Retry
  <2>1. work' \in Works
    <3>1. work' = work \/ work' = WorkFor("llm")
      BY <1>15, NoWorkIs, Zenon DEF Retry
    <3>2. <<>> \in Histories /\ {} \in SUBSET Known
      BY DEF Histories
    <3> QED  BY <1>0, <3>1, <3>2 DEF WorkFor, Works
  <2> QED  BY <1>15, <1>0, <2>1, DataIfOwnerSame DEF Retry, session, ghosts
<1>16. CASE Fail
  <2>1. Leave /\ UNCHANGED <<history, summary, sum, rolling, owner, fate>>
    BY <1>16 DEF Fail, session, ghosts
  <2>2. point' \in Points /\ work' \in Works /\ job' \in Jobs /\ mine' \in Histories /\ messages' \in Histories
    BY <2>1, LeaveData, SameOwner
  <2> QED  BY <2>1, <2>2, <1>0, DataIfOwnerSame
<1>17. CASE Abort
  BY <1>17, <1>0, DataIfOwnerSame DEF Abort, session, ghosts
<1>18. CASE RunTool
  <2>1. /\ pc \in {"tool", "skip"} /\ turn \in 1..MaxTurns /\ UNCHANGED <<sum, rolling, work, point>>
        /\ Persist(ToolResult(job.of, job.nr)) /\ NextJob(IF pending' > 0 \/ graceful = "asked" THEN "skip" ELSE "tool")
    BY <1>18, <1>a DEF RunTool
  <2> QED  BY <2>1, DataIfResult
<1>19. CASE DenyTool
  <2>1. /\ pc \in {"tool", "skip"} /\ turn \in 1..MaxTurns /\ UNCHANGED <<sum, rolling, work, point>>
        /\ Persist(ToolResult(job.of, job.nr)) /\ NextJob("tool")
    BY <1>19, <1>a DEF DenyTool
  <2> QED  BY <2>1, DataIfResult
<1>20. CASE SkipTool
  <2>1. /\ pc \in {"tool", "skip"} /\ turn \in 1..MaxTurns /\ UNCHANGED <<sum, rolling, work, point>>
        /\ Persist(ToolResult(job.of, job.nr)) /\ NextJob("skip")
    BY <1>20, <1>a DEF SkipTool
  <2> QED  BY <2>1, DataIfResult
<1>21. CASE After
  BY <1>21, <1>0, DataIfOwnerSame DEF After, session, ghosts
<1>22. CASE Finish
  <2>1. Add(Assistant(0)) /\ Leave /\ turn \in 1..MaxTurns /\ rolling' = rolling
    BY <1>22, <1>a DEF Finish
  <2>2. owner' = Append(owner, turn)
    BY <2>1 DEF Add
  <2>3. Assistant(0) \in Messages'
    BY <1>a, <2>1, <2>2, NewMessages
  <2>4. sum' \in Sums'
    <3>1. sum' = sum \/ sum' = [sum EXCEPT !.pc = "snap"]
      BY <1>22 DEF Finish
    <3>2. sum' \in Sums
      BY <1>0, <3>1 DEF Sums
    <3> QED  BY <1>0, <2>1, <2>2, <3>2, MoreOwner
  <2> QED  BY <2>1, <2>3, <2>4, LeaveData, DataIfAdded
<1>23. CASE HookAbort
  BY <1>23, <1>0, DataIfOwnerSame DEF HookAbort, session, ghosts
<1>24. CASE Restore
  <2>1. point.history \in Histories /\ turn \in 1..MaxTurns
    BY <1>24, <1>0, <1>a DEF Points, Restore
  <2> DEFINE A == IF fate.compressed THEN fate.aborted ELSE fate.aborted \cup {turn}
             U == fate.undone \cup {turn}
             S == fate.marks \cup Overlap
  <2>2. A \in SUBSET (1..MaxTurns) /\ U \in SUBSET (1..MaxTurns) /\ S \in SUBSET {"overlap", "replaced"}
    BY <1>0, <1>b, <2>1, FateFields
  <2>3. fate' = [fate EXCEPT !.aborted = A, !.undone = U, !.marks = S]
    BY <1>24 DEF Restore
  <2> HIDE DEF A, U, S
  <2>4. fate' \in Fates
    BY <1>0, <2>2, <2>3, FateTypes, FateFields
  <2> QED  BY <1>24, <1>0, <2>1, <2>4, DataIfOwnerSame DEF Restore
<1>25. CASE RestoreSummary
  <2>1. Leave /\ summary' = point.summary /\ Mark(Overlap) /\ UNCHANGED <<history, sum, rolling, owner>>
    BY <1>25 DEF RestoreSummary
  <2>2. point' \in Points /\ work' \in Works /\ job' \in Jobs /\ mine' \in Histories /\ messages' \in Histories
    BY <2>1, LeaveData, SameOwner
  <2>3. summary' \in SUBSET Known
    BY <2>1, <1>0 DEF Points
  <2>4. fate' \in Fates
    BY <2>1, <1>0, <1>b, MarkIs
  <2> QED  BY <2>1, <2>2, <2>3, <2>4, <1>0, DataIfOwnerSame
<1>26. CASE Steer
  BY <1>26, <1>0, DataIfOwnerSame DEF Steer, session, turnVars, ghosts
<1>27. CASE InterruptGraceful
  BY <1>27, <1>0, DataIfOwnerSame DEF InterruptGraceful, session, turnVars, ghosts
<1>28. CASE InterruptHard
  BY <1>28, <1>0, DataIfOwnerSame DEF InterruptHard, session, turnVars, ghosts
<1>29. CASE Rollback
  <2>1. turn \in 1..MaxTurns /\ base \in Nat /\ base < Len(history)
    BY <1>29, <1>a DEF Rollback, Counts
  <2>2. [history |-> history, base |-> base, turn |-> turn] \in Rolls
    BY <1>0, <2>1 DEF Rolls
  <2>3. rolling' = <<[history |-> history, base |-> base, turn |-> turn]>>
    BY <1>29 DEF Rollback
  <2>4. rolling' \in Seq(Rolls) /\ Len(rolling') <= 1
    BY <2>2, <2>3
  <2> QED  BY <1>29, <1>0, <2>4, DataIfOwnerSame DEF Rollback, session, turnVars, ghosts
<1>30. CASE RollbackWrite
  <2>1. rolling[1] \in Rolls
    BY <1>30, <1>0 DEF RollbackWrite
  <2>2. /\ rolling[1].history \in Histories /\ rolling[1].turn \in 1..MaxTurns
        /\ rolling[1].base \in 0..Len(rolling[1].history)
    <3>1. /\ rolling[1].history \in Histories /\ rolling[1].turn \in 1..MaxTurns
          /\ rolling[1].base \in Nat /\ rolling[1].base <= Len(rolling[1].history)
      BY <2>1 DEF Rolls
    <3> QED  BY <3>1, HistoryOperators
  <2>3. SubSeq(rolling[1].history, 1, rolling[1].base) \in Histories
    BY <2>2, HistoryOperators
  <2>4. history' \in Histories /\ rolling' = <<>> /\ <<>> \in Seq(Rolls) /\ Len(<<>>) <= 1
    BY <1>30, <2>3 DEF RollbackWrite
  <2> DEFINE A == fate.aborted \ {rolling[1].turn}
             U == fate.undone \cup {rolling[1].turn}
             C == fate.cut \cup {job.of}
             S == fate.marks \cup IF sum.pc \in {"read", "set", "cut"} THEN {"overlap"} ELSE {}
  <2>5. fate' = [fate EXCEPT !.aborted = A, !.undone = U, !.compressed = TRUE, !.cut = C, !.marks = S]
    BY <1>30 DEF RollbackWrite
  <2>6. job.of \in 0..Len(owner)
    BY <1>0 DEF Jobs
  <2>7. A \in SUBSET (1..MaxTurns) /\ U \in SUBSET (1..MaxTurns)
    BY <1>0, <2>2, FateFields
  <2>8. C \in SUBSET (0..Len(owner)) /\ S \in SUBSET {"overlap", "replaced"}
    BY <1>0, <2>6, FateFields
  <2> HIDE DEF A, U, C, S
  <2>9. fate' \in Fates
    BY <1>0, <2>5, <2>7, <2>8, FateTypes
  <2> QED  BY <1>30, <1>0, <2>4, <2>9, DataIfOwnerSame DEF RollbackWrite, turnVars
<1>31. CASE Snapshot
  <2>1. sum' = [sum EXCEPT !.pc = "read", !.history = history]
    BY <1>31 DEF Snapshot
  <2>2. sum' \in Sums
    BY <2>1, <1>0, SumTypes
  <2> QED  BY <1>31, <1>0, <2>2, DataIfOwnerSame DEF Snapshot, session, turnVars, ghosts
<1>32. CASE Decide
  <2> DEFINE h == sum.history
             cut == SafeBoundary(h, Len(h) - KeepRecent)
             old == SubSeq(h, 1, cut)
             covered == Ids(old) \cup (IF Spoken(old) > MaxBatch THEN {} ELSE summary)
             marks == IF Spoken(old) > MaxBatch /\ summary # {} THEN {"replaced"} ELSE {}
  <2>1. \/ sum' = Off /\ UNCHANGED fate
        \/ sum' = [pc |-> "set", history |-> <<>>, keep |-> Len(h) - cut, covered |-> covered] /\ Mark(marks)
    BY <1>32 DEF Decide
  <2>2. UNCHANGED <<session, turnVars, owner, rolling>>
    BY <1>32 DEF Decide
  <2>3. h \in Histories
    BY <1>0, SumTypes
  <2>4. marks \in SUBSET {"overlap", "replaced"}
    OBVIOUS
  <2>5. Len(h) \in Nat /\ KeepRecent \in Nat
    BY <2>3, HistoryOperators, TurnHistoryAssumption
  <2>6. cut \in 0..Len(h)
    <3>1. Len(h) - KeepRecent \in Int
      BY <2>5
    <3> QED  BY <2>3, <3>1, HistoryOperators
  <2>7. old \in Histories
    BY <2>3, <2>6, HistoryOperators
  <2>8. covered \in SUBSET Known
    BY <1>0, <2>7, IdsKnown
  <2> HIDE DEF h, cut, old, covered, marks
  <2>9. sum' \in Sums
    <3>1. Len(h) - cut \in Nat /\ <<>> \in Histories
      BY <2>5, <2>6 DEF Histories
    <3>2. \A k \in Nat : \A c \in SUBSET Known :
             [pc |-> "set", history |-> <<>>, keep |-> k, covered |-> c] \in Sums
      BY <3>1 DEF Sums
    <3>3. [pc |-> "set", history |-> <<>>, keep |-> Len(h) - cut, covered |-> covered] \in Sums
      BY <2>8, <3>1, <3>2
    <3>4. Off \in Sums
      BY <1>0, SumTypes
    <3> QED  BY <2>1, <3>3, <3>4, Zenon
  <2>10. fate' \in Fates
    BY <1>0, <2>1, <2>4, MarkIs
  <2> QED  BY <1>0, <2>2, <2>9, <2>10, DataIfOwnerSame DEF session, turnVars
<1>33. CASE StoreSummary
  <2>1. summary' \in SUBSET Known
    BY <1>33, <1>0, SumTypes DEF StoreSummary
  <2>2. sum' \in Sums
    BY <1>33, <1>0, SumTypes DEF StoreSummary, Histories
  <2>3. fate' \in Fates
    BY <1>33, <1>0, <1>b, MarkIs DEF StoreSummary
  <2> QED  BY <1>33, <1>0, <2>1, <2>2, <2>3, DataIfOwnerSame DEF StoreSummary, turnVars
<1>34. CASE TruncateRest
  <2>1. sum.keep \in Nat /\ Off \in Sums
    BY <1>0, SumTypes
  <2>2. history' \in Histories
    BY <1>34, <1>0, <2>1, HistoryOperators DEF TruncateRest
  <2>3. fate' \in Fates
    BY <1>34, <1>0, <1>b, MarkIs DEF TruncateRest
  <2> QED  BY <1>34, <1>0, <2>1, <2>2, <2>3, DataIfOwnerSame DEF TruncateRest, turnVars
<1> QED
  BY <1>1, <1>2, <1>3, <1>4, <1>5, <1>6, <1>7, <1>8, <1>9, <1>10, <1>11, <1>12, <1>13, <1>14,
     <1>15, <1>16, <1>17, <1>18, <1>19, <1>20, <1>21, <1>22, <1>23, <1>24, <1>25, <1>26, <1>27,
     <1>28, <1>29, <1>30, <1>31, <1>32, <1>33, <1>34 DEF Next, RunTurn, Interfere, Summarize

-------------------------------------------------------------------------------
(* Aborted turns *)

\* h has no message of a turn of S, and none of a turn after t.
Good(h, S, t) == \A i \in 1..Len(h) : h[i].turn \notin S /\ h[i].turn <= t

\* The youngest turn that may have written something.
Young == IF pc = "capture" THEN turn - 1 ELSE turn

AbortInv ==
    /\ Good(history, fate.aborted, Young)
    /\ Good(point.history, fate.aborted, Young)
    /\ Good(work.kept, fate.aborted, Young)
    /\ \A r \in 1..Len(rolling) :
          /\ Good(rolling[r].history, fate.aborted \ {rolling[r].turn}, rolling[r].turn)
          /\ rolling[r].turn <= Young
    /\ \A t \in fate.aborted : t <= Young
    /\ pc \notin {"idle", "restoreSummary"} => turn \notin fate.aborted
    /\ pc = "refresh" => fate.compressed
    /\ pc \notin {"idle", "capture"} /\ ~fate.compressed => Good(point.history, {turn}, turn)

\* A part of a clean history is clean,
LEMMA GoodPart ==
    ASSUME NEW h, NEW g \in Seq(Msg), NEW S, NEW t, Good(g, S, t), PartOf(h, g)
    PROVE  Good(h, S, t)
<1>1. PICK d \in Nat : Len(h) + d <= Len(g) /\ \A i \in 1..Len(h) : h[i] = g[i + d]
  BY DEF PartOf
<1>2. h \in Seq(Msg) /\ Len(h) \in Nat /\ Len(g) \in Nat
  BY DEF PartOf
<1>3. \A i \in 1..Len(h) : i + d \in 1..Len(g)
  BY <1>1, <1>2
<1> QED  BY <1>1, <1>3 DEF Good

\* and so is the empty one.
LEMMA GoodEmpty == \A S, t : Good(<<>>, S, t)
BY DEF Good

\* The aborted turns may become fewer, and the turn older.
LEMMA GoodMore ==
    ASSUME NEW h \in Seq(Msg), NEW S, NEW t \in Int, Good(h, S, t), NEW R, NEW u \in Int,
           t <= u, \A x \in R : x <= t => x \in S
    PROVE  Good(h, R, u)
<1>1. ASSUME NEW i \in 1..Len(h)
      PROVE  h[i].turn \notin R /\ h[i].turn <= u
  <2>1. h[i] \in Msg
    OBVIOUS
  <2>2. h[i].turn \in Nat
    BY <2>1 DEF Msg
  <2>3. h[i].turn \notin S /\ h[i].turn <= t
    BY DEF Good
  <2> QED  BY <2>2, <2>3
<1> QED  BY <1>1 DEF Good

\* A message of a turn that was not aborted keeps a history clean.
LEMMA GoodAppend ==
    ASSUME NEW h \in Seq(Msg), NEW m \in Msg, NEW S, NEW t, Good(h, S, t), m.turn \notin S, m.turn <= t
    PROVE  Good(Append(h, m), S, t)
<1>1. Len(Append(h, m)) = Len(h) + 1 /\ Append(h, m)[Len(h) + 1] = m /\ Len(h) \in Nat
      /\ \A i \in 1..Len(h) : Append(h, m)[i] = h[i]
  OBVIOUS
<1>2. ASSUME NEW i \in 1..Len(Append(h, m))
      PROVE  Append(h, m)[i].turn \notin S /\ Append(h, m)[i].turn <= t
  <2>1. CASE i = Len(h) + 1
    BY <1>1, <2>1
  <2>2. CASE i \in 1..Len(h)
    BY <1>1, <2>2 DEF Good
  <2> QED  BY <1>1, <2>1, <2>2
<1> QED  BY <1>2 DEF Good

\* Parts of what a history holds.
LEMMA GoodHistory ==
    ASSUME NEW g \in Histories, NEW S, NEW t, Good(g, S, t)
    PROVE  /\ Good(Half(g), S, t)
           /\ \A k \in Nat : Good(LastOf(g, k), S, t)
           /\ \A b \in 0..Len(g) : Good(SubSeq(g, 1, b), S, t)
<1>1. g \in Seq(Msg)
  BY HistoriesAre, TurnHistoryAssumption
<1>2. Good(Half(g), S, t)
  BY <1>1, HalfIsPart, GoodPart
<1>3. ASSUME NEW k \in Nat
      PROVE  Good(LastOf(g, k), S, t)
  <2>1. PartOf(LastOf(g, k), g)
    BY <1>1, LastOfIs
  <2> QED  BY <1>1, <2>1, GoodPart
<1>4. ASSUME NEW b \in 0..Len(g)
      PROVE  Good(SubSeq(g, 1, b), S, t)
  <2>1. 1 \in 1..(Len(g) + 1)
    BY <1>1
  <2>2. PartOf(SubSeq(g, 1, b), g)
    BY <1>1, <2>1, PartSub
  <2> QED  BY <1>1, <2>2, GoodPart
<1> QED  BY <1>2, <1>3, <1>4

\* A step that moves neither the restore point nor the turns.
LEMMA AbortKept ==
    ASSUME AbortInv, UNCHANGED <<turn, rolling, point>>,
           fate'.aborted = fate.aborted, fate'.compressed = fate.compressed,
           pc' = pc \/ (pc' \notin {"capture", "refresh"} /\ pc \notin {"idle", "capture", "restoreSummary"}),
           Good(history', fate.aborted, Young), Good(work'.kept, fate.aborted, Young)
    PROVE  AbortInv'
<1>1. Young' = Young
  BY DEF Young
<1>2. pc' \notin {"idle", "restoreSummary"} => pc \notin {"idle", "restoreSummary"}
  OBVIOUS
<1>3. pc' \notin {"idle", "capture"} => pc \notin {"idle", "capture"}
  OBVIOUS
<1>4. pc' = "refresh" => pc = "refresh"
  OBVIOUS
<1> HIDE DEF Young
<1>5. Good(history', fate'.aborted, Young') /\ Good(point'.history, fate'.aborted, Young')
      /\ Good(work'.kept, fate'.aborted, Young')
  BY <1>1 DEF AbortInv
<1>6. /\ \A r \in 1..Len(rolling') :
          /\ Good(rolling'[r].history, fate'.aborted \ {rolling'[r].turn}, rolling'[r].turn)
          /\ rolling'[r].turn <= Young'
      /\ \A t \in fate'.aborted : t <= Young'
  BY <1>1 DEF AbortInv
<1>7. /\ pc' \notin {"idle", "restoreSummary"} => turn' \notin fate'.aborted
      /\ pc' = "refresh" => fate'.compressed
  BY <1>2, <1>4 DEF AbortInv
<1>8. pc' \notin {"idle", "capture"} /\ ~fate'.compressed => Good(point'.history, {turn'}, turn')
  BY <1>3 DEF AbortInv
<1> QED  BY <1>5, <1>6, <1>7, <1>8, Zenon DEF AbortInv

\* A turn ends.
LEMMA AbortLeft ==
    ASSUME AbortInv, Leave, UNCHANGED <<turn, rolling>>, pc # "capture",
           fate'.aborted = fate.aborted, Good(history', fate.aborted, turn)
    PROVE  AbortInv'
<1>1. Young' = turn /\ Young = turn /\ pc' = "idle" /\ point'.history = <<>> /\ work'.kept = <<>>
  BY NoWorkIs DEF Young, Leave, NoPoint, NoWork
<1> HIDE DEF Young
<1>2. Good(history', fate'.aborted, Young') /\ Good(point'.history, fate'.aborted, Young')
      /\ Good(work'.kept, fate'.aborted, Young')
  BY <1>1, GoodEmpty
<1>3. /\ \A r \in 1..Len(rolling') :
          /\ Good(rolling'[r].history, fate'.aborted \ {rolling'[r].turn}, rolling'[r].turn)
          /\ rolling'[r].turn <= Young'
      /\ \A t \in fate'.aborted : t <= Young'
  BY <1>1 DEF AbortInv
<1> QED  BY <1>1, <1>2, <1>3 DEF AbortInv

\* A message of the turn is added.
LEMMA AbortAdded ==
    ASSUME AbortInv, Data, Limits, NEW m, Add(m), m \in Messages', m.turn = turn,
           pc \notin {"idle", "capture", "restoreSummary"}
    PROVE  /\ Good(history', fate.aborted, turn) /\ Young = turn
           /\ fate'.aborted = fate.aborted /\ fate'.compressed = fate.compressed
<1>0. turn \in 1..MaxTurns /\ MaxTurns \in Nat
  BY TurnHistoryAssumption DEF Limits
<1>1. history \in Seq(Msg)
  BY <1>0, HistoriesAre DEF Data
<1>2. m \in Msg
  <2>1. m \in [role : {"user", "assistant", "tool"}, id : 1..Len(owner'), turn : 1..MaxTurns,
               calls : 0..MaxCalls, of : 0..Len(owner'), nr : 0..MaxCalls]
    BY DEF Messages
  <2>2. m.turn \in Nat /\ m.id \in Nat /\ m.calls \in Nat /\ m.of \in Nat /\ m.nr \in Nat
    BY <2>1
  <2> QED  BY <2>1, <2>2 DEF Msg
<1>3. Young = turn /\ turn \notin fate.aborted /\ Good(history, fate.aborted, turn)
  BY DEF Young, AbortInv
<1>4. Good(Append(history, m), fate.aborted, turn)
  BY <1>0, <1>1, <1>2, <1>3, GoodAppend
<1>5. history' = Append(history, m) /\ fate \in Fates /\ Mark(Overlap)
  BY DEF Add, Data
<1> QED  BY <1>3, <1>4, <1>5, MarkIs, OverlapIs

\* A new message is one of the turn that runs.
LEMMA NewTurns ==
    /\ User.turn = turn /\ \A k : Assistant(k).turn = turn /\ \A a, i : ToolResult(a, i).turn = turn
BY DEF User, Assistant, ToolResult, Message

\* What a turn adds is a message.
LEMMA AddedType ==
    ASSUME Data, Limits, pc # "idle"
    PROVE  /\ Add(User) => User \in Messages'
           /\ \A k \in 0..MaxCalls : Add(Assistant(k)) => Assistant(k) \in Messages'
           /\ Add(ToolResult(job.of, job.nr)) => ToolResult(job.of, job.nr) \in Messages'
<1>1. turn \in 1..MaxTurns
  BY DEF Limits
<1> QED  BY <1>1, NewMessages DEF Add

\* No turn is aborted in the beginning.
LEMMA AbortInit == Init => AbortInv
<1> SUFFICES ASSUME Init
             PROVE  AbortInv
  OBVIOUS
<1>1. history = <<>> /\ point.history = <<>> /\ work.kept = <<>> /\ rolling = <<>> /\ fate.aborted = {}
      /\ pc = "idle"
  BY NoWorkIs DEF Init, NoPoint, NoWork
<1> QED  BY <1>1, GoodEmpty DEF AbortInv

\* Every step keeps the copies of the history as clean as it is.
LEMMA AbortStep ==
    ASSUME AbortInv, Data, Counts, Limits, Places, Data', [Next]_vars
    PROVE  AbortInv'
<1>0. /\ history \in Histories /\ point \in Points /\ work \in Works /\ sum \in Sums
      /\ rolling \in Seq(Rolls) /\ Len(rolling) <= 1 /\ fate \in Fates /\ job \in Jobs
  BY DEF Data
<1>a. MaxTurns \in Nat /\ turn \in Nat /\ (pc # "idle" => turn \in 1..MaxTurns)
  BY TurnHistoryAssumption DEF Limits
<1>b. /\ Good(history, fate.aborted, Young) /\ Good(point.history, fate.aborted, Young)
      /\ Good(work.kept, fate.aborted, Young)
  BY DEF AbortInv
<1>c. Overlap \subseteq {"overlap", "replaced"} /\ Crossing \subseteq {"overlap", "replaced"}
  BY OverlapIs
<1>d. 0 \in 0..MaxCalls /\ \A k \in 1..MaxCalls : k \in 0..MaxCalls
  BY TurnHistoryAssumption
<1>1. CASE UNCHANGED vars
  BY <1>1, <1>b, AbortKept DEF vars, session, turnVars, ghosts
<1>2. CASE Begin
  <2>1. /\ pc = "idle" /\ pc' = "capture" /\ turn' = turn + 1
        /\ UNCHANGED <<history, point, work, rolling>> /\ fate' = [fate EXCEPT !.compressed = FALSE]
    BY <1>2 DEF Begin, session
  <2>2. Young' = Young /\ Young = turn
    BY <1>a, <2>1 DEF Young
  <2>3. fate'.aborted = fate.aborted
    BY <1>0, <2>1 DEF Fates
  <2>4. turn' \notin fate.aborted
    <3>1. \A t \in fate.aborted : t <= turn
      BY <2>2 DEF AbortInv
    <3>2. ~(turn + 1 <= turn)
      BY <1>a
    <3> QED  BY <2>1, <3>1, <3>2
  <2> HIDE DEF Young
  <2> QED  BY <1>b, <2>1, <2>2, <2>3, <2>4 DEF AbortInv
<1>3. CASE Capture
  <2>1. /\ pc = "capture" /\ pc' \in {"save", "compress"}
        /\ UNCHANGED <<history, turn, rolling, fate>> /\ point'.history = history
    BY <1>3 DEF Capture, session, ghosts
  <2>2. work'.kept = <<>> \/ work' = work
    <3>1. work' = work \/ work' = WorkFor("save")
      BY <1>3, NoWorkIs, Zenon DEF Capture
    <3> QED  BY <3>1 DEF WorkFor
  <2>3. Young = turn - 1 /\ Young' = turn /\ turn \in Int /\ turn - 1 \in Int
    BY <1>a, <2>1 DEF Young
  <2> HIDE DEF Young
  <2>4. history \in Seq(Msg) /\ work.kept \in Seq(Msg)
    BY <1>a, <1>0, HistoriesAre DEF Works
  <2>5. Good(history, fate.aborted, turn) /\ Good(work.kept, fate.aborted, turn)
    BY <1>b, <2>3, <2>4, GoodMore
  <2>6. Good(history, {turn}, turn)
    <3>1. \A x \in {turn} : x <= turn - 1 => x \in fate.aborted
      BY <2>3
    <3> QED  BY <1>b, <2>3, <2>4, <3>1, GoodMore
  <2>7. Good(work'.kept, fate.aborted, turn)
    BY <2>2, <2>5, GoodEmpty
  <2>8. \A r \in 1..Len(rolling) :
          /\ Good(rolling[r].history, fate.aborted \ {rolling[r].turn}, rolling[r].turn)
          /\ rolling[r].turn <= turn
    <3> SUFFICES ASSUME NEW r \in 1..Len(rolling)
                 PROVE  /\ Good(rolling[r].history, fate.aborted \ {rolling[r].turn}, rolling[r].turn)
                        /\ rolling[r].turn <= turn
      OBVIOUS
    <3>1. rolling[r] \in Rolls
      BY <1>0
    <3>2. rolling[r].turn \in Nat
      BY <1>a, <3>1 DEF Rolls
    <3>3. /\ Good(rolling[r].history, fate.aborted \ {rolling[r].turn}, rolling[r].turn)
          /\ rolling[r].turn <= Young
      BY DEF AbortInv
    <3> QED  BY <2>3, <3>2, <3>3
  <2>9. \A t \in fate.aborted : t <= turn
    <3>1. \A t \in fate.aborted : t \in Nat
      BY <1>0, <1>a DEF Fates
    <3>2. \A t \in fate.aborted : t <= Young
      BY DEF AbortInv
    <3> QED  BY <2>3, <3>1, <3>2
  <2>10. turn \notin fate.aborted
    BY <2>1 DEF AbortInv
  <2> QED  BY <2>1, <2>3, <2>5, <2>6, <2>7, <2>8, <2>9, <2>10 DEF AbortInv
<1>4. CASE Save
  <2>1. Add(User) /\ UNCHANGED <<turn, rolling, point, work>>
    BY <1>4 DEF Save, Persist
  <2>2. /\ pc \notin {"idle", "capture", "restoreSummary"}
        /\ pc' = pc \/ pc' \notin {"capture", "refresh"}
    BY <1>4 DEF Save
  <2>3. User \in Messages' /\ User.turn = turn
    BY <2>1, <2>2, AddedType, NewTurns
  <2>4. /\ Good(history', fate.aborted, turn) /\ Young = turn
        /\ fate'.aborted = fate.aborted /\ fate'.compressed = fate.compressed
    BY <2>1, <2>2, <2>3, AbortAdded
  <2> QED  BY <1>b, <2>1, <2>2, <2>4, AbortKept
<1>5. CASE Compress
  <2>1. Good(Half(history), fate.aborted, Young)
    BY <1>0, <1>b, GoodHistory
  <2>2. work' = work \/ work'.kept = Half(history)
    BY <1>5, <1>0 DEF Compress, Works
  <2>3. Good(work'.kept, fate.aborted, Young)
    BY <1>b, <2>1, <2>2
  <2> QED  BY <1>5, <1>b, <2>3, AbortKept DEF Compress, session, ghosts
<1>6. CASE Note
  <2>1. fate'.aborted = fate.aborted /\ fate'.compressed = fate.compressed
    BY <1>6, <1>0, <1>c, MarkIs DEF Note
  <2> QED  BY <1>6, <1>b, <2>1, AbortKept DEF Note
<1>7. CASE Cut
  <2>1. /\ pc = "cut" /\ pc' = "refresh" /\ history' = work.kept /\ UNCHANGED <<turn, rolling, point, work>>
        /\ fate' = [fate EXCEPT !.noted = fate.noted \cup work.dropped, !.compressed = TRUE,
                             !.marks = fate.marks \cup Overlap]
    BY <1>7 DEF Cut
  <2>2. fate'.aborted = fate.aborted /\ fate'.compressed = TRUE
    BY <1>0, <2>1 DEF Fates
  <2>3. Young' = Young
    BY <2>1 DEF Young
  <2> HIDE DEF Young
  <2> QED  BY <1>b, <2>1, <2>2, <2>3 DEF AbortInv
<1>8. CASE Refresh
  <2>1. /\ pc = "refresh" /\ pc' = "rebuild" /\ UNCHANGED <<history, turn, rolling, work, fate>>
        /\ point'.history = SubSeq(history, 1, Len(history) - MatchingTail(history, mine))
    BY <1>8 DEF Refresh, session, ghosts
  <2>2. history \in Seq(Msg) /\ mine \in Seq(Msg) /\ Len(history) \in Nat
    <3>1. history \in Seq(Msg) /\ mine \in Seq(Msg)
      BY <1>a, HistoriesAre DEF Data
    <3> QED  BY <3>1
  <2>3. Len(history) - MatchingTail(history, mine) \in 0..Len(history)
    <3>1. MatchingTail(history, mine) \in 0..Len(history)
      BY <2>2, MatchingTailIs
    <3> QED  BY <2>2, <3>1
  <2>4. Good(point'.history, fate.aborted, Young)
    BY <1>0, <1>b, <2>1, <2>3, GoodHistory
  <2>5. Young' = Young /\ fate.compressed
    BY <2>1 DEF Young, AbortInv
  <2> HIDE DEF Young
  <2> QED  BY <1>b, <2>1, <2>4, <2>5 DEF AbortInv
<1>9. CASE Rebuild
  <2>1. work'.kept = <<>> \/ work' = work
    BY <1>9 DEF Rebuild, NoWork
  <2>2. Good(work'.kept, fate.aborted, Young)
    BY <1>b, <2>1, GoodEmpty
  <2>3. pc' = pc \/ (pc' \notin {"capture", "refresh"} /\ pc \notin {"idle", "capture", "restoreSummary"})
    BY <1>9 DEF Rebuild, Places, Compressing
  <2> QED  BY <1>9, <1>b, <2>2, <2>3, AbortKept DEF Rebuild, session, ghosts
<1>10. CASE Loop
  BY <1>10, <1>b, AbortKept DEF Loop, session, ghosts
<1>11. CASE Inject
  <2>1. Add(User) /\ UNCHANGED <<turn, rolling, point, work>>
    BY <1>11 DEF Inject, Persist
  <2>2. /\ pc \notin {"idle", "capture", "restoreSummary"}
        /\ pc' = pc \/ pc' \notin {"capture", "refresh"}
    BY <1>11 DEF Inject
  <2>3. User \in Messages' /\ User.turn = turn
    BY <2>1, <2>2, AddedType, NewTurns
  <2>4. /\ Good(history', fate.aborted, turn) /\ Young = turn
        /\ fate'.aborted = fate.aborted /\ fate'.compressed = fate.compressed
    BY <2>1, <2>2, <2>3, AbortAdded
  <2> QED  BY <1>b, <2>1, <2>2, <2>4, AbortKept
<1>12. CASE Ask
  BY <1>12, <1>b, AbortKept DEF Ask, session, ghosts
<1>13. CASE Answer
  BY <1>13, <1>b, AbortKept DEF Answer, session, ghosts
<1>14. ASSUME NEW k \in 1..MaxCalls, CallTools(k)
       PROVE  AbortInv'
  <2>1. Add(Assistant(k)) /\ UNCHANGED <<turn, rolling, point, work>>
    BY <1>14 DEF CallTools, Persist
  <2>2. /\ pc \notin {"idle", "capture", "restoreSummary"}
        /\ pc' = pc \/ pc' \notin {"capture", "refresh"}
    BY <1>14 DEF CallTools
  <2>3. Assistant(k) \in Messages' /\ Assistant(k).turn = turn
    BY <1>d, <2>1, <2>2, AddedType, NewTurns
  <2>4. /\ Good(history', fate.aborted, turn) /\ Young = turn
        /\ fate'.aborted = fate.aborted /\ fate'.compressed = fate.compressed
    BY <2>1, <2>2, <2>3, AbortAdded
  <2> QED  BY <1>b, <2>1, <2>2, <2>4, AbortKept
<1>15. CASE Retry
  <2>0. work' = work \/ work' = WorkFor("llm")
    BY <1>15, NoWorkIs, Zenon DEF Retry
  <2>1. work'.kept = <<>> \/ work' = work
    BY <2>0 DEF WorkFor
  <2>2. Good(work'.kept, fate.aborted, Young)
    BY <1>b, <2>1, GoodEmpty
  <2>3. pc' = pc \/ (pc' \notin {"capture", "refresh"} /\ pc \notin {"idle", "capture", "restoreSummary"})
    BY <1>15 DEF Retry, Places, Compressing
  <2> QED  BY <1>15, <1>b, <2>2, <2>3, AbortKept DEF Retry, session, ghosts
<1>16. CASE Fail
  <2>1. Leave /\ UNCHANGED <<turn, rolling, history, fate>> /\ pc \in {"llm", "tool"}
    BY <1>16 DEF Fail, session, ghosts
  <2>2. Good(history', fate.aborted, turn)
    BY <1>b, <2>1 DEF Young
  <2> QED  BY <2>1, <2>2, AbortLeft
<1>17. CASE Abort
  BY <1>17, <1>b, AbortKept DEF Abort, session, ghosts
<1>18. CASE RunTool
  <2>1. Add(ToolResult(job.of, job.nr)) /\ UNCHANGED <<turn, rolling, point, work>>
    BY <1>18 DEF RunTool, Persist
  <2>2. /\ pc \notin {"idle", "capture", "restoreSummary"}
        /\ pc' = pc \/ pc' \notin {"capture", "refresh"}
    BY <1>18 DEF RunTool, NextJob
  <2>3. ToolResult(job.of, job.nr) \in Messages' /\ ToolResult(job.of, job.nr).turn = turn
    BY <2>1, <2>2, AddedType, NewTurns
  <2>4. /\ Good(history', fate.aborted, turn) /\ Young = turn
        /\ fate'.aborted = fate.aborted /\ fate'.compressed = fate.compressed
    BY <2>1, <2>2, <2>3, AbortAdded
  <2> QED  BY <1>b, <2>1, <2>2, <2>4, AbortKept
<1>19. CASE DenyTool
  <2>1. Add(ToolResult(job.of, job.nr)) /\ UNCHANGED <<turn, rolling, point, work>>
    BY <1>19 DEF DenyTool, Persist
  <2>2. /\ pc \notin {"idle", "capture", "restoreSummary"}
        /\ pc' = pc \/ pc' \notin {"capture", "refresh"}
    BY <1>19 DEF DenyTool, NextJob
  <2>3. ToolResult(job.of, job.nr) \in Messages' /\ ToolResult(job.of, job.nr).turn = turn
    BY <2>1, <2>2, AddedType, NewTurns
  <2>4. /\ Good(history', fate.aborted, turn) /\ Young = turn
        /\ fate'.aborted = fate.aborted /\ fate'.compressed = fate.compressed
    BY <2>1, <2>2, <2>3, AbortAdded
  <2> QED  BY <1>b, <2>1, <2>2, <2>4, AbortKept
<1>20. CASE SkipTool
  <2>1. Add(ToolResult(job.of, job.nr)) /\ UNCHANGED <<turn, rolling, point, work>>
    BY <1>20 DEF SkipTool, Persist
  <2>2. /\ pc \notin {"idle", "capture", "restoreSummary"}
        /\ pc' = pc \/ pc' \notin {"capture", "refresh"}
    BY <1>20 DEF SkipTool, NextJob
  <2>3. ToolResult(job.of, job.nr) \in Messages' /\ ToolResult(job.of, job.nr).turn = turn
    BY <2>1, <2>2, AddedType, NewTurns
  <2>4. /\ Good(history', fate.aborted, turn) /\ Young = turn
        /\ fate'.aborted = fate.aborted /\ fate'.compressed = fate.compressed
    BY <2>1, <2>2, <2>3, AbortAdded
  <2> QED  BY <1>b, <2>1, <2>2, <2>4, AbortKept
<1>21. CASE After
  BY <1>21, <1>b, AbortKept DEF After, session, ghosts
<1>22. CASE Finish
  <2>1. Add(Assistant(0)) /\ Leave /\ UNCHANGED <<turn, rolling>> /\ pc = "finish"
    BY <1>22 DEF Finish
  <2>2. Assistant(0) \in Messages' /\ Assistant(0).turn = turn
    BY <1>d, <2>1, AddedType, NewTurns
  <2>3. Good(history', fate.aborted, turn) /\ fate'.aborted = fate.aborted
    BY <2>1, <2>2, AbortAdded
  <2> QED  BY <2>1, <2>3, AbortLeft
<1>23. CASE HookAbort
  BY <1>23, <1>b, AbortKept DEF HookAbort, session, ghosts
<1>24. CASE Restore
  <2> DEFINE A == IF fate.compressed THEN fate.aborted ELSE fate.aborted \cup {turn}
             U == fate.undone \cup {turn}
             S == fate.marks \cup Overlap
  <2>1. /\ pc = "restore" /\ pc' = "restoreSummary" /\ history' = point.history
        /\ UNCHANGED <<turn, rolling, point, work>>
        /\ fate' = [fate EXCEPT !.aborted = A, !.undone = U, !.marks = S]
    BY <1>24 DEF Restore
  <2> HIDE DEF U, S
  <2>2. fate'.aborted = A /\ fate'.compressed = fate.compressed
    <3> HIDE DEF A
    <3> QED  BY <1>0, <2>1 DEF Fates
  <2>3. Young = turn /\ Young' = turn
    BY <2>1 DEF Young
  <2>4. Good(point.history, A, turn)
    <3>1. CASE fate.compressed
      BY <1>b, <2>3, <3>1
    <3>2. CASE ~fate.compressed
      <4>1. Good(point.history, {turn}, turn) /\ Good(point.history, fate.aborted, turn)
        BY <1>b, <2>1, <2>3, <3>2 DEF AbortInv
      <4> QED  BY <3>2, <4>1 DEF Good
    <3> QED  BY <3>1, <3>2
  <2>5. work.kept = <<>>
    BY <2>1 DEF Places, Compressing, NoWork
  <2>6. Good(work.kept, A, turn)
    BY <2>5, GoodEmpty
  <2>7. \A t \in A : t <= turn
    <3>1. \A t \in fate.aborted : t <= turn
      BY <2>3 DEF AbortInv
    <3> QED  BY <1>a, <3>1
  <2>8. \A r \in 1..Len(rolling) :
          /\ Good(rolling[r].history, A \ {rolling[r].turn}, rolling[r].turn)
          /\ rolling[r].turn <= turn
    <3> SUFFICES ASSUME NEW r \in 1..Len(rolling)
                 PROVE  /\ Good(rolling[r].history, A \ {rolling[r].turn}, rolling[r].turn)
                        /\ rolling[r].turn <= turn
      OBVIOUS
    <3>1. rolling[r] \in Rolls
      BY <1>0
    <3>2. rolling[r].turn \in Nat /\ rolling[r].history \in Histories
      BY <1>a, <3>1 DEF Rolls
    <3>3. /\ Good(rolling[r].history, fate.aborted \ {rolling[r].turn}, rolling[r].turn)
          /\ rolling[r].turn <= turn
      BY <2>3 DEF AbortInv
    <3>4. \A x \in A \ {rolling[r].turn} : x <= rolling[r].turn => x \in fate.aborted \ {rolling[r].turn}
      BY <1>a, <3>2, <3>3
    <3>5. rolling[r].history \in Seq(Msg) /\ rolling[r].turn \in Int /\ rolling[r].turn <= rolling[r].turn
      BY <1>a, <3>2, HistoriesAre
    <3> HIDE DEF A
    <3> QED  BY <3>3, <3>4, <3>5, GoodMore
  <2>9. pc' # "refresh" /\ pc' = "restoreSummary"
    BY <2>1
  <2>10. ~fate'.compressed => Good(point'.history, {turn'}, turn')
    BY <2>1, <2>2 DEF AbortInv
  <2> HIDE DEF A, Young
  <2> QED  BY <2>1, <2>2, <2>3, <2>4, <2>6, <2>7, <2>8, <2>9, <2>10 DEF AbortInv
<1>25. CASE RestoreSummary
  <2>1. Leave /\ UNCHANGED <<turn, rolling, history>> /\ pc = "restoreSummary" /\ Mark(Overlap)
    BY <1>25 DEF RestoreSummary
  <2>2. Good(history', fate.aborted, turn)
    BY <1>b, <2>1 DEF Young
  <2>3. fate'.aborted = fate.aborted
    BY <1>0, <1>c, <2>1, MarkIs
  <2> QED  BY <2>1, <2>2, <2>3, AbortLeft
<1>26. CASE Steer
  BY <1>26, <1>b, AbortKept DEF Steer, session, turnVars, ghosts
<1>27. CASE InterruptGraceful
  BY <1>27, <1>b, AbortKept DEF InterruptGraceful, session, turnVars, ghosts
<1>28. CASE InterruptHard
  BY <1>28, <1>b, AbortKept DEF InterruptHard, session, turnVars, ghosts
<1>29. CASE Rollback
  <2>1. /\ pc \notin {"idle", "capture"} /\ UNCHANGED <<history, pc, turn, point, work, fate>>
        /\ rolling' = <<[history |-> history, base |-> base, turn |-> turn]>>
    BY <1>29 DEF Rollback, session, turnVars, ghosts
  <2>2. Young = turn /\ Young' = turn
    BY <2>1 DEF Young
  <2>3. Good(history, fate.aborted \ {turn}, turn)
    BY <1>b, <2>2 DEF Good
  <2> DEFINE R == [history |-> history, base |-> base, turn |-> turn]
  <2>4. R.history = history /\ R.turn = turn
    OBVIOUS
  <2> HIDE DEF R
  <2>5. Len(rolling') = 1 /\ rolling'[1] = R
    BY <2>1 DEF R
  <2>6. \A r \in 1..Len(rolling') :
          /\ Good(rolling'[r].history, fate'.aborted \ {rolling'[r].turn}, rolling'[r].turn)
          /\ rolling'[r].turn <= Young'
    <3>1. \A r \in 1..Len(rolling') : rolling'[r] = R
      BY <2>5
    <3>2. turn <= turn
      BY <1>a
    <3> QED  BY <2>1, <2>2, <2>3, <2>4, <3>1, <3>2
  <2> HIDE DEF Young
  <2> QED  BY <1>b, <2>1, <2>2, <2>6 DEF AbortInv
<1>30. CASE RollbackWrite
  <2>1. rolling # <<>> /\ rolling' = <<>> /\ UNCHANGED <<pc, turn, point, work>>
        /\ history' = SubSeq(rolling[1].history, 1, rolling[1].base)
    BY <1>30 DEF RollbackWrite, turnVars
  <2>2. 1 \in 1..Len(rolling) /\ rolling[1] \in Rolls
    BY <1>0, <2>1
  <2> DEFINE A == fate.aborted \ {rolling[1].turn}
             U == fate.undone \cup {rolling[1].turn}
             C == fate.cut \cup {job.of}
             S == fate.marks \cup IF sum.pc \in {"read", "set", "cut"} THEN {"overlap"} ELSE {}
  <2>3. fate' = [fate EXCEPT !.aborted = A, !.undone = U, !.compressed = TRUE, !.cut = C, !.marks = S]
    BY <1>30 DEF RollbackWrite
  <2> HIDE DEF A, U, C, S
  <2>4. fate'.aborted = A /\ fate'.compressed = TRUE
    BY <1>0, <2>3 DEF Fates
  <2>5. Young' = Young /\ Young \in Int /\ Young <= turn
    BY <1>a, <2>1 DEF Young
  <2>6. /\ rolling[1].history \in Histories /\ rolling[1].turn \in Int
        /\ rolling[1].base \in 0..Len(rolling[1].history)
    <3>1. /\ rolling[1].history \in Histories /\ rolling[1].turn \in 1..MaxTurns
          /\ rolling[1].base \in Nat /\ rolling[1].base <= Len(rolling[1].history)
      BY <2>2 DEF Rolls
    <3> QED  BY <1>a, <3>1, HistoryOperators
  <2>7. /\ Good(rolling[1].history, A, rolling[1].turn)
        /\ rolling[1].turn <= Young
    BY <2>2 DEF A, AbortInv
  <2>8. Good(rolling[1].history, A, Young)
    <3>1. rolling[1].history \in Seq(Msg) /\ \A x \in A : x <= rolling[1].turn => x \in A
      BY <1>a, <2>6, HistoriesAre
    <3> QED  BY <2>5, <2>6, <2>7, <3>1, GoodMore
  <2>9. Good(history', A, Young)
    BY <2>1, <2>6, <2>8, GoodHistory
  <2>10. A \subseteq fate.aborted
    BY DEF A
  <2>11. Good(point.history, A, Young) /\ Good(work.kept, A, Young)
    BY <1>b, <2>10 DEF Good
  <2>12. \A r \in 1..Len(rolling') :
          /\ Good(rolling'[r].history, fate'.aborted \ {rolling'[r].turn}, rolling'[r].turn)
          /\ rolling'[r].turn <= Young'
    BY <2>1
  <2> HIDE DEF Young
  <2> QED  BY <2>1, <2>4, <2>5, <2>9, <2>10, <2>11, <2>12 DEF AbortInv
<1>31. CASE Snapshot
  BY <1>31, <1>b, AbortKept DEF Snapshot, session, turnVars, ghosts
<1>32. CASE Decide
  <2>1. PICK S \in SUBSET {"overlap", "replaced"} : UNCHANGED fate \/ Mark(S)
    <3> DEFINE marks == IF Spoken(SubSeq(sum.history, 1, SafeBoundary(sum.history, Len(sum.history) - KeepRecent))) > MaxBatch
                           /\ summary # {} THEN {"replaced"} ELSE {}
    <3>1. UNCHANGED fate \/ Mark(marks)
      BY <1>32 DEF Decide
    <3>2. marks \in SUBSET {"overlap", "replaced"}
      OBVIOUS
    <3> QED  BY <3>1, <3>2
  <2>2. fate'.aborted = fate.aborted /\ fate'.compressed = fate.compressed
    BY <1>0, <2>1, MarkIs
  <2> QED  BY <1>32, <1>b, <2>2, AbortKept DEF Decide, session, turnVars
<1>33. CASE StoreSummary
  <2>1. fate'.aborted = fate.aborted /\ fate'.compressed = fate.compressed
    BY <1>33, <1>0, <1>c, MarkIs DEF StoreSummary
  <2> QED  BY <1>33, <1>b, <2>1, AbortKept DEF StoreSummary, turnVars
<1>34. CASE TruncateRest
  <2>1. fate'.aborted = fate.aborted /\ fate'.compressed = fate.compressed
    BY <1>34, <1>0, <1>c, MarkIs DEF TruncateRest
  <2>2. sum.keep \in Nat
    BY <1>0, SumTypes
  <2>3. Good(LastOf(history, sum.keep), fate.aborted, Young)
    BY <1>0, <1>b, <2>2, GoodHistory
  <2> QED  BY <1>34, <1>b, <2>1, <2>3, AbortKept DEF TruncateRest, turnVars
<1> QED
  BY <1>1, <1>2, <1>3, <1>4, <1>5, <1>6, <1>7, <1>8, <1>9, <1>10, <1>11, <1>12, <1>13, <1>14,
     <1>15, <1>16, <1>17, <1>18, <1>19, <1>20, <1>21, <1>22, <1>23, <1>24, <1>25, <1>26, <1>27,
     <1>28, <1>29, <1>30, <1>31, <1>32, <1>33, <1>34 DEF Next, RunTurn, Interfere, Summarize

-------------------------------------------------------------------------------
(* Who wrote a message *)

\* The turn that a message names is the one that wrote it.
Owned(h, o) == \A i \in 1..Len(h) : o[h[i].id] = h[i].turn
OwnedInv ==
    /\ Owned(history, owner) /\ Owned(point.history, owner) /\ Owned(work.kept, owner)
    /\ \A r \in 1..Len(rolling) : Owned(rolling[r].history, owner)
    /\ \A i \in 1..Len(mine) : mine[i].turn = turn
    /\ pc = "idle" => mine = <<>>

\* The messages of a part name the turn that wrote them,
LEMMA OwnedPart ==
    ASSUME NEW h, NEW g \in Seq(Msg), NEW o, Owned(g, o), PartOf(h, g)
    PROVE  Owned(h, o)
<1>1. PICK d \in Nat : Len(h) + d <= Len(g) /\ \A i \in 1..Len(h) : h[i] = g[i + d]
  BY DEF PartOf
<1>2. h \in Seq(Msg) /\ Len(h) \in Nat /\ Len(g) \in Nat
  BY DEF PartOf
<1>3. \A i \in 1..Len(h) : i + d \in 1..Len(g)
  BY <1>1, <1>2
<1> QED  BY <1>1, <1>3 DEF Owned

\* and so do those of all the parts that are taken of a history.
LEMMA OwnedHistory ==
    ASSUME NEW g \in Histories, NEW o, Owned(g, o)
    PROVE  /\ Owned(Half(g), o)
           /\ \A k \in Nat : Owned(LastOf(g, k), o)
           /\ \A b \in 0..Len(g) : Owned(SubSeq(g, 1, b), o)
<1>1. g \in Seq(Msg)
  BY HistoriesAre, TurnHistoryAssumption
<1>2. Owned(Half(g), o)
  BY <1>1, HalfIsPart, OwnedPart
<1>3. ASSUME NEW k \in Nat
      PROVE  Owned(LastOf(g, k), o)
  <2>1. PartOf(LastOf(g, k), g)
    BY <1>1, LastOfIs
  <2> QED  BY <1>1, <2>1, OwnedPart
<1>4. ASSUME NEW b \in 0..Len(g)
      PROVE  Owned(SubSeq(g, 1, b), o)
  <2>1. 1 \in 1..(Len(g) + 1)
    BY <1>1
  <2>2. PartOf(SubSeq(g, 1, b), g)
    BY <1>1, <2>1, PartSub
  <2> QED  BY <1>1, <2>2, OwnedPart
<1> QED  BY <1>2, <1>3, <1>4

\* A new message does not change who wrote the others.
LEMMA OwnedGrows ==
    ASSUME owner \in Seq(1..MaxTurns), turn \in 1..MaxTurns, owner' = Append(owner, turn),
           NEW h \in Histories, Owned(h, owner)
    PROVE  Owned(h, owner')
<1>1. \A i \in 1..Len(h) : h[i].id \in 1..Len(owner)
  <2>1. \A i \in 1..Len(h) : h[i] \in Messages
    BY DEF Histories
  <2> QED  BY <2>1 DEF Messages
<1>2. \A n \in 1..Len(owner) : owner'[n] = owner[n]
  OBVIOUS
<1> QED  BY <1>1, <1>2 DEF Owned

\* One more message that names its turn.
LEMMA OwnedAppend ==
    ASSUME NEW h \in Seq(Msg), NEW m, NEW o, Owned(h, o), o[m.id] = m.turn
    PROVE  Owned(Append(h, m), o)
<1>1. Len(Append(h, m)) = Len(h) + 1 /\ Append(h, m)[Len(h) + 1] = m /\ Len(h) \in Nat
      /\ \A i \in 1..Len(h) : Append(h, m)[i] = h[i]
  OBVIOUS
<1>2. ASSUME NEW i \in 1..Len(Append(h, m))
      PROVE  o[Append(h, m)[i].id] = Append(h, m)[i].turn
  <2>1. CASE i = Len(h) + 1
    BY <1>1, <2>1
  <2>2. CASE i \in 1..Len(h)
    BY <1>1, <2>2 DEF Owned
  <2> QED  BY <1>1, <2>1, <2>2
<1> QED  BY <1>2 DEF Owned

\* A step that writes a message of its turn.
LEMMA OwnedAdded ==
    ASSUME OwnedInv, Data, turn \in 1..MaxTurns, NEW m, Add(m), m.id = NextId, m.turn = turn
    PROVE  /\ Owned(history', owner') /\ Owned(point.history, owner') /\ Owned(work.kept, owner')
           /\ \A r \in 1..Len(rolling) : Owned(rolling[r].history, owner')
<1>1. owner \in Seq(1..MaxTurns) /\ owner' = Append(owner, turn) /\ history' = Append(history, m)
  BY DEF Data, Add
<1>2. history \in Histories /\ point.history \in Histories /\ work.kept \in Histories
  BY DEF Data, Points, Works
<1>3. Owned(history, owner') /\ Owned(point.history, owner') /\ Owned(work.kept, owner')
  BY <1>1, <1>2, OwnedGrows DEF OwnedInv
<1>4. ASSUME NEW r \in 1..Len(rolling)
      PROVE  Owned(rolling[r].history, owner')
  <2>1. rolling[r] \in Rolls
    BY DEF Data
  <2>2. rolling[r].history \in Histories /\ Owned(rolling[r].history, owner)
    BY <2>1 DEF Rolls, OwnedInv
  <2> QED  BY <1>1, <2>2, OwnedGrows
<1>5. history \in Seq(Msg)
  BY <1>2, HistoriesAre, TurnHistoryAssumption
<1>6. owner'[m.id] = m.turn
  BY <1>1 DEF NextId
<1> QED  BY <1>1, <1>3, <1>4, <1>5, <1>6, OwnedAppend

\* New messages have the next number.
LEMMA NewIds ==
    /\ User.id = NextId /\ \A k : Assistant(k).id = NextId /\ \A a, i : ToolResult(a, i).id = NextId
BY DEF User, Assistant, ToolResult, Message

\* What a turn records is its own.
LEMMA AppendMine ==
    ASSUME mine \in Histories, \A i \in 1..Len(mine) : mine[i].turn = turn, NEW m, m.turn = turn
    PROVE  \A i \in 1..Len(Append(mine, m)) : Append(mine, m)[i].turn = turn
<1>1. mine \in Seq(Messages)
  BY DEF Histories
<1>2. Len(Append(mine, m)) = Len(mine) + 1 /\ Append(mine, m)[Len(mine) + 1] = m /\ Len(mine) \in Nat
      /\ \A i \in 1..Len(mine) : Append(mine, m)[i] = mine[i]
  BY <1>1
<1>3. ASSUME NEW i \in 1..Len(Append(mine, m))
      PROVE  Append(mine, m)[i].turn = turn
  <2>1. CASE i = Len(mine) + 1
    BY <1>2, <2>1
  <2>2. CASE i \in 1..Len(mine)
    BY <1>2, <2>2
  <2> QED  BY <1>2, <2>1, <2>2
<1> QED  BY <1>3

\* The empty history names nobody.
LEMMA OwnedEmpty == \A o : Owned(<<>>, o)
BY DEF Owned

\* In the beginning nothing has been written.
LEMMA OwnedInit == Init => OwnedInv
<1> SUFFICES ASSUME Init
             PROVE  OwnedInv
  OBVIOUS
<1>1. history = <<>> /\ point.history = <<>> /\ work.kept = <<>> /\ rolling = <<>> /\ mine = <<>>
  BY NoWorkIs DEF Init, NoPoint, NoWork
<1> QED  BY <1>1, OwnedEmpty DEF OwnedInv

\* A step that adds nothing.
LEMMA OwnedKept ==
    ASSUME OwnedInv, owner' = owner, Owned(history', owner), Owned(point'.history, owner),
           Owned(work'.kept, owner), rolling' = rolling \/ rolling' = <<>>,
           mine' = <<>> \/ (mine' = mine /\ turn' = turn /\ pc' # "idle")
                        \/ (mine' = mine /\ turn' = turn /\ pc' = pc)
    PROVE  OwnedInv'
<1>1. \A r \in 1..Len(rolling') : Owned(rolling'[r].history, owner')
  BY DEF OwnedInv
<1>2. (\A i \in 1..Len(mine') : mine'[i].turn = turn') /\ (pc' = "idle" => mine' = <<>>)
  BY DEF OwnedInv
<1> QED  BY <1>1, <1>2 DEF OwnedInv

\* Every step keeps the turn that a message names.
LEMMA OwnedStep ==
    ASSUME OwnedInv, Data, Counts, Limits, Places, [Next]_vars
    PROVE  OwnedInv'
<1>0. /\ history \in Histories /\ point \in Points /\ work \in Works /\ sum \in Sums /\ mine \in Histories
      /\ rolling \in Seq(Rolls) /\ Len(rolling) <= 1 /\ fate \in Fates /\ job \in Jobs
  BY DEF Data
<1>a. MaxTurns \in Nat /\ turn \in Nat /\ (pc # "idle" => turn \in 1..MaxTurns)
  BY TurnHistoryAssumption DEF Limits
<1>b. /\ Owned(history, owner) /\ Owned(point.history, owner) /\ Owned(work.kept, owner)
  BY DEF OwnedInv
<1>1. CASE UNCHANGED vars
  BY <1>1, <1>b, OwnedKept DEF vars, session, turnVars, ghosts
<1>2. CASE Begin
  <2>1. mine' = <<>>
    BY <1>2 DEF Begin, OwnedInv
  <2> QED  BY <1>2, <1>b, <2>1, OwnedKept DEF Begin, session
<1>3. CASE Capture
  <2>1. work' = work \/ work' = WorkFor("save")
    BY <1>3, NoWorkIs, Zenon DEF Capture
  <2>2. Owned(work'.kept, owner)
    BY <1>b, <2>1, OwnedEmpty DEF WorkFor
  <2>3. Owned(point'.history, owner)
    BY <1>3, <1>b DEF Capture
  <2> QED  BY <1>3, <1>b, <2>2, <2>3, OwnedKept DEF Capture, session, ghosts
<1>4. CASE Save
  <2>1. Add(User) /\ mine' = Append(mine, User) /\ UNCHANGED <<turn, rolling, point, work>>
    BY <1>4 DEF Save, Persist
  <2>2. pc # "idle" /\ pc' # "idle"
    BY <1>4 DEF Save
  <2>3. User.id = NextId /\ User.turn = turn
    BY NewIds, NewTurns
  <2>4. /\ Owned(history', owner') /\ Owned(point.history, owner') /\ Owned(work.kept, owner')
        /\ \A r \in 1..Len(rolling) : Owned(rolling[r].history, owner')
    BY <1>a, <2>1, <2>2, <2>3, OwnedAdded
  <2>5. \A i \in 1..Len(mine') : mine'[i].turn = turn
    <3>1. \A i \in 1..Len(mine) : mine[i].turn = turn
      BY DEF OwnedInv
    <3> QED  BY <1>0, <2>1, <2>3, <3>1, AppendMine
  <2> QED  BY <2>1, <2>2, <2>4, <2>5 DEF OwnedInv
<1>5. CASE Compress
  <2>1. Owned(Half(history), owner)
    BY <1>0, <1>b, OwnedHistory
  <2>2. work' = work \/ work'.kept = Half(history)
    BY <1>5, <1>0 DEF Compress, Works
  <2>3. Owned(work'.kept, owner)
    BY <1>b, <2>1, <2>2
  <2> QED  BY <1>5, <1>b, <2>3, OwnedKept DEF Compress, session, ghosts
<1>6. CASE Note
  BY <1>6, <1>b, OwnedKept DEF Note
<1>7. CASE Cut
  BY <1>7, <1>b, OwnedKept DEF Cut
<1>8. CASE Refresh
  <2>1. /\ pc' = "rebuild" /\ UNCHANGED <<history, turn, rolling, work, owner, mine>>
        /\ point'.history = SubSeq(history, 1, Len(history) - MatchingTail(history, mine))
    BY <1>8 DEF Refresh, session, ghosts
  <2>2. history \in Seq(Msg) /\ mine \in Seq(Msg) /\ Len(history) \in Nat
    <3>1. history \in Seq(Msg) /\ mine \in Seq(Msg)
      BY <1>a, HistoriesAre DEF Data
    <3> QED  BY <3>1
  <2>3. Len(history) - MatchingTail(history, mine) \in 0..Len(history)
    <3>1. MatchingTail(history, mine) \in 0..Len(history)
      BY <2>2, MatchingTailIs
    <3> QED  BY <2>2, <3>1
  <2>4. Owned(point'.history, owner)
    BY <1>0, <1>b, <2>1, <2>3, OwnedHistory
  <2> QED  BY <1>b, <2>1, <2>4, OwnedKept
<1>9. CASE Rebuild
  <2>1. work'.kept = <<>>
    BY <1>9 DEF Rebuild, NoWork
  <2>2. Owned(work'.kept, owner)
    BY <2>1, OwnedEmpty
  <2>3. pc' # "idle"
    BY <1>9 DEF Rebuild, Places, Compressing
  <2> QED  BY <1>9, <1>b, <2>2, <2>3, OwnedKept DEF Rebuild, session, ghosts
<1>10. CASE Loop
  BY <1>10, <1>b, OwnedKept DEF Loop, session, ghosts
<1>11. CASE Inject
  <2>1. Add(User) /\ mine' = Append(mine, User) /\ UNCHANGED <<turn, rolling, point, work>>
    BY <1>11 DEF Inject, Persist
  <2>2. pc # "idle" /\ pc' # "idle"
    BY <1>11 DEF Inject
  <2>3. User.id = NextId /\ User.turn = turn
    BY NewIds, NewTurns
  <2>4. /\ Owned(history', owner') /\ Owned(point.history, owner') /\ Owned(work.kept, owner')
        /\ \A r \in 1..Len(rolling) : Owned(rolling[r].history, owner')
    BY <1>a, <2>1, <2>2, <2>3, OwnedAdded
  <2>5. \A i \in 1..Len(mine') : mine'[i].turn = turn
    <3>1. \A i \in 1..Len(mine) : mine[i].turn = turn
      BY DEF OwnedInv
    <3> QED  BY <1>0, <2>1, <2>3, <3>1, AppendMine
  <2> QED  BY <2>1, <2>2, <2>4, <2>5 DEF OwnedInv
<1>12. CASE Ask
  BY <1>12, <1>b, OwnedKept DEF Ask, session, ghosts
<1>13. CASE Answer
  BY <1>13, <1>b, OwnedKept DEF Answer, session, ghosts
<1>14. ASSUME NEW k \in 1..MaxCalls, CallTools(k)
       PROVE  OwnedInv'
  <2>1. Add(Assistant(k)) /\ mine' = Append(mine, Assistant(k)) /\ UNCHANGED <<turn, rolling, point, work>>
    BY <1>14 DEF CallTools, Persist
  <2>2. pc # "idle" /\ pc' # "idle"
    BY <1>14 DEF CallTools
  <2>3. Assistant(k).id = NextId /\ Assistant(k).turn = turn
    BY NewIds, NewTurns
  <2>4. /\ Owned(history', owner') /\ Owned(point.history, owner') /\ Owned(work.kept, owner')
        /\ \A r \in 1..Len(rolling) : Owned(rolling[r].history, owner')
    BY <1>a, <2>1, <2>2, <2>3, OwnedAdded
  <2>5. \A i \in 1..Len(mine') : mine'[i].turn = turn
    <3>1. \A i \in 1..Len(mine) : mine[i].turn = turn
      BY DEF OwnedInv
    <3> QED  BY <1>0, <2>1, <2>3, <3>1, AppendMine
  <2> QED  BY <2>1, <2>2, <2>4, <2>5 DEF OwnedInv
<1>15. CASE Retry
  <2>1. work' = work \/ work' = WorkFor("llm")
    BY <1>15, NoWorkIs, Zenon DEF Retry
  <2>2. Owned(work'.kept, owner)
    BY <1>b, <2>1, OwnedEmpty DEF WorkFor
  <2> QED  BY <1>15, <1>b, <2>2, OwnedKept DEF Retry, session, ghosts
<1>16. CASE Fail
  <2>1. Leave /\ UNCHANGED <<rolling, history, owner>>
    BY <1>16 DEF Fail, session, ghosts
  <2>2. mine' = <<>> /\ point'.history = <<>> /\ work'.kept = <<>>
    BY <2>1 DEF Leave, NoPoint, NoWork
  <2> QED  BY <1>b, <2>1, <2>2, OwnedEmpty, OwnedKept
<1>17. CASE Abort
  BY <1>17, <1>b, OwnedKept DEF Abort, session, ghosts
<1>18. CASE RunTool
  <2>1. Add(ToolResult(job.of, job.nr)) /\ mine' = Append(mine, ToolResult(job.of, job.nr)) /\ UNCHANGED <<turn, rolling, point, work>>
    BY <1>18 DEF RunTool, Persist
  <2>2. pc # "idle" /\ pc' # "idle"
    BY <1>18 DEF RunTool, NextJob
  <2>3. ToolResult(job.of, job.nr).id = NextId /\ ToolResult(job.of, job.nr).turn = turn
    BY NewIds, NewTurns
  <2>4. /\ Owned(history', owner') /\ Owned(point.history, owner') /\ Owned(work.kept, owner')
        /\ \A r \in 1..Len(rolling) : Owned(rolling[r].history, owner')
    BY <1>a, <2>1, <2>2, <2>3, OwnedAdded
  <2>5. \A i \in 1..Len(mine') : mine'[i].turn = turn
    <3>1. \A i \in 1..Len(mine) : mine[i].turn = turn
      BY DEF OwnedInv
    <3> QED  BY <1>0, <2>1, <2>3, <3>1, AppendMine
  <2> QED  BY <2>1, <2>2, <2>4, <2>5 DEF OwnedInv
<1>19. CASE DenyTool
  <2>1. Add(ToolResult(job.of, job.nr)) /\ mine' = Append(mine, ToolResult(job.of, job.nr)) /\ UNCHANGED <<turn, rolling, point, work>>
    BY <1>19 DEF DenyTool, Persist
  <2>2. pc # "idle" /\ pc' # "idle"
    BY <1>19 DEF DenyTool, NextJob
  <2>3. ToolResult(job.of, job.nr).id = NextId /\ ToolResult(job.of, job.nr).turn = turn
    BY NewIds, NewTurns
  <2>4. /\ Owned(history', owner') /\ Owned(point.history, owner') /\ Owned(work.kept, owner')
        /\ \A r \in 1..Len(rolling) : Owned(rolling[r].history, owner')
    BY <1>a, <2>1, <2>2, <2>3, OwnedAdded
  <2>5. \A i \in 1..Len(mine') : mine'[i].turn = turn
    <3>1. \A i \in 1..Len(mine) : mine[i].turn = turn
      BY DEF OwnedInv
    <3> QED  BY <1>0, <2>1, <2>3, <3>1, AppendMine
  <2> QED  BY <2>1, <2>2, <2>4, <2>5 DEF OwnedInv
<1>20. CASE SkipTool
  <2>1. Add(ToolResult(job.of, job.nr)) /\ mine' = Append(mine, ToolResult(job.of, job.nr)) /\ UNCHANGED <<turn, rolling, point, work>>
    BY <1>20 DEF SkipTool, Persist
  <2>2. pc # "idle" /\ pc' # "idle"
    BY <1>20 DEF SkipTool, NextJob
  <2>3. ToolResult(job.of, job.nr).id = NextId /\ ToolResult(job.of, job.nr).turn = turn
    BY NewIds, NewTurns
  <2>4. /\ Owned(history', owner') /\ Owned(point.history, owner') /\ Owned(work.kept, owner')
        /\ \A r \in 1..Len(rolling) : Owned(rolling[r].history, owner')
    BY <1>a, <2>1, <2>2, <2>3, OwnedAdded
  <2>5. \A i \in 1..Len(mine') : mine'[i].turn = turn
    <3>1. \A i \in 1..Len(mine) : mine[i].turn = turn
      BY DEF OwnedInv
    <3> QED  BY <1>0, <2>1, <2>3, <3>1, AppendMine
  <2> QED  BY <2>1, <2>2, <2>4, <2>5 DEF OwnedInv
<1>21. CASE After
  BY <1>21, <1>b, OwnedKept DEF After, session, ghosts
<1>22. CASE Finish
  <2>1. Add(Assistant(0)) /\ Leave /\ UNCHANGED <<turn, rolling>> /\ pc = "finish"
    BY <1>22 DEF Finish
  <2>2. Assistant(0).id = NextId /\ Assistant(0).turn = turn
    BY NewIds, NewTurns
  <2>3. Owned(history', owner') /\ \A r \in 1..Len(rolling) : Owned(rolling[r].history, owner')
    BY <1>a, <2>1, <2>2, OwnedAdded
  <2>4. mine' = <<>> /\ point'.history = <<>> /\ work'.kept = <<>>
    BY <2>1 DEF Leave, NoPoint, NoWork
  <2> QED  BY <2>1, <2>3, <2>4, OwnedEmpty DEF OwnedInv
<1>23. CASE HookAbort
  BY <1>23, <1>b, OwnedKept DEF HookAbort, session, ghosts
<1>24. CASE Restore
  BY <1>24, <1>b, OwnedKept DEF Restore
<1>25. CASE RestoreSummary
  <2>1. Leave /\ UNCHANGED <<rolling, history, owner>>
    BY <1>25 DEF RestoreSummary
  <2>2. mine' = <<>> /\ point'.history = <<>> /\ work'.kept = <<>>
    BY <2>1 DEF Leave, NoPoint, NoWork
  <2> QED  BY <1>b, <2>1, <2>2, OwnedEmpty, OwnedKept
<1>26. CASE Steer
  BY <1>26, <1>b, OwnedKept DEF Steer, session, turnVars, ghosts
<1>27. CASE InterruptGraceful
  BY <1>27, <1>b, OwnedKept DEF InterruptGraceful, session, turnVars, ghosts
<1>28. CASE InterruptHard
  BY <1>28, <1>b, OwnedKept DEF InterruptHard, session, turnVars, ghosts
<1>29. CASE Rollback
  <2>1. /\ UNCHANGED <<history, pc, turn, point, work, owner, mine>>
        /\ rolling' = <<[history |-> history, base |-> base, turn |-> turn]>>
    BY <1>29 DEF Rollback, session, turnVars, ghosts
  <2> DEFINE R == [history |-> history, base |-> base, turn |-> turn]
  <2>2. R.history = history
    OBVIOUS
  <2> HIDE DEF R
  <2>3. Len(rolling') = 1 /\ rolling'[1] = R
    BY <2>1 DEF R
  <2>4. \A r \in 1..Len(rolling') : Owned(rolling'[r].history, owner')
    <3>1. \A r \in 1..Len(rolling') : rolling'[r] = R
      BY <2>3
    <3> QED  BY <1>b, <2>1, <2>2, <3>1
  <2> QED  BY <2>1, <2>4 DEF OwnedInv
<1>30. CASE RollbackWrite
  <2>1. rolling # <<>> /\ rolling' = <<>> /\ UNCHANGED <<pc, turn, point, work, owner, mine>>
        /\ history' = SubSeq(rolling[1].history, 1, rolling[1].base)
    BY <1>30 DEF RollbackWrite, turnVars
  <2>2. 1 \in 1..Len(rolling) /\ rolling[1] \in Rolls
    BY <1>0, <2>1
  <2>3. rolling[1].history \in Histories /\ rolling[1].base \in 0..Len(rolling[1].history)
    <3>1. /\ rolling[1].history \in Histories
          /\ rolling[1].base \in Nat /\ rolling[1].base <= Len(rolling[1].history)
      BY <2>2 DEF Rolls
    <3> QED  BY <3>1, HistoryOperators
  <2>4. Owned(rolling[1].history, owner)
    BY <2>2 DEF OwnedInv
  <2>5. Owned(history', owner)
    BY <2>1, <2>3, <2>4, OwnedHistory
  <2> QED  BY <1>b, <2>1, <2>5, OwnedKept
<1>31. CASE Snapshot
  BY <1>31, <1>b, OwnedKept DEF Snapshot, session, turnVars, ghosts
<1>32. CASE Decide
  BY <1>32, <1>b, OwnedKept DEF Decide, session, turnVars
<1>33. CASE StoreSummary
  BY <1>33, <1>b, OwnedKept DEF StoreSummary, turnVars
<1>34. CASE TruncateRest
  <2>1. sum.keep \in Nat
    BY <1>0, SumTypes
  <2>2. Owned(LastOf(history, sum.keep), owner)
    BY <1>0, <1>b, <2>1, OwnedHistory
  <2> QED  BY <1>34, <1>b, <2>2, OwnedKept DEF TruncateRest, turnVars
<1> QED
  BY <1>1, <1>2, <1>3, <1>4, <1>5, <1>6, <1>7, <1>8, <1>9, <1>10, <1>11, <1>12, <1>13, <1>14,
     <1>15, <1>16, <1>17, <1>18, <1>19, <1>20, <1>21, <1>22, <1>23, <1>24, <1>25, <1>26, <1>27,
     <1>28, <1>29, <1>30, <1>31, <1>32, <1>33, <1>34 DEF Next, RunTurn, Interfere, Summarize

-------------------------------------------------------------------------------
(* What is kept *)

\* The messages behind the b-th are those of turn t.
Own(h, b, t) == \A i \in 1..Len(h) : i > b => h[i].turn = t

\* A message is in S, or counted in a note, or one of a turn that was undone.
Covered(i, S) == owner[i] \in fate.undone \/ i \in S \/ i \in fate.noted
Captured == pc \notin {"idle", "capture"}

KeptInv ==
    /\ \A i \in Known : Covered(i, Ids(history) \cup summary)
    /\ Captured =>
          /\ \A i \in Known : owner[i] = turn \/ Covered(i, Ids(point.history) \cup point.summary)
          /\ point.summary \subseteq summary
          /\ Own(point.history, base, turn)
    /\ pc # "idle" => Own(history, base, turn)
    /\ pc \in {"note", "cut"} =>
          Ids(history) \subseteq Ids(work.kept) \cup work.dropped /\ Own(work.kept, base, turn)
    /\ pc = "note" => work.summary = summary
    /\ pc = "restoreSummary" => \A i \in Known : Covered(i, Ids(history) \cup point.summary)

\* What the other goroutines hold of the session, as long as nobody comes between.
OthersInv ==
    /\ \A r \in 1..Len(rolling) :
          rolling[r].history = history /\ Own(history, rolling[r].base, rolling[r].turn)
    /\ sum.pc = "read" => sum.history = history
    /\ sum.pc = "set" =>
          /\ summary \subseteq sum.covered
          /\ \A i \in 1..Len(history) : i + sum.keep <= Len(history) => history[i].id \in sum.covered
    /\ sum.pc = "cut" =>
          \A i \in 1..Len(history) : i + sum.keep <= Len(history) => history[i].id \in summary

NoneLost == fate.marks = {} => KeptInv /\ OthersInv

\* What is behind the first messages of a history is a matter of its parts.
LEMMA OwnPart ==
    ASSUME NEW h, NEW g \in Seq(Msg), NEW b \in Nat, NEW t, Own(g, b, t), PartOf(h, g)
    PROVE  Own(h, b, t)
<1>1. PICK d \in Nat : Len(h) + d <= Len(g) /\ \A i \in 1..Len(h) : h[i] = g[i + d]
  BY DEF PartOf
<1>2. h \in Seq(Msg) /\ Len(h) \in Nat /\ Len(g) \in Nat
  BY DEF PartOf
<1>3. \A i \in 1..Len(h) : i + d \in 1..Len(g) /\ (i > b => i + d > b)
  BY <1>1, <1>2
<1> QED  BY <1>1, <1>3 DEF Own

\* The parts that are taken of a history.
LEMMA OwnHistory ==
    ASSUME NEW g \in Histories, NEW b \in Nat, NEW t, Own(g, b, t)
    PROVE  /\ Own(Half(g), b, t)
           /\ \A k \in Nat : Own(LastOf(g, k), b, t)
           /\ \A n \in 0..Len(g) : Own(SubSeq(g, 1, n), b, t)
<1>1. g \in Seq(Msg)
  BY HistoriesAre, TurnHistoryAssumption
<1>2. Own(Half(g), b, t)
  BY <1>1, HalfIsPart, OwnPart
<1>3. ASSUME NEW k \in Nat
      PROVE  Own(LastOf(g, k), b, t)
  <2>1. PartOf(LastOf(g, k), g)
    BY <1>1, LastOfIs
  <2> QED  BY <1>1, <2>1, OwnPart
<1>4. ASSUME NEW n \in 0..Len(g)
      PROVE  Own(SubSeq(g, 1, n), b, t)
  <2>1. 1 \in 1..(Len(g) + 1)
    BY <1>1
  <2>2. PartOf(SubSeq(g, 1, n), g)
    BY <1>1, <2>1, PartSub
  <2> QED  BY <1>1, <2>2, OwnPart
<1> QED  BY <1>2, <1>3, <1>4

\* One more message of the turn.
LEMMA OwnAppend ==
    ASSUME NEW h \in Seq(Msg), NEW m, NEW b, NEW t, Own(h, b, t), m.turn = t
    PROVE  Own(Append(h, m), b, t)
<1>1. Len(Append(h, m)) = Len(h) + 1 /\ Append(h, m)[Len(h) + 1] = m /\ Len(h) \in Nat
      /\ \A i \in 1..Len(h) : Append(h, m)[i] = h[i]
  OBVIOUS
<1>2. ASSUME NEW i \in 1..Len(Append(h, m)), i > b
      PROVE  Append(h, m)[i].turn = t
  <2>1. CASE i = Len(h) + 1
    BY <1>1, <2>1
  <2>2. CASE i \in 1..Len(h)
    BY <1>1, <1>2, <2>2 DEF Own
  <2> QED  BY <1>1, <2>1, <2>2
<1> QED  BY <1>2 DEF Own

\* The numbers of a history and of its parts.
LEMMA IdsAre ==
    ASSUME NEW h \in Seq(Msg)
    PROVE  Ids(h) = {h[i].id : i \in 1..Len(h)}
<1>1. DOMAIN h = 1..Len(h)
  OBVIOUS
<1> QED  BY <1>1 DEF Ids

\* A new message adds its number.
LEMMA IdsAppend ==
    ASSUME NEW h \in Seq(Msg), NEW m \in Msg
    PROVE  Ids(Append(h, m)) = Ids(h) \cup {m.id}
<1>1. Len(Append(h, m)) = Len(h) + 1 /\ Append(h, m)[Len(h) + 1] = m /\ Len(h) \in Nat
      /\ (\A i \in 1..Len(h) : Append(h, m)[i] = h[i]) /\ Append(h, m) \in Seq(Msg)
  OBVIOUS
<1>2. 1..(Len(h) + 1) = 1..Len(h) \cup {Len(h) + 1}
  BY <1>1
<1>3. Ids(Append(h, m)) = {Append(h, m)[i].id : i \in 1..(Len(h) + 1)} /\ Ids(h) = {h[i].id : i \in 1..Len(h)}
  BY <1>1, IdsAre
<1> QED  BY <1>1, <1>2, <1>3

\* A prefix drops messages behind its length only.
LEMMA IdsPrefix ==
    ASSUME NEW h \in Seq(Msg), NEW n \in 0..Len(h)
    PROVE  /\ Ids(SubSeq(h, 1, n)) \subseteq Ids(h)
           /\ \A x \in Ids(h) : x \in Ids(SubSeq(h, 1, n)) \/ \E i \in 1..Len(h) : i > n /\ h[i].id = x
<1>1. LET g == SubSeq(h, 1, n) IN
      g \in Seq(Msg) /\ Len(g) = n /\ (\A i \in 1..n : g[i] = h[i]) /\ n \in Nat /\ Len(h) \in Nat
  OBVIOUS
<1> DEFINE g == SubSeq(h, 1, n)
<1>2. g \in Seq(Msg) /\ Len(g) = n /\ (\A i \in 1..n : g[i] = h[i]) /\ n \in Nat /\ Len(h) \in Nat
  BY <1>1
<1> HIDE DEF g
<1>3. Ids(g) = {h[i].id : i \in 1..n}
  <2>1. Ids(g) = {g[i].id : i \in 1..n}
    BY <1>2, IdsAre
  <2> QED  BY <1>2, <2>1
<1>4. Ids(h) = {h[i].id : i \in 1..Len(h)}
  BY IdsAre
<1>5. 1..n \subseteq 1..Len(h) /\ \A i \in 1..Len(h) : i \in 1..n \/ i > n
  BY <1>2
<1> QED  BY <1>3, <1>4, <1>5 DEF g

\* A tail loses the messages in front of it only.
LEMMA IdsLastOf ==
    ASSUME NEW h \in Seq(Msg), NEW k \in Nat
    PROVE  /\ Ids(LastOf(h, k)) \subseteq Ids(h)
           /\ \A x \in Ids(h) : x \in Ids(LastOf(h, k)) \/ \E i \in 1..Len(h) : i + k <= Len(h) /\ h[i].id = x
<1> DEFINE g == LastOf(h, k)
           d == Dropped(h, k)
<1>1. /\ PartOf(g, h) /\ d \in 0..Len(h) /\ Len(g) = Len(h) - d
      /\ \A i \in 1..Len(g) : g[i] = h[i + d]
  BY LastOfIs
<1>2. d = (IF k >= Len(h) THEN 0 ELSE Len(h) - k) /\ Len(h) \in Nat
  BY DEF Dropped
<1> HIDE DEF g, d
<1>3. Ids(g) = {g[i].id : i \in 1..Len(g)} /\ Ids(h) = {h[i].id : i \in 1..Len(h)}
  <2>1. g \in Seq(Msg)
    BY <1>1 DEF PartOf
  <2> QED  BY <2>1, IdsAre
<1>4. \A i \in 1..Len(g) : i + d \in 1..Len(h)
  BY <1>1, <1>2
<1>5. Ids(g) \subseteq Ids(h)
  BY <1>1, <1>3, <1>4
<1>6. ASSUME NEW i \in 1..Len(h)
      PROVE  h[i].id \in Ids(g) \/ i + k <= Len(h)
  <2>1. CASE i > d
    <3>1. i - d \in 1..Len(g) /\ (i - d) + d = i
      BY <1>1, <1>2, <2>1
    <3>2. g[i - d] = h[i]
      BY <1>1, <3>1
    <3> QED  BY <1>3, <3>1, <3>2
  <2>2. CASE ~(i > d)
    BY <1>1, <1>2, <2>2
  <2> QED  BY <2>1, <2>2
<1> QED  BY <1>3, <1>5, <1>6 DEF g

\* In the beginning there is nothing to keep.
LEMMA KeptInit == Init => KeptInv /\ OthersInv
<1> SUFFICES ASSUME Init
             PROVE  KeptInv /\ OthersInv
  OBVIOUS
<1>1. rolling = <<>> /\ owner = <<>> /\ pc = "idle" /\ sum.pc = "off"
  BY DEF Init, Off
<1>2. Known = {}
  BY <1>1 DEF Known
<1> QED  BY <1>1, <1>2 DEF KeptInv, OthersInv, Captured

\* A step that leaves the session alone.
LEMMA KeptQuiet ==
    ASSUME KeptInv, UNCHANGED <<history, summary, owner>>,
           fate'.undone = fate.undone, fate'.noted = fate.noted,
           \/ UNCHANGED <<turn, base, point, work, pc>>
           \/ /\ UNCHANGED <<turn, base, point>>
              /\ pc \notin {"idle", "capture"} /\ pc' \notin {"idle", "capture", "note", "cut", "restoreSummary"}
           \/ pc' = "idle"
    PROVE  KeptInv'
<1>1. \A i, S : Covered(i, S)' <=> Covered(i, S)
  BY DEF Covered
<1>2. Known' = Known
  BY DEF Known
<1>3. CASE UNCHANGED <<turn, base, point, work, pc>>
  BY <1>1, <1>2, <1>3 DEF KeptInv, Captured, Covered
<1>4. CASE /\ UNCHANGED <<turn, base, point>>
           /\ pc \notin {"idle", "capture"} /\ pc' \notin {"idle", "capture", "note", "cut", "restoreSummary"}
  BY <1>1, <1>2, <1>4 DEF KeptInv, Captured, Covered
<1>5. CASE pc' = "idle"
  BY <1>1, <1>2, <1>5 DEF KeptInv, Captured, Covered
<1> QED  BY <1>3, <1>4, <1>5

\* A step that the other goroutines do not notice.
LEMMA OthersQuiet ==
    ASSUME OthersInv, UNCHANGED <<history, summary, rolling, sum>>
    PROVE  OthersInv'
BY DEF OthersInv

\* Nobody else has read the session.
LEMMA OthersOff ==
    ASSUME rolling' = <<>>, sum'.pc \notin {"read", "set", "cut"}
    PROVE  OthersInv'
BY DEF OthersInv

\* A message is added.
LEMMA KeptAdded ==
    ASSUME KeptInv, Data, Limits, Counts, NEW m, Add(m), m \in Messages', m.id = NextId, m.turn = turn,
           pc \notin {"idle", "capture", "note", "cut", "restoreSummary"}, turn' = turn,
           \/ UNCHANGED <<base, point>> /\ pc' \notin {"idle", "capture", "note", "cut", "restoreSummary"}
           \/ pc' = "idle"
    PROVE  KeptInv'
<1>0. turn \in 1..MaxTurns /\ MaxTurns \in Nat /\ base \in Nat /\ owner \in Seq(1..MaxTurns)
  BY TurnHistoryAssumption DEF Limits, Counts, Data
<1>1. history \in Seq(Msg)
  BY <1>0, HistoriesAre DEF Data
<1>2. m \in Msg
  <2>1. m \in [role : {"user", "assistant", "tool"}, id : 1..Len(owner'), turn : 1..MaxTurns,
               calls : 0..MaxCalls, of : 0..Len(owner'), nr : 0..MaxCalls]
    BY DEF Messages
  <2>2. m.turn \in Nat /\ m.id \in Nat /\ m.calls \in Nat /\ m.of \in Nat /\ m.nr \in Nat
    BY <2>1
  <2> QED  BY <2>1, <2>2 DEF Msg
<1>3. history' = Append(history, m) /\ owner' = Append(owner, turn) /\ summary' = summary
  BY DEF Add
<1>4. fate'.undone = fate.undone /\ fate'.noted = fate.noted
  BY MarkIs, OverlapIs DEF Add, Data
<1>5. Ids(history') = Ids(history) \cup {m.id}
  BY <1>1, <1>2, <1>3, IdsAppend
<1>6. /\ Known' = Known \cup {m.id} /\ owner'[m.id] = turn
      /\ \A i \in Known : owner'[i] = owner[i]
  <2>1. Len(owner') = Len(owner) + 1 /\ Len(owner) \in Nat
    BY <1>0, <1>3
  <2>2. 1..(Len(owner) + 1) = 1..Len(owner) \cup {Len(owner) + 1}
    BY <2>1
  <2>3. Known' = Known \cup {m.id}
    BY <2>1, <2>2 DEF Known, NextId
  <2> QED  BY <1>0, <1>3, <2>3 DEF Known, NextId
<1>7. \A i \in Known' : Covered(i, Ids(history) \cup summary)' \/ i = m.id
  BY <1>3, <1>4, <1>5, <1>6 DEF KeptInv, Covered
<1>8. \A i \in Known' : Covered(i, Ids(history) \cup summary)'
  BY <1>5, <1>7 DEF Covered
<1>9. Own(history', base, turn)
  BY <1>1, <1>3, OwnAppend DEF KeptInv
<1>10. CASE UNCHANGED <<base, point>> /\ pc' \notin {"idle", "capture", "note", "cut", "restoreSummary"}
  <2>1. \A i \in Known : owner[i] = turn \/ Covered(i, Ids(point.history) \cup point.summary)
    BY DEF KeptInv, Captured
  <2>2. \A i \in Known' : owner'[i] = turn' \/ Covered(i, Ids(point.history) \cup point.summary)'
    BY <1>4, <1>6, <1>10, <2>1 DEF Covered
  <2>3. point.summary \subseteq summary /\ Own(point.history, base, turn)
    BY DEF KeptInv, Captured
  <2> QED  BY <1>3, <1>8, <1>9, <1>10, <2>2, <2>3 DEF KeptInv, Captured
<1>11. CASE pc' = "idle"
  BY <1>8, <1>11 DEF KeptInv, Captured
<1> QED  BY <1>10, <1>11

\* Every step that crosses no other keeps all messages.
LEMMA KeptStep ==
    ASSUME NoneLost, Data, Counts, Limits, Places, OwnedInv, [Next]_vars
    PROVE  NoneLost'
<1>0. /\ history \in Histories /\ point \in Points /\ work \in Works /\ sum \in Sums /\ mine \in Histories
      /\ rolling \in Seq(Rolls) /\ Len(rolling) <= 1 /\ fate \in Fates /\ job \in Jobs /\ summary \in SUBSET Known
  BY DEF Data
<1>a. MaxTurns \in Nat /\ turn \in Nat /\ base \in Nat /\ (pc # "idle" => turn \in 1..MaxTurns)
  BY TurnHistoryAssumption DEF Limits, Counts
<1>c. Overlap \subseteq {"overlap", "replaced"} /\ Crossing \subseteq {"overlap", "replaced"}
  BY OverlapIs
<1>d. 0 \in 0..MaxCalls /\ \A k \in 1..MaxCalls : k \in 0..MaxCalls
  BY TurnHistoryAssumption
<1>e. history \in Seq(Msg) /\ mine \in Seq(Msg) /\ Len(history) \in Nat
  <2>1. history \in Seq(Msg) /\ mine \in Seq(Msg)
    BY <1>a, <1>0, HistoriesAre
  <2> QED  BY <2>1
<1>f. \A S : (fate.marks \cup S = {}) <=> (fate.marks = {} /\ S = {})
  OBVIOUS
<1>g. Overlap = {} => rolling = <<>> /\ sum.pc \notin {"read", "set", "cut"}
  BY DEF Overlap, OthersBusy
<1>h. Crossing = {} => rolling = <<>> /\ pc \notin {"note", "cut", "restoreSummary"}
  BY DEF Crossing
<1> SUFFICES ASSUME fate'.marks = {}
             PROVE  KeptInv' /\ OthersInv'
  BY DEF NoneLost
<1>i. fate.marks = {} => KeptInv /\ OthersInv
  BY DEF NoneLost
<1>1. CASE UNCHANGED vars
  BY <1>1, <1>i, KeptQuiet, OthersQuiet DEF vars, session, turnVars, ghosts
<1>2. CASE Begin
  <2>1. /\ pc' = "capture" /\ base' = Len(history) /\ UNCHANGED <<history, summary, owner, rolling, sum>>
        /\ fate' = [fate EXCEPT !.compressed = FALSE]
    BY <1>2 DEF Begin, session
  <2>2. fate'.undone = fate.undone /\ fate'.noted = fate.noted /\ fate'.marks = fate.marks
    BY <1>0, <2>1 DEF Fates
  <2>3. KeptInv /\ OthersInv
    BY <1>i, <2>2
  <2>4. \A i \in Known' : Covered(i, Ids(history) \cup summary)'
    BY <2>1, <2>2, <2>3 DEF KeptInv, Covered, Known
  <2>5. Own(history', base', turn')
    <3>1. \A i \in 1..Len(history) : ~(i > Len(history))
      BY <1>e
    <3> QED  BY <2>1, <3>1 DEF Own
  <2> QED  BY <2>1, <2>3, <2>4, <2>5, OthersQuiet DEF KeptInv, Captured
<1>3. CASE Capture
  <2>1. /\ pc = "capture" /\ pc' \in {"save", "compress"}
        /\ UNCHANGED <<history, summary, turn, base, owner, rolling, sum, fate>>
        /\ point' = [history |-> history, summary |-> summary]
    BY <1>3 DEF Capture, session, ghosts
  <2>2. point'.history = history /\ point'.summary = summary
    BY <2>1
  <2>3. KeptInv /\ OthersInv
    BY <1>i, <2>1
  <2>4. \A i \in Known' : Covered(i, Ids(history) \cup summary)'
    BY <2>1, <2>3 DEF KeptInv, Covered, Known
  <2>5. \A i \in Known' : Covered(i, Ids(point.history) \cup point.summary)'
    BY <2>1, <2>2, <2>4 DEF Covered
  <2>6. Own(history, base, turn)
    BY <2>1, <2>3 DEF KeptInv
  <2> QED  BY <2>1, <2>2, <2>3, <2>4, <2>5, <2>6, OthersQuiet DEF KeptInv, Captured
<1>4. CASE Save
  <2>1. Add(User) /\ UNCHANGED <<turn, base, point, rolling, sum>>
    BY <1>4 DEF Save, Persist
  <2>2. /\ pc \notin {"idle", "capture", "note", "cut", "restoreSummary"}
        /\ pc' \notin {"idle", "capture", "note", "cut", "restoreSummary"}
    BY <1>4 DEF Save
  <2>3. User \in Messages' /\ User.id = NextId /\ User.turn = turn
    BY <1>d, <2>1, <2>2, AddedType, NewIds, NewTurns
  <2>4. fate'.marks = fate.marks \cup Overlap
    BY <1>0, <1>c, <2>1, MarkIs DEF Add
  <2>5. fate.marks = {} /\ Overlap = {}
    BY <1>f, <2>4
  <2>6. KeptInv /\ rolling' = <<>>
    BY <1>g, <1>i, <2>1, <2>5
  <2>7. sum'.pc \notin {"read", "set", "cut"}
    BY <1>0, <1>g, <2>1, <2>5 DEF Sums
  <2> QED  BY <2>1, <2>2, <2>3, <2>6, <2>7, KeptAdded, OthersOff
<1>5. CASE Compress
  <2>1. /\ pc = "compress" /\ UNCHANGED <<history, summary, turn, base, point, owner, rolling, sum, fate>>
    BY <1>5 DEF Compress, session, ghosts
  <2>2. KeptInv /\ OthersInv
    BY <1>i, <2>1
  <2>3. CASE pc' = "rebuild"
    BY <2>1, <2>2, <2>3, KeptQuiet, OthersQuiet
  <2>4. CASE pc' = "note"
    <3>1. work' = [work EXCEPT !.kept = Half(history), !.summary = summary,
                               !.dropped = Ids(history) \ Ids(Half(history))]
      BY <1>5, <2>4 DEF Compress
    <3>2. work'.kept = Half(history) /\ work'.summary = summary
          /\ work'.dropped = Ids(history) \ Ids(Half(history))
      BY <1>0, <3>1 DEF Works
    <3>3. Own(Half(history), base, turn)
      BY <1>0, <1>a, <2>1, <2>2, OwnHistory DEF KeptInv
    <3>4. Ids(history') \subseteq Ids(work'.kept) \cup work'.dropped
      BY <2>1, <3>2
    <3>5. \A i \in Known' : Covered(i, Ids(history) \cup summary)'
      BY <2>1, <2>2 DEF KeptInv, Covered, Known
    <3>6. \A i \in Known' : owner'[i] = turn' \/ Covered(i, Ids(point.history) \cup point.summary)'
      BY <2>1, <2>2 DEF KeptInv, Covered, Known, Captured
    <3> QED  BY <2>1, <2>2, <2>4, <3>2, <3>3, <3>4, <3>5, <3>6, OthersQuiet DEF KeptInv, Captured
  <2> QED  BY <1>5, <2>3, <2>4 DEF Compress
<1>6. CASE Note
  <2>1. /\ pc = "note" /\ pc' = "cut" /\ summary' = work.summary /\ Mark(Overlap)
        /\ UNCHANGED <<history, turn, base, point, work, owner, rolling, sum>>
    BY <1>6 DEF Note
  <2>2. /\ fate'.marks = fate.marks \cup Overlap /\ fate'.undone = fate.undone /\ fate'.noted = fate.noted
    BY <1>0, <1>c, <2>1, MarkIs
  <2>3. fate.marks = {} /\ Overlap = {}
    BY <1>f, <2>2
  <2>4. KeptInv /\ OthersInv
    BY <1>i, <2>3
  <2>5. summary' = summary
    BY <2>1, <2>4 DEF KeptInv
  <2>6. \A i \in Known' : Covered(i, Ids(history) \cup summary)'
    BY <2>1, <2>2, <2>4, <2>5 DEF KeptInv, Covered, Known
  <2>7. \A i \in Known' : owner'[i] = turn' \/ Covered(i, Ids(point.history) \cup point.summary)'
    BY <2>1, <2>2, <2>4 DEF KeptInv, Covered, Known, Captured
  <2> QED  BY <2>1, <2>4, <2>5, <2>6, <2>7, OthersQuiet DEF KeptInv, Captured
<1>7. CASE Cut
  <2>1. /\ pc = "cut" /\ pc' = "refresh" /\ history' = work.kept
        /\ UNCHANGED <<summary, turn, base, point, work, owner, rolling, sum>>
        /\ fate' = [fate EXCEPT !.noted = fate.noted \cup work.dropped, !.compressed = TRUE,
                                !.marks = fate.marks \cup Overlap]
    BY <1>7 DEF Cut
  <2>2. /\ fate'.marks = fate.marks \cup Overlap /\ fate'.undone = fate.undone
        /\ fate'.noted = fate.noted \cup work.dropped
    BY <1>0, <2>1 DEF Fates
  <2>3. fate.marks = {} /\ Overlap = {}
    BY <1>f, <2>2
  <2>4. KeptInv /\ rolling' = <<>> /\ sum'.pc \notin {"read", "set", "cut"}
    BY <1>g, <1>i, <2>1, <2>3
  <2>5. Ids(history) \subseteq Ids(work.kept) \cup work.dropped /\ Own(work.kept, base, turn)
    BY <2>1, <2>4 DEF KeptInv
  <2>6. \A i \in Known' : Covered(i, Ids(history) \cup summary)'
    BY <2>1, <2>2, <2>4, <2>5 DEF KeptInv, Covered, Known
  <2>7. \A i \in Known' : owner'[i] = turn' \/ Covered(i, Ids(point.history) \cup point.summary)'
    BY <2>1, <2>2, <2>4 DEF KeptInv, Covered, Known, Captured
  <2>8. point.summary \subseteq summary /\ Own(point.history, base, turn)
    BY <2>1, <2>4 DEF KeptInv, Captured
  <2> QED  BY <2>1, <2>4, <2>5, <2>6, <2>7, <2>8, OthersOff DEF KeptInv, Captured
<1>8. CASE Refresh
  <2> DEFINE k == MatchingTail(history, mine)
             n == Len(history) - k
  <2>1. /\ pc = "refresh" /\ pc' = "rebuild"
        /\ UNCHANGED <<history, summary, turn, base, work, owner, rolling, sum, fate>>
        /\ point' = [history |-> SubSeq(history, 1, n), summary |-> summary]
    BY <1>8 DEF Refresh, session, ghosts
  <2>2. point'.history = SubSeq(history, 1, n) /\ point'.summary = summary
    BY <2>1
  <2>3. /\ k \in 0..Len(history) /\ k <= Len(mine)
        /\ \A i \in 0..(k - 1) : history[Len(history) - i] = mine[Len(mine) - i]
    BY <1>e, MatchingTailIs
  <2> HIDE DEF k
  <2>4. n \in 0..Len(history)
    BY <1>e, <2>3
  <2>5. KeptInv /\ OthersInv
    BY <1>i, <2>1
  <2>6. \A i \in 1..Len(history) : i > n => owner[history[i].id] = turn
    <3> SUFFICES ASSUME NEW i \in 1..Len(history), i > n
                 PROVE  owner[history[i].id] = turn
      OBVIOUS
    <3>1. Len(history) - i \in 0..(k - 1) /\ Len(history) - (Len(history) - i) = i
          /\ Len(mine) - (Len(history) - i) \in 1..Len(mine)
      BY <1>e, <2>3
    <3>2. history[i].turn = turn
      BY <2>3, <3>1 DEF OwnedInv
    <3> QED  BY <3>2 DEF OwnedInv, Owned
  <2> HIDE DEF n
  <2>7. \A x \in Ids(history) : x \in Ids(SubSeq(history, 1, n)) \/ \E i \in 1..Len(history) : i > n /\ history[i].id = x
    BY <1>e, <2>4, IdsPrefix
  <2>8. \A i \in Known' : Covered(i, Ids(history) \cup summary)'
    BY <2>1, <2>5 DEF KeptInv, Covered, Known
  <2>9. \A i \in Known' : owner'[i] = turn' \/ Covered(i, Ids(point.history) \cup point.summary)'
    BY <2>1, <2>2, <2>6, <2>7, <2>8 DEF Covered
  <2>10. Own(history, base, turn)
    BY <2>1, <2>5 DEF KeptInv
  <2>11. Own(point'.history, base, turn)
    BY <1>0, <1>a, <2>2, <2>4, <2>10, OwnHistory
  <2> QED  BY <2>1, <2>2, <2>5, <2>8, <2>9, <2>10, <2>11, OthersQuiet DEF KeptInv, Captured
<1>9. CASE Rebuild
  <2>1. pc' \in {"save", "llm"}
    BY <1>9 DEF Rebuild, Places, Compressing
  <2> QED  BY <1>9, <2>1, <1>i, KeptQuiet, OthersQuiet DEF Rebuild, session, ghosts
<1>10. CASE Loop
  BY <1>10, <1>i, KeptQuiet, OthersQuiet DEF Loop, session, ghosts
<1>11. CASE Inject
  <2>1. Add(User) /\ UNCHANGED <<turn, base, point, rolling, sum>>
    BY <1>11 DEF Inject, Persist
  <2>2. /\ pc \notin {"idle", "capture", "note", "cut", "restoreSummary"}
        /\ pc' \notin {"idle", "capture", "note", "cut", "restoreSummary"}
    BY <1>11 DEF Inject
  <2>3. User \in Messages' /\ User.id = NextId /\ User.turn = turn
    BY <1>d, <2>1, <2>2, AddedType, NewIds, NewTurns
  <2>4. fate'.marks = fate.marks \cup Overlap
    BY <1>0, <1>c, <2>1, MarkIs DEF Add
  <2>5. fate.marks = {} /\ Overlap = {}
    BY <1>f, <2>4
  <2>6. KeptInv /\ rolling' = <<>>
    BY <1>g, <1>i, <2>1, <2>5
  <2>7. sum'.pc \notin {"read", "set", "cut"}
    BY <1>0, <1>g, <2>1, <2>5 DEF Sums
  <2> QED  BY <2>1, <2>2, <2>3, <2>6, <2>7, KeptAdded, OthersOff
<1>12. CASE Ask
  BY <1>12, <1>i, KeptQuiet, OthersQuiet DEF Ask, session, ghosts
<1>13. CASE Answer
  BY <1>13, <1>i, KeptQuiet, OthersQuiet DEF Answer, session, ghosts
<1>14. ASSUME NEW k \in 1..MaxCalls, CallTools(k)
       PROVE  KeptInv' /\ OthersInv'
  <2>1. Add(Assistant(k)) /\ UNCHANGED <<turn, base, point, rolling, sum>>
    BY <1>14 DEF CallTools, Persist
  <2>2. /\ pc \notin {"idle", "capture", "note", "cut", "restoreSummary"}
        /\ pc' \notin {"idle", "capture", "note", "cut", "restoreSummary"}
    BY <1>14 DEF CallTools
  <2>3. Assistant(k) \in Messages' /\ Assistant(k).id = NextId /\ Assistant(k).turn = turn
    BY <1>d, <2>1, <2>2, AddedType, NewIds, NewTurns
  <2>4. fate'.marks = fate.marks \cup Overlap
    BY <1>0, <1>c, <2>1, MarkIs DEF Add
  <2>5. fate.marks = {} /\ Overlap = {}
    BY <1>f, <2>4
  <2>6. KeptInv /\ rolling' = <<>>
    BY <1>g, <1>i, <2>1, <2>5
  <2>7. sum'.pc \notin {"read", "set", "cut"}
    BY <1>0, <1>g, <2>1, <2>5 DEF Sums
  <2> QED  BY <2>1, <2>2, <2>3, <2>6, <2>7, KeptAdded, OthersOff
<1>15. CASE Retry
  BY <1>15, <1>i, KeptQuiet, OthersQuiet DEF Retry, session, ghosts
<1>16. CASE Fail
  <2>1. Leave /\ UNCHANGED <<rolling, history, owner, summary, sum, fate>>
    BY <1>16 DEF Fail, session, ghosts
  <2> QED  BY <2>1, <1>i, KeptQuiet, OthersQuiet DEF Leave
<1>17. CASE Abort
  BY <1>17, <1>i, KeptQuiet, OthersQuiet DEF Abort, session, ghosts
<1>18. CASE RunTool
  <2>1. Add(ToolResult(job.of, job.nr)) /\ UNCHANGED <<turn, base, point, rolling, sum>>
    BY <1>18 DEF RunTool, Persist
  <2>2. /\ pc \notin {"idle", "capture", "note", "cut", "restoreSummary"}
        /\ pc' \notin {"idle", "capture", "note", "cut", "restoreSummary"}
    BY <1>18 DEF RunTool, NextJob
  <2>3. ToolResult(job.of, job.nr) \in Messages' /\ ToolResult(job.of, job.nr).id = NextId /\ ToolResult(job.of, job.nr).turn = turn
    BY <1>d, <2>1, <2>2, AddedType, NewIds, NewTurns
  <2>4. fate'.marks = fate.marks \cup Overlap
    BY <1>0, <1>c, <2>1, MarkIs DEF Add
  <2>5. fate.marks = {} /\ Overlap = {}
    BY <1>f, <2>4
  <2>6. KeptInv /\ rolling' = <<>>
    BY <1>g, <1>i, <2>1, <2>5
  <2>7. sum'.pc \notin {"read", "set", "cut"}
    BY <1>0, <1>g, <2>1, <2>5 DEF Sums
  <2> QED  BY <2>1, <2>2, <2>3, <2>6, <2>7, KeptAdded, OthersOff
<1>19. CASE DenyTool
  <2>1. Add(ToolResult(job.of, job.nr)) /\ UNCHANGED <<turn, base, point, rolling, sum>>
    BY <1>19 DEF DenyTool, Persist
  <2>2. /\ pc \notin {"idle", "capture", "note", "cut", "restoreSummary"}
        /\ pc' \notin {"idle", "capture", "note", "cut", "restoreSummary"}
    BY <1>19 DEF DenyTool, NextJob
  <2>3. ToolResult(job.of, job.nr) \in Messages' /\ ToolResult(job.of, job.nr).id = NextId /\ ToolResult(job.of, job.nr).turn = turn
    BY <1>d, <2>1, <2>2, AddedType, NewIds, NewTurns
  <2>4. fate'.marks = fate.marks \cup Overlap
    BY <1>0, <1>c, <2>1, MarkIs DEF Add
  <2>5. fate.marks = {} /\ Overlap = {}
    BY <1>f, <2>4
  <2>6. KeptInv /\ rolling' = <<>>
    BY <1>g, <1>i, <2>1, <2>5
  <2>7. sum'.pc \notin {"read", "set", "cut"}
    BY <1>0, <1>g, <2>1, <2>5 DEF Sums
  <2> QED  BY <2>1, <2>2, <2>3, <2>6, <2>7, KeptAdded, OthersOff
<1>20. CASE SkipTool
  <2>1. Add(ToolResult(job.of, job.nr)) /\ UNCHANGED <<turn, base, point, rolling, sum>>
    BY <1>20 DEF SkipTool, Persist
  <2>2. /\ pc \notin {"idle", "capture", "note", "cut", "restoreSummary"}
        /\ pc' \notin {"idle", "capture", "note", "cut", "restoreSummary"}
    BY <1>20 DEF SkipTool, NextJob
  <2>3. ToolResult(job.of, job.nr) \in Messages' /\ ToolResult(job.of, job.nr).id = NextId /\ ToolResult(job.of, job.nr).turn = turn
    BY <1>d, <2>1, <2>2, AddedType, NewIds, NewTurns
  <2>4. fate'.marks = fate.marks \cup Overlap
    BY <1>0, <1>c, <2>1, MarkIs DEF Add
  <2>5. fate.marks = {} /\ Overlap = {}
    BY <1>f, <2>4
  <2>6. KeptInv /\ rolling' = <<>>
    BY <1>g, <1>i, <2>1, <2>5
  <2>7. sum'.pc \notin {"read", "set", "cut"}
    BY <1>0, <1>g, <2>1, <2>5 DEF Sums
  <2> QED  BY <2>1, <2>2, <2>3, <2>6, <2>7, KeptAdded, OthersOff
<1>21. CASE After
  BY <1>21, <1>i, KeptQuiet, OthersQuiet DEF After, session, ghosts
<1>22. CASE Finish
  <2>1. Add(Assistant(0)) /\ UNCHANGED <<turn, rolling>> /\ (sum' = sum \/ sum' = [sum EXCEPT !.pc = "snap"])
    BY <1>22 DEF Finish
  <2>2. pc = "finish" /\ pc' = "idle"
    BY <1>22 DEF Finish, Leave
  <2>3. Assistant(0) \in Messages' /\ Assistant(0).id = NextId /\ Assistant(0).turn = turn
    BY <1>d, <2>1, <2>2, AddedType, NewIds, NewTurns
  <2>4. fate'.marks = fate.marks \cup Overlap
    BY <1>0, <1>c, <2>1, MarkIs DEF Add
  <2>5. fate.marks = {} /\ Overlap = {}
    BY <1>f, <2>4
  <2>6. KeptInv /\ rolling' = <<>>
    BY <1>g, <1>i, <2>1, <2>5
  <2>7. sum'.pc \notin {"read", "set", "cut"}
    BY <1>0, <1>g, <2>1, <2>5 DEF Sums
  <2> QED  BY <2>1, <2>2, <2>3, <2>6, <2>7, KeptAdded, OthersOff
<1>23. CASE HookAbort
  BY <1>23, <1>i, KeptQuiet, OthersQuiet DEF HookAbort, session, ghosts
<1>24. CASE Restore
  <2> DEFINE A == IF fate.compressed THEN fate.aborted ELSE fate.aborted \cup {turn}
             U == fate.undone \cup {turn}
             S == fate.marks \cup Overlap
  <2>1. /\ pc = "restore" /\ pc' = "restoreSummary" /\ history' = point.history
        /\ UNCHANGED <<summary, turn, base, point, work, owner, rolling, sum>>
        /\ fate' = [fate EXCEPT !.aborted = A, !.undone = U, !.marks = S]
    BY <1>24 DEF Restore
  <2> HIDE DEF A, U, S
  <2>2. fate'.marks = S /\ fate'.undone = U /\ fate'.noted = fate.noted
    BY <1>0, <2>1 DEF Fates
  <2>3. fate.marks = {} /\ Overlap = {}
    BY <1>f, <2>2 DEF S
  <2>4. KeptInv /\ rolling' = <<>> /\ sum'.pc \notin {"read", "set", "cut"}
    BY <1>g, <1>i, <2>1, <2>3
  <2>5. /\ \A i \in Known : owner[i] = turn \/ Covered(i, Ids(point.history) \cup point.summary)
        /\ point.summary \subseteq summary /\ Own(point.history, base, turn)
    BY <2>1, <2>4 DEF KeptInv, Captured
  <2>6. \A i \in Known' : Covered(i, Ids(point.history) \cup point.summary)'
    BY <2>1, <2>2, <2>5 DEF Covered, Known, U
  <2>7. /\ \A i \in Known' : Covered(i, Ids(history) \cup summary)'
        /\ \A i \in Known' : Covered(i, Ids(history) \cup point.summary)'
    BY <2>1, <2>5, <2>6 DEF Covered
  <2> QED  BY <2>1, <2>4, <2>5, <2>6, <2>7, OthersOff DEF KeptInv, Captured
<1>25. CASE RestoreSummary
  <2>1. /\ Leave /\ UNCHANGED <<history, owner, rolling, sum>> /\ pc = "restoreSummary" /\ Mark(Overlap)
        /\ summary' = point.summary
    BY <1>25 DEF RestoreSummary
  <2>2. /\ fate'.marks = fate.marks \cup Overlap /\ fate'.undone = fate.undone /\ fate'.noted = fate.noted
    BY <1>0, <1>c, <2>1, MarkIs
  <2>3. fate.marks = {} /\ Overlap = {}
    BY <1>f, <2>2
  <2>4. KeptInv /\ rolling' = <<>> /\ sum'.pc \notin {"read", "set", "cut"} /\ pc' = "idle"
    BY <1>g, <1>i, <2>1, <2>3 DEF Leave
  <2>5. \A i \in Known' : Covered(i, Ids(history) \cup summary)'
    BY <2>1, <2>2, <2>4 DEF KeptInv, Covered, Known
  <2> QED  BY <2>4, <2>5, OthersOff DEF KeptInv, Captured
<1>26. CASE Steer
  BY <1>26, <1>i, KeptQuiet, OthersQuiet DEF Steer, session, turnVars, ghosts
<1>27. CASE InterruptGraceful
  BY <1>27, <1>i, KeptQuiet, OthersQuiet DEF InterruptGraceful, session, turnVars, ghosts
<1>28. CASE InterruptHard
  BY <1>28, <1>i, KeptQuiet, OthersQuiet DEF InterruptHard, session, turnVars, ghosts
<1>29. CASE Rollback
  <2>1. /\ pc \notin {"idle", "capture"} /\ UNCHANGED <<history, summary, pc, turn, base, point, work, owner, sum, fate>>
        /\ rolling' = <<[history |-> history, base |-> base, turn |-> turn]>>
    BY <1>29 DEF Rollback, session, turnVars, ghosts
  <2> DEFINE R == [history |-> history, base |-> base, turn |-> turn]
  <2>2. R.history = history /\ R.turn = turn /\ R.base = base
    OBVIOUS
  <2> HIDE DEF R
  <2>3. Len(rolling') = 1 /\ rolling'[1] = R
    BY <2>1 DEF R
  <2>4. KeptInv /\ OthersInv
    BY <1>i, <2>1
  <2>5. \A r \in 1..Len(rolling') :
          rolling'[r].history = history' /\ Own(history', rolling'[r].base, rolling'[r].turn)
    <3>1. \A r \in 1..Len(rolling') : rolling'[r] = R
      BY <2>3
    <3>2. Own(history, base, turn)
      BY <2>1, <2>4 DEF KeptInv
    <3> QED  BY <2>1, <2>2, <3>1, <3>2
  <2>6. KeptInv'
    BY <2>1, <2>4, KeptQuiet
  <2>7. OthersInv'
    BY <2>1, <2>4, <2>5 DEF OthersInv
  <2> QED  BY <2>6, <2>7
<1>30. CASE RollbackWrite
  <2> DEFINE A == fate.aborted \ {rolling[1].turn}
             U == fate.undone \cup {rolling[1].turn}
             C == fate.cut \cup {job.of}
             busy == IF sum.pc \in {"read", "set", "cut"} THEN {"overlap"} ELSE {}
             S == fate.marks \cup busy
             n == rolling[1].base
  <2>1. rolling # <<>> /\ rolling' = <<>> /\ UNCHANGED <<summary, pc, turn, base, point, work, owner, sum>>
        /\ history' = SubSeq(rolling[1].history, 1, n)
        /\ fate' = [fate EXCEPT !.aborted = A, !.undone = U, !.compressed = TRUE, !.cut = C, !.marks = S]
    BY <1>30 DEF RollbackWrite, turnVars
  <2>2. 1 \in 1..Len(rolling) /\ rolling[1] \in Rolls
    BY <1>0, <2>1
  <2> HIDE DEF A, U, C, S
  <2>3. fate'.marks = S /\ fate'.undone = U /\ fate'.noted = fate.noted
    BY <1>0, <2>1 DEF Fates
  <2>4. fate.marks = {} /\ busy = {}
    BY <1>f, <2>3 DEF S
  <2>5. KeptInv /\ OthersInv /\ sum'.pc \notin {"read", "set", "cut"}
    BY <1>i, <2>1, <2>4
  <2> HIDE DEF busy
  <2>6. rolling[1].history = history /\ Own(history, n, rolling[1].turn)
    BY <2>2, <2>5 DEF OthersInv
  <2>7. n \in 0..Len(history)
    <3>1. n \in Nat /\ n <= Len(rolling[1].history)
      BY <2>2 DEF Rolls
    <3> QED  BY <1>e, <2>6, <3>1
  <2>8. history' = SubSeq(history, 1, n)
    BY <2>1, <2>6
  <2>9. \A i \in 1..Len(history) : i > n => owner[history[i].id] \in U
    BY <2>6 DEF Own, OwnedInv, Owned, U
  <2>10. fate.undone \subseteq U
    BY DEF U
  <2> HIDE DEF n
  <2>11. /\ Ids(history') \subseteq Ids(history)
         /\ \A x \in Ids(history) : x \in Ids(history') \/ \E i \in 1..Len(history) : i > n /\ history[i].id = x
    BY <1>e, <2>7, <2>8, IdsPrefix
  <2>12. \A i \in Known' : Covered(i, Ids(history) \cup summary)'
    BY <2>1, <2>3, <2>5, <2>9, <2>10, <2>11 DEF KeptInv, Covered, Known
  <2>13. Captured => \A i \in Known' : owner'[i] = turn' \/ Covered(i, Ids(point.history) \cup point.summary)'
    BY <2>1, <2>3, <2>5, <2>10 DEF KeptInv, Covered, Known
  <2>14. pc = "restoreSummary" => \A i \in Known' : Covered(i, Ids(history) \cup point.summary)'
    BY <2>1, <2>3, <2>5, <2>9, <2>10, <2>11 DEF KeptInv, Covered, Known
  <2>15. pc # "idle" => Own(history', base, turn)
    BY <1>0, <1>a, <2>5, <2>7, <2>8, OwnHistory DEF KeptInv
  <2> QED  BY <2>1, <2>5, <2>11, <2>12, <2>13, <2>14, <2>15, OthersOff DEF KeptInv, Captured
<1>31. CASE Snapshot
  <2>1. UNCHANGED <<history, summary, turn, base, point, work, pc, owner, rolling, fate>>
        /\ sum' = [sum EXCEPT !.pc = "read", !.history = history]
    BY <1>31 DEF Snapshot, session, turnVars, ghosts
  <2>2. sum'.pc = "read" /\ sum'.history = history
    BY <1>0, <2>1 DEF Sums
  <2>3. KeptInv /\ OthersInv
    BY <1>i, <2>1
  <2>4. OthersInv'
    BY <2>1, <2>2, <2>3 DEF OthersInv
  <2> QED  BY <2>1, <2>3, <2>4, KeptQuiet
<1>32. CASE Decide
  <2> DEFINE h == sum.history
             cut == SafeBoundary(h, Len(h) - KeepRecent)
             old == SubSeq(h, 1, cut)
             cov == Ids(old) \cup (IF Spoken(old) > MaxBatch THEN {} ELSE summary)
             marks == IF Spoken(old) > MaxBatch /\ summary # {} THEN {"replaced"} ELSE {}
  <2>1. \/ sum' = Off /\ UNCHANGED fate
        \/ sum' = [pc |-> "set", history |-> <<>>, keep |-> Len(h) - cut, covered |-> cov] /\ Mark(marks)
    BY <1>32 DEF Decide
  <2>2. UNCHANGED <<history, summary, turn, base, point, work, pc, owner, rolling>> /\ sum.pc = "read"
    BY <1>32 DEF Decide, session, turnVars
  <2>3. marks \subseteq {"overlap", "replaced"}
    OBVIOUS
  <2>4. fate.marks = {} /\ fate'.undone = fate.undone /\ fate'.noted = fate.noted
    <3> HIDE DEF marks
    <3> QED  BY <1>0, <1>f, <2>1, <2>3, MarkIs
  <2>5. KeptInv /\ OthersInv /\ h = history
    BY <1>i, <2>2, <2>4 DEF OthersInv
  <2>6. KeptInv'
    BY <2>2, <2>4, <2>5, KeptQuiet
  <2>7. CASE sum' = Off
    <3>1. sum'.pc = "off"
      BY <2>7 DEF Off
    <3> QED  BY <2>2, <2>5, <2>6, <3>1 DEF OthersInv
  <2>8. CASE sum' = [pc |-> "set", history |-> <<>>, keep |-> Len(h) - cut, covered |-> cov] /\ Mark(marks)
    <3>1. marks = {}
      <4> HIDE DEF marks
      <4> QED  BY <1>0, <1>f, <2>3, <2>8, MarkIs
    <3>2. summary \subseteq cov /\ Ids(old) \subseteq cov
      BY <3>1
    <3>3. cut \in 0..Len(history)
      <4>1. Len(history) - KeepRecent \in Int
        BY <1>e, TurnHistoryAssumption
      <4> QED  BY <1>0, <2>5, <4>1, HistoryOperators
    <3>4. old = SubSeq(history, 1, cut) /\ Len(h) = Len(history)
      BY <2>5
    <3> HIDE DEF h, cut, old, marks, cov
    <3>5. old \in Seq(Msg) /\ Len(old) = cut /\ \A i \in 1..cut : old[i] = history[i]
      BY <1>e, <3>3, <3>4
    <3>6. Ids(old) = {old[i].id : i \in 1..cut}
      BY <3>5, IdsAre
    <3>7. \A i \in 1..Len(history) : i + (Len(history) - cut) <= Len(history) => history[i].id \in cov
      <4>1. \A i \in 1..Len(history) : i + (Len(history) - cut) <= Len(history) => i \in 1..cut
        BY <1>e, <3>3
      <4> QED  BY <3>2, <3>5, <3>6, <4>1
    <3>8. sum'.pc = "set" /\ sum'.keep = Len(history) - cut /\ sum'.covered = cov
      BY <2>8, <3>4
    <3>9. \A r \in 1..Len(rolling') :
            rolling'[r].history = history' /\ Own(history', rolling'[r].base, rolling'[r].turn)
      BY <2>2, <2>5 DEF OthersInv
    <3>10. OthersInv'
      BY <2>2, <3>2, <3>7, <3>8, <3>9 DEF OthersInv
    <3> QED  BY <2>6, <3>10
  <2> QED  BY <2>1, <2>7, <2>8
<1>33. CASE StoreSummary
  <2>1. /\ sum.pc = "set" /\ summary' = sum.covered /\ sum' = [sum EXCEPT !.pc = "cut", !.covered = {}]
        /\ Mark(Crossing) /\ UNCHANGED <<history, turn, base, point, work, pc, rolling, owner>>
    BY <1>33 DEF StoreSummary, turnVars
  <2>2. /\ fate'.marks = fate.marks \cup Crossing /\ fate'.undone = fate.undone /\ fate'.noted = fate.noted
    BY <1>0, <1>c, <2>1, MarkIs
  <2>3. fate.marks = {} /\ Crossing = {}
    BY <1>f, <2>2
  <2>4. KeptInv /\ OthersInv /\ rolling = <<>> /\ pc \notin {"note", "cut", "restoreSummary"}
    BY <1>h, <1>i, <2>3
  <2>5. summary \subseteq summary'
    BY <2>1, <2>4 DEF OthersInv
  <2>6. sum'.pc = "cut" /\ sum'.keep = sum.keep
    BY <1>0, <2>1 DEF Sums
  <2>7. \A i \in Known' : Covered(i, Ids(history) \cup summary)'
    BY <2>1, <2>2, <2>4, <2>5 DEF KeptInv, Covered, Known
  <2>8. Captured => \A i \in Known' : owner'[i] = turn' \/ Covered(i, Ids(point.history) \cup point.summary)'
    BY <2>1, <2>2, <2>4 DEF KeptInv, Covered, Known
  <2>9. KeptInv'
    BY <2>1, <2>4, <2>5, <2>7, <2>8 DEF KeptInv, Captured
  <2>10. OthersInv'
    BY <2>1, <2>4, <2>6 DEF OthersInv
  <2> QED  BY <2>9, <2>10
<1>34. CASE TruncateRest
  <2>1. /\ sum.pc = "cut" /\ history' = LastOf(history, sum.keep) /\ sum' = Off
        /\ Mark(Crossing) /\ UNCHANGED <<summary, turn, base, point, work, pc, rolling, owner>>
    BY <1>34 DEF TruncateRest, turnVars
  <2>2. /\ fate'.marks = fate.marks \cup Crossing /\ fate'.undone = fate.undone /\ fate'.noted = fate.noted
    BY <1>0, <1>c, <2>1, MarkIs
  <2>3. fate.marks = {} /\ Crossing = {}
    BY <1>f, <2>2
  <2>4. KeptInv /\ OthersInv /\ rolling = <<>> /\ pc \notin {"note", "cut", "restoreSummary"}
    BY <1>h, <1>i, <2>3
  <2>5. sum.keep \in Nat
    BY <1>0, SumTypes
  <2>6. \A x \in Ids(history) : x \in Ids(history') \/ x \in summary
    <3>1. \A x \in Ids(history) : \/ x \in Ids(history')
                                  \/ \E i \in 1..Len(history) : i + sum.keep <= Len(history) /\ history[i].id = x
      BY <1>e, <2>1, <2>5, IdsLastOf
    <3>2. \A i \in 1..Len(history) : i + sum.keep <= Len(history) => history[i].id \in summary
      BY <2>1, <2>4 DEF OthersInv
    <3> QED  BY <3>1, <3>2
  <2>7. \A i \in Known' : Covered(i, Ids(history) \cup summary)'
    BY <2>1, <2>2, <2>4, <2>6 DEF KeptInv, Covered, Known
  <2>8. Captured => \A i \in Known' : owner'[i] = turn' \/ Covered(i, Ids(point.history) \cup point.summary)'
    BY <2>1, <2>2, <2>4 DEF KeptInv, Covered, Known
  <2>9. pc # "idle" => Own(history', base, turn)
    BY <1>0, <1>a, <2>1, <2>4, <2>5, OwnHistory DEF KeptInv
  <2>10. KeptInv'
    BY <2>1, <2>4, <2>7, <2>8, <2>9 DEF KeptInv, Captured
  <2>11. rolling' = <<>> /\ sum'.pc \notin {"read", "set", "cut"}
    BY <2>1, <2>4 DEF Off
  <2> QED  BY <2>10, <2>11, OthersOff
<1> QED
  BY <1>1, <1>2, <1>3, <1>4, <1>5, <1>6, <1>7, <1>8, <1>9, <1>10, <1>11, <1>12, <1>13, <1>14,
     <1>15, <1>16, <1>17, <1>18, <1>19, <1>20, <1>21, <1>22, <1>23, <1>24, <1>25, <1>26, <1>27,
     <1>28, <1>29, <1>30, <1>31, <1>32, <1>33, <1>34 DEF Next, RunTurn, Interfere, Summarize

-------------------------------------------------------------------------------
(* How a history is told *)

Tool(m) == m.role = "tool"

\* A result has the number of its assistant message plus its own: nothing else
\* is written while a batch is carried out.
Proper(m) ==
    /\ IF Tool(m) THEN m.calls = 0 /\ m.nr >= 1 /\ m.id = m.of + m.nr ELSE m.nr = 0
    /\ m.calls > 0 => m.role = "assistant"

\* Message p is the one in front of the n-th result of a.
Follows(a, n, p) == (n = 1 /\ p.id = a /\ p.calls > 0) \/ (Tool(p) /\ p.of = a)

\* A history is in the order in which its messages were written, no batch has
\* another message in it, and none has a gap, except for those in cut.
Told(h, cut) ==
    /\ \A i \in 1..Len(h) : Proper(h[i])
    /\ \A i, j \in 1..Len(h) : i < j => h[i].id < h[j].id
    /\ \A i, j \in 1..Len(h) : ~Tool(h[i]) /\ Tool(h[j]) => h[i].id <= h[j].of \/ h[j].id < h[i].id
    /\ \A i \in 1..Len(h) : i > 1 /\ Tool(h[i]) /\ h[i].of \notin cut => Follows(h[i].of, h[i].nr, h[i - 1])

\* The parts of such a history are such histories,
LEMMA ToldPart ==
    ASSUME NEW h, NEW g \in Seq(Msg), NEW cut, Told(g, cut), PartOf(h, g)
    PROVE  Told(h, cut)
<1>1. PICK d \in Nat : Len(h) + d <= Len(g) /\ \A i \in 1..Len(h) : h[i] = g[i + d]
  BY DEF PartOf
<1>2. h \in Seq(Msg) /\ Len(h) \in Nat /\ Len(g) \in Nat
  BY DEF PartOf
<1>3. \A i \in 1..Len(h) : i + d \in 1..Len(g) /\ i \in Nat
  BY <1>1, <1>2
<1>4. \A i \in 1..Len(h) : Proper(h[i])
  BY <1>1, <1>3 DEF Told
<1>5. \A i, j \in 1..Len(h) : i < j => h[i].id < h[j].id
  <2> SUFFICES ASSUME NEW i \in 1..Len(h), NEW j \in 1..Len(h), i < j
               PROVE  h[i].id < h[j].id
    OBVIOUS
  <2>1. i + d < j + d
    BY <1>3
  <2> QED  BY <1>1, <1>3, <2>1 DEF Told
<1>6. \A i, j \in 1..Len(h) : ~Tool(h[i]) /\ Tool(h[j]) => h[i].id <= h[j].of \/ h[j].id < h[i].id
  BY <1>1, <1>3 DEF Told
<1>7. \A i \in 1..Len(h) : i > 1 /\ Tool(h[i]) /\ h[i].of \notin cut => Follows(h[i].of, h[i].nr, h[i - 1])
  <2> SUFFICES ASSUME NEW i \in 1..Len(h), i > 1, Tool(h[i]), h[i].of \notin cut
               PROVE  Follows(h[i].of, h[i].nr, h[i - 1])
    OBVIOUS
  <2>1. i - 1 \in 1..Len(h) /\ (i - 1) + d = (i + d) - 1 /\ i + d > 1
    BY <1>2, <1>3
  <2>2. h[i] = g[i + d] /\ h[i - 1] = g[(i + d) - 1]
    BY <1>1, <2>1
  <2> QED  BY <1>3, <2>1, <2>2 DEF Told
<1> QED  BY <1>4, <1>5, <1>6, <1>7 DEF Told

\* so is the empty one,
LEMMA ToldEmpty == \A cut : Told(<<>>, cut)
BY DEF Told

\* and more batches may be cut.
LEMMA ToldMore ==
    ASSUME NEW h, NEW cut, NEW more, Told(h, cut), cut \subseteq more
    PROVE  Told(h, more)
BY DEF Told

\* A new message, which may be the next result of the batch that ends the history.
LEMMA ToldAppend ==
    ASSUME NEW h \in Seq(Msg), NEW m \in Msg, NEW cut, Told(h, cut), Proper(m),
           \A i \in 1..Len(h) : h[i].id < m.id,
           Tool(m) => \A i \in 1..Len(h) : ~Tool(h[i]) => h[i].id <= m.of,
           Tool(m) /\ m.of \notin cut => h = <<>> \/ Follows(m.of, m.nr, h[Len(h)])
    PROVE  Told(Append(h, m), cut)
<1> DEFINE g == Append(h, m)
           n == Len(h) + 1
<1>1. Len(g) = n /\ g[n] = m /\ Len(h) \in Nat /\ (\A i \in 1..Len(h) : g[i] = h[i])
  OBVIOUS
<1>2. n \in Nat /\ n - 1 = Len(h) /\ \A i \in 1..n : i \in Nat /\ (i = n \/ (i \in 1..Len(h) /\ i < n))
  BY <1>1
<1>3. \A i \in 1..Len(h) : h[i].id \in Nat /\ h[i].of \in Nat
  <2>1. \A i \in 1..Len(h) : h[i] \in Msg
    OBVIOUS
  <2> QED  BY <2>1 DEF Msg
<1>4. m.id \in Nat /\ m.of \in Nat
  BY DEF Msg
<1> HIDE DEF g, n
<1>5. \A i \in 1..n : Proper(g[i])
  BY <1>1, <1>2 DEF Told
<1>6. \A i, j \in 1..n : i < j => g[i].id < g[j].id
  BY <1>1, <1>2 DEF Told
<1>7. \A i, j \in 1..n : ~Tool(g[i]) /\ Tool(g[j]) => g[i].id <= g[j].of \/ g[j].id < g[i].id
  <2> SUFFICES ASSUME NEW i \in 1..n, NEW j \in 1..n, ~Tool(g[i]), Tool(g[j])
               PROVE  g[i].id <= g[j].of \/ g[j].id < g[i].id
    OBVIOUS
  <2>1. CASE i = n
    <3>1. j \in 1..Len(h)
      BY <1>2, <2>1
    <3> QED  BY <1>1, <2>1, <3>1
  <2>2. CASE i \in 1..Len(h) /\ j = n
    BY <1>1, <2>2
  <2>3. CASE i \in 1..Len(h) /\ j \in 1..Len(h)
    BY <1>1, <2>3 DEF Told
  <2> QED  BY <1>2, <2>1, <2>2, <2>3
<1>8. \A i \in 1..n : i > 1 /\ Tool(g[i]) /\ g[i].of \notin cut => Follows(g[i].of, g[i].nr, g[i - 1])
  <2> SUFFICES ASSUME NEW i \in 1..n, i > 1, Tool(g[i]), g[i].of \notin cut
               PROVE  Follows(g[i].of, g[i].nr, g[i - 1])
    OBVIOUS
  <2>1. i - 1 \in 1..Len(h)
    BY <1>1, <1>2
  <2>2. g[i - 1] = h[i - 1]
    BY <1>1, <2>1
  <2>3. CASE i = n
    <3>1. g[i] = m /\ g[i - 1] = h[Len(h)] /\ h # <<>>
      BY <1>1, <1>2, <2>1, <2>2, <2>3
    <3> QED  BY <3>1
  <2>4. CASE i \in 1..Len(h)
    <3>1. g[i] = h[i]
      BY <1>1, <2>4
    <3> QED  BY <2>2, <2>4, <3>1 DEF Told
  <2> QED  BY <1>2, <2>3, <2>4
<1> QED  BY <1>1, <1>5, <1>6, <1>7, <1>8 DEF Told, g

-------------------------------------------------------------------------------
(* What the first pass keeps of it *)

\* The k-th message belongs to the tool calls, or is a result behind those, of the i-th.
Leads(s, i, k) == i <= k /\ s[i].calls > 0 /\ \A l \in i + 1 .. k : Tool(s[l])

\* The calls of s[i] have no result in s: of the first n messages of h, one that
\* is no result comes behind it and in front of all that follows it in s.
Left(h, n, s, i) ==
    \E q \in 1..n : /\ ~Tool(h[q]) /\ s[i].id < h[q].id
                    /\ \A k \in i + 1 .. Len(s) : h[q].id < s[k].id

\* Calls at the end of s are those of message a, or have no result.
Ends(h, n, s, a) ==
    \A i \in 1..Len(s) : Leads(s, i, Len(s)) => s[i].id = a \/ Left(h, n, s, i)

\* What the first pass has kept of the first n messages of h.
Passed(h, n, s, cut) ==
    /\ \A k \in 1..Len(s) : \E q \in 1..n : s[k] = h[q]
    /\ \A i, j \in 1..Len(s) : i < j => s[i].id < s[j].id
    /\ \A k \in 1..Len(s) : Tool(s[k]) =>
          \E i \in 1..Len(s) : /\ i < k /\ Leads(s, i, k)
                               /\ s[k].of \in cut \/ s[i].id = s[k].of \/ Left(h, n, s, i)
    /\ n >= 1 => /\ Tool(h[n]) /\ h[n].of \notin cut => Ends(h, n, s, h[n].of)
                 /\ h[n].calls > 0 => Ends(h, n, s, h[n].id)

\* The end of a batch, as the code looks for it.
LEMMA InBlockIs ==
    ASSUME NEW s \in Seq(Msg)
    PROVE  InBlock(s) <=> \E i \in 1..Len(s) : Leads(s, i, Len(s))
<1>1. DOMAIN s = 1..Len(s) /\ Len(s) \in Nat
  OBVIOUS
<1>2. \A i \in 1..Len(s) : i <= Len(s)
  BY <1>1
<1> QED  BY <1>1, <1>2 DEF InBlock, Leads, Tool

\* Calls without a result stay so when the history goes on.
LEMMA LeftStays ==
    ASSUME NEW h \in Seq(Msg), NEW n \in Nat, n + 1 <= Len(h), NEW s \in Seq(Msg), NEW i \in 1..Len(s),
           Left(h, n, s, i), \A q \in 1..n : h[q].id < h[n + 1].id
    PROVE  Left(h, n + 1, s, i) /\ Left(h, n + 1, Append(s, h[n + 1]), i)
<1> DEFINE m == h[n + 1]
           t == Append(s, m)
<1>1. PICK q \in 1..n : ~Tool(h[q]) /\ s[i].id < h[q].id /\ \A k \in i + 1 .. Len(s) : h[q].id < s[k].id
  BY DEF Left
<1>2. q \in 1..(n + 1) /\ h[q].id < m.id
  OBVIOUS
<1>3. m \in Msg
  OBVIOUS
<1>4. Len(t) = Len(s) + 1 /\ t[Len(s) + 1] = m /\ Len(s) \in Nat /\ \A k \in 1..Len(s) : t[k] = s[k]
  BY <1>3
<1> HIDE DEF m, t
<1>5. \A k \in i + 1 .. Len(t) : h[q].id < t[k].id
  <2> SUFFICES ASSUME NEW k \in i + 1 .. Len(t)
               PROVE  h[q].id < t[k].id
    OBVIOUS
  <2>1. k = Len(s) + 1 \/ (k \in i + 1 .. Len(s) /\ k \in 1..Len(s))
    <3>1. i \in Int /\ i >= 1 /\ Len(s) \in Nat /\ Len(t) = Len(s) + 1
      BY <1>4
    <3>2. k \in Int /\ i + 1 <= k /\ k <= Len(s) + 1
      BY <3>1
    <3> QED  BY <3>1, <3>2
  <2> QED  BY <1>1, <1>2, <1>4, <2>1
<1>6. t[i] = s[i]
  BY <1>4
<1> QED  BY <1>1, <1>2, <1>5, <1>6 DEF Left, m, t

\* What leads what does not change when the sequence is extended,
LEMMA LeadsStays ==
    ASSUME NEW s \in Seq(Msg), NEW m \in Msg, NEW i \in 1..Len(s), NEW k \in 1..Len(s)
    PROVE  Leads(Append(s, m), i, k) <=> Leads(s, i, k)
<1> DEFINE t == Append(s, m)
<1>1. Len(s) \in Nat /\ \A l \in 1..Len(s) : t[l] = s[l]
  OBVIOUS
<1>2. \A l \in i + 1 .. k : l \in 1..Len(s)
  BY <1>1
<1> HIDE DEF t
<1>3. t[i] = s[i] /\ \A l \in i + 1 .. k : t[l] = s[l]
  BY <1>1, <1>2
<1> QED  BY <1>3 DEF Leads, t

\* and what leads the new message, a result, has led the last one.
LEMMA LeadsNew ==
    ASSUME NEW s \in Seq(Msg), NEW m \in Msg, NEW i \in 1..Len(s)
    PROVE  Leads(Append(s, m), i, Len(s) + 1) <=> Tool(m) /\ Leads(s, i, Len(s))
<1> DEFINE t == Append(s, m)
<1>1. Len(s) \in Nat /\ t[Len(s) + 1] = m /\ \A l \in 1..Len(s) : t[l] = s[l]
  OBVIOUS
<1> HIDE DEF t
<1>2. t[i] = s[i] /\ i <= Len(s) + 1 /\ i <= Len(s)
  BY <1>1
<1>3. (\A l \in i + 1 .. Len(s) + 1 : Tool(t[l])) <=> Tool(m) /\ \A l \in i + 1 .. Len(s) : Tool(s[l])
  <2>1. Len(s) + 1 \in i + 1 .. Len(s) + 1
    BY <1>1
  <2>2. \A l \in i + 1 .. Len(s) : l \in i + 1 .. Len(s) + 1 /\ l \in 1..Len(s)
    BY <1>1
  <2>3. \A l \in i + 1 .. Len(s) + 1 : l = Len(s) + 1 \/ l \in i + 1 .. Len(s)
    BY <1>1
  <2> QED  BY <1>1, <2>1, <2>2, <2>3
<1> QED  BY <1>2, <1>3 DEF Leads, t

\* Each step of the first pass keeps that.
LEMMA PassKeeps ==
    ASSUME NEW h \in Seq(Msg), NEW cut, Told(h, cut), NEW n \in Nat, n + 1 <= Len(h),
           NEW s \in Seq(Msg), Passed(h, n, s, cut)
    PROVE  Passed(h, n + 1, KeepIfFits(s, h[n + 1]), cut)
<1> DEFINE m == h[n + 1]
           t == Append(s, m)
<1>1. n + 1 \in 1..Len(h) /\ 1..n \subseteq 1..Len(h) /\ 1..n \subseteq 1..(n + 1) /\ n + 1 \in 1..(n + 1)
  OBVIOUS
<1>2. m \in Msg /\ Proper(m) /\ \A q \in 1..n : h[q].id < m.id
  <2>1. \A q \in 1..n : q \in 1..Len(h) /\ q < n + 1
    BY <1>1
  <2> QED  BY <1>1, <2>1 DEF Told
<1>3. \A k \in 1..Len(s) : s[k].id < m.id
  BY <1>2 DEF Passed
<1>4. Len(t) = Len(s) + 1 /\ t[Len(s) + 1] = m /\ Len(s) \in Nat /\ (\A k \in 1..Len(s) : t[k] = s[k])
  BY <1>2
<1>5. \A k \in 1..Len(t) : k \in Nat /\ (k = Len(s) + 1 \/ (k \in 1..Len(s) /\ k < Len(s) + 1))
  BY <1>4
<1>6. \A i \in 1..Len(s) : Left(h, n, s, i) => Left(h, n + 1, s, i) /\ Left(h, n + 1, t, i)
  BY <1>2, LeftStays
<1>7. \A i, k \in 1..Len(s) : Leads(t, i, k) <=> Leads(s, i, k)
  BY <1>2, LeadsStays
<1>8. \A i \in 1..Len(s) : Leads(t, i, Len(s) + 1) <=> Tool(m) /\ Leads(s, i, Len(s))
  BY <1>2, LeadsNew
<1>9. Fits(s, m) <=> IF Tool(m) THEN \E i \in 1..Len(s) : Leads(s, i, Len(s))
                     ELSE m.calls > 0 => s # <<>> /\ s[Len(s)].role \in {"user", "tool"}
  BY InBlockIs DEF Fits, Tool
<1>10. \A i \in 1..Len(s) : n \in 1..n /\ n >= 1
  BY DEF Passed
<1>11. ASSUME Tool(m), m.of \notin cut, NEW i \in 1..Len(s)
       PROVE  Ends(h, n, s, m.of)
  <2>1. n \in 1..n /\ n >= 1
    BY <1>10
  <2>2. Follows(m.of, m.nr, h[n])
    <3>1. n + 1 > 1 /\ (n + 1) - 1 = n
      BY <2>1
    <3> QED  BY <1>1, <1>11, <3>1 DEF Told
  <2> QED  BY <1>11, <2>1, <2>2 DEF Follows, Passed
<1>12. \A k \in 1..Len(s) : \E q \in 1..(n + 1) : s[k] = h[q]
  BY <1>1 DEF Passed
<1>13. \A k \in 1..Len(s) : Tool(s[k]) =>
          \E i \in 1..Len(s) : /\ i < k /\ Leads(s, i, k)
                               /\ s[k].of \in cut \/ s[i].id = s[k].of \/ Left(h, n, s, i)
  BY DEF Passed
<1>14. \A i, j \in 1..Len(s) : i < j => s[i].id < s[j].id
  BY DEF Passed
<1>20. CASE Fits(s, m)
  <2>1. \A k \in 1..Len(t) : \E q \in 1..(n + 1) : t[k] = h[q]
    <3> SUFFICES ASSUME NEW k \in 1..Len(t)
                 PROVE  \E q \in 1..(n + 1) : t[k] = h[q]
      OBVIOUS
    <3>1. CASE k = Len(s) + 1
      BY <1>1, <1>4, <3>1
    <3>2. CASE k \in 1..Len(s)
      BY <1>4, <1>12, <3>2
    <3> QED  BY <1>5, <3>1, <3>2
  <2>2. \A i, j \in 1..Len(t) : i < j => t[i].id < t[j].id
    <3> SUFFICES ASSUME NEW i \in 1..Len(t), NEW j \in 1..Len(t), i < j
                 PROVE  t[i].id < t[j].id
      OBVIOUS
    <3>1. i \in 1..Len(s)
      BY <1>4
    <3>2. CASE j = Len(s) + 1
      BY <1>3, <1>4, <3>1, <3>2
    <3>3. CASE j \in 1..Len(s)
      BY <1>4, <1>14, <3>1, <3>3
    <3> QED  BY <1>5, <3>2, <3>3
  <2>3. \A k \in 1..Len(t) : Tool(t[k]) =>
          \E i \in 1..Len(t) : /\ i < k /\ Leads(t, i, k)
                               /\ t[k].of \in cut \/ t[i].id = t[k].of \/ Left(h, n + 1, t, i)
    <3> SUFFICES ASSUME NEW k \in 1..Len(t), Tool(t[k])
                 PROVE  \E i \in 1..Len(t) :
                           /\ i < k /\ Leads(t, i, k)
                           /\ t[k].of \in cut \/ t[i].id = t[k].of \/ Left(h, n + 1, t, i)
      OBVIOUS
    <3>0. \A i \in 1..Len(s) : i \in 1..Len(t) /\ i < Len(s) + 1
      BY <1>4
    <3>1. CASE k = Len(s) + 1
      <4>1. Tool(m) /\ t[k] = m
        BY <1>4, <3>1
      <4>2. PICK i \in 1..Len(s) : Leads(s, i, Len(s))
        BY <1>9, <1>20, <4>1
      <4>3. Leads(t, i, k) /\ i < k /\ i \in 1..Len(t) /\ t[i] = s[i]
        BY <1>4, <1>8, <3>0, <3>1, <4>1, <4>2
      <4>4. m.of \in cut \/ s[i].id = m.of \/ Left(h, n, s, i)
        BY <1>11, <4>1, <4>2 DEF Ends
      <4> QED  BY <1>6, <4>1, <4>3, <4>4
    <3>2. CASE k \in 1..Len(s)
      <4>1. t[k] = s[k]
        BY <1>4, <3>2
      <4>2. PICK i \in 1..Len(s) : /\ i < k /\ Leads(s, i, k)
                                   /\ s[k].of \in cut \/ s[i].id = s[k].of \/ Left(h, n, s, i)
        BY <1>13, <3>2, <4>1
      <4>3. Leads(t, i, k) /\ i \in 1..Len(t) /\ t[i] = s[i]
        BY <1>4, <1>7, <3>0, <3>2, <4>2
      <4> QED  BY <1>6, <4>1, <4>2, <4>3
    <3> QED  BY <1>5, <3>1, <3>2
  <2>4. Tool(m) /\ m.of \notin cut => Ends(h, n + 1, t, m.of)
    <3> SUFFICES ASSUME Tool(m), m.of \notin cut, NEW i \in 1..Len(t), Leads(t, i, Len(t))
                 PROVE  t[i].id = m.of \/ Left(h, n + 1, t, i)
      BY DEF Ends
    <3>1. i # Len(s) + 1
      BY <1>2, <1>4 DEF Leads, Proper
    <3>2. i \in 1..Len(s)
      BY <1>5, <3>1
    <3>3. Leads(s, i, Len(s)) /\ t[i] = s[i]
      BY <1>4, <1>8, <3>2
    <3> QED  BY <1>6, <1>11, <3>2, <3>3 DEF Ends
  <2>5. m.calls > 0 => Ends(h, n + 1, t, m.id)
    <3> SUFFICES ASSUME m.calls > 0, NEW i \in 1..Len(t), Leads(t, i, Len(t))
                 PROVE  t[i].id = m.id \/ Left(h, n + 1, t, i)
      BY DEF Ends
    <3>1. ~Tool(m)
      BY <1>2 DEF Proper
    <3>2. i = Len(s) + 1
      BY <1>4, <1>5, <1>8, <3>1
    <3> QED  BY <1>4, <3>2
  <2>6. KeepIfFits(s, m) = t
    BY <1>20 DEF KeepIfFits
  <2>7. Passed(h, n + 1, t, cut)
    <3> HIDE DEF t
    <3> QED  BY <2>1, <2>2, <2>3, <2>4, <2>5, Zenon DEF Passed
  <2> QED  BY <2>6, <2>7, Zenon
<1>21. CASE ~Fits(s, m)
  <2>1. \A k \in 1..Len(s) : Tool(s[k]) =>
          \E i \in 1..Len(s) : /\ i < k /\ Leads(s, i, k)
                               /\ s[k].of \in cut \/ s[i].id = s[k].of \/ Left(h, n + 1, s, i)
    BY <1>6, <1>13
  <2>2. Tool(m) /\ m.of \notin cut => Ends(h, n + 1, s, m.of)
    BY <1>9, <1>21 DEF Ends
  <2>3. m.calls > 0 => Ends(h, n + 1, s, m.id)
    <3> SUFFICES ASSUME m.calls > 0, NEW i \in 1..Len(s), Leads(s, i, Len(s))
                 PROVE  Left(h, n + 1, s, i)
      BY DEF Ends
    <3>1. ~Tool(m)
      BY <1>2 DEF Proper
    <3>2. s # <<>> /\ Len(s) \in 1..Len(s) /\ i <= Len(s)
      BY <1>4
    <3>3. ~Tool(s[Len(s)])
      BY <1>9, <1>21, <3>1, <3>2 DEF Tool
    <3>4. i = Len(s)
      <4>1. ~(Len(s) \in i + 1 .. Len(s))
        BY <3>3 DEF Leads
      <4> QED  BY <1>4, <3>2, <4>1
    <3>5. \A k \in i + 1 .. Len(s) : FALSE
      BY <1>4, <3>4
    <3> QED  BY <1>1, <1>3, <3>1, <3>5 DEF Left
  <2>4. KeepIfFits(s, m) = s
    BY <1>21 DEF KeepIfFits
  <2> QED  BY <1>12, <1>14, <2>1, <2>2, <2>3, <2>4 DEF Passed
<1> QED  BY <1>20, <1>21

\* What the first pass leaves of a history.
LEMMA FirstPassTold ==
    ASSUME NEW h \in Seq(Msg), NEW cut, Told(h, cut)
    PROVE  Passed(h, Len(h), FirstPass(h), cut)
<1>1. PICK p : Passes(h, Len(h), p) /\ FirstPass(h) = p[Len(h)]
  BY FirstPassIs
<1> DEFINE G == {n \in Nat : n <= Len(h) => p[n] \in Seq(Msg) /\ Passed(h, n, p[n], cut)}
<1>2. Len(h) \in Nat
  OBVIOUS
<1>3. 0 \in G
  <2>1. p[0] = <<>>
    BY <1>1, <1>2 DEF Passes
  <2>2. <<>> \in Seq(Msg) /\ Passed(h, 0, <<>>, cut)
    BY DEF Passed
  <2> QED  BY <2>1, <2>2
<1>4. ASSUME NEW n \in Nat, n \in G
      PROVE  n + 1 \in G
  <2> SUFFICES ASSUME n + 1 <= Len(h)
               PROVE  p[n + 1] \in Seq(Msg) /\ Passed(h, n + 1, p[n + 1], cut)
    OBVIOUS
  <2>1. p[n] \in Seq(Msg) /\ Passed(h, n, p[n], cut) /\ h[n + 1] \in Msg
    BY <1>2, <1>4
  <2>2. n + 1 \in 0..Len(h) /\ n + 1 # 0 /\ (n + 1) - 1 = n
    BY <1>2
  <2>3. p[n + 1] = KeepIfFits(p[n], h[n + 1])
    BY <1>1, <2>2 DEF Passes
  <2>4. Append(p[n], h[n + 1]) \in Seq(Msg)
    BY <2>1
  <2>5. Passed(h, n + 1, p[n + 1], cut)
    BY <2>1, <2>3, PassKeeps
  <2> QED  BY <2>1, <2>3, <2>4, <2>5 DEF KeepIfFits
<1>5. Nat \subseteq G
  <2> HIDE DEF G
  <2> QED  BY <1>3, <1>4, NumberInduction
<1> QED  BY <1>1, <1>2, <1>5

-------------------------------------------------------------------------------
(* What the second pass drops *)

\* A greater number of a finite set has more numbers in front of it.
LEMMA BelowLess ==
    ASSUME NEW S, S \subseteq Nat, IsFiniteSet(S), NEW x \in S, NEW y \in S, x < y
    PROVE  /\ Cardinality(Below(S, x)) \in Nat /\ Cardinality(Below(S, y)) \in Nat
           /\ Cardinality(Below(S, x)) < Cardinality(Below(S, y))
<1>1. IsFiniteSet(Below(S, y)) /\ IsFiniteSet(Below(S, x))
  <2>1. Below(S, y) \in SUBSET S /\ Below(S, x) \in SUBSET S
    BY DEF Below
  <2> QED  BY <2>1, FS_Subset
<1>2. Below(S, x) \subseteq Below(S, y) /\ x \in Below(S, y) /\ x \notin Below(S, x)
  <2>1. x \in Nat /\ y \in Nat /\ ~(x < x) /\ \A i \in S : i < x => i < y
    OBVIOUS
  <2> QED  BY <2>1 DEF Below
<1>3. Cardinality(Below(S, x)) \in Nat /\ Cardinality(Below(S, y)) \in Nat
  BY <1>1, FS_CardinalityType
<1>4. Cardinality(Below(S, x)) <= Cardinality(Below(S, y)) /\ Cardinality(Below(S, y)) # Cardinality(Below(S, x))
  BY <1>1, <1>2, FS_Subset
<1> QED  BY <1>3, <1>4

\* Nth numbers a finite set in order, and leaves no number out.
LEMMA NthOrder ==
    ASSUME NEW S, S \subseteq Nat, IsFiniteSet(S)
    PROVE  /\ \A k, l \in 1..Cardinality(S) : k < l => Nth(S, k - 1) < Nth(S, l - 1)
           /\ \A x \in S : \E k \in 1..Cardinality(S) : Nth(S, k - 1) = x
<1>0. Cardinality(S) \in Nat
  BY FS_CardinalityType
<1>1. \A k \in 1..Cardinality(S) : Nth(S, k - 1) \in S /\ Cardinality(Below(S, Nth(S, k - 1))) = k - 1
  <2> SUFFICES ASSUME NEW k \in 1..Cardinality(S)
               PROVE  Nth(S, k - 1) \in S /\ Cardinality(Below(S, Nth(S, k - 1))) = k - 1
    OBVIOUS
  <2>1. k - 1 \in Nat /\ k - 1 < Cardinality(S)
    BY <1>0
  <2> QED  BY <2>1, NthIs
<1>2. ASSUME NEW k \in 1..Cardinality(S), NEW l \in 1..Cardinality(S), k < l
      PROVE  Nth(S, k - 1) < Nth(S, l - 1)
  <2> DEFINE a == Nth(S, k - 1)
             b == Nth(S, l - 1)
  <2>1. a \in S /\ b \in S /\ Cardinality(Below(S, a)) = k - 1 /\ Cardinality(Below(S, b)) = l - 1
    BY <1>1
  <2> HIDE DEF a, b
  <2>2. a # b
    BY <1>0, <1>2, <2>1
  <2>3. ~(b < a)
    <3> SUFFICES ASSUME b < a
                 PROVE  FALSE
      OBVIOUS
    <3>1. l - 1 < k - 1
      BY <2>1, BelowLess
    <3> QED  BY <1>0, <1>2, <3>1
  <2>4. a \in Nat /\ b \in Nat
    BY <2>1
  <2>5. a < b
    BY <2>2, <2>3, <2>4
  <2> QED  BY <2>5 DEF a, b
<1>3. ASSUME NEW x \in S
      PROVE  \E k \in 1..Cardinality(S) : Nth(S, k - 1) = x
  <2> DEFINE B == Below(S, x)
             k == Cardinality(B) + 1
  <2>1. B \in SUBSET S /\ x \notin B
    BY DEF Below
  <2>2. IsFiniteSet(B) /\ Cardinality(B) \in Nat /\ Cardinality(B) <= Cardinality(S)
        /\ Cardinality(B) # Cardinality(S)
    <3>1. IsFiniteSet(B) /\ Cardinality(B) <= Cardinality(S) /\ (Cardinality(S) = Cardinality(B) => S = B)
      BY <2>1, FS_Subset
    <3>2. S # B
      BY <2>1
    <3> QED  BY <3>1, <3>2, FS_CardinalityType
  <2>3. k \in 1..Cardinality(S) /\ k - 1 = Cardinality(B)
    BY <1>0, <2>2
  <2> DEFINE y == Nth(S, k - 1)
  <2>4. y \in S /\ Cardinality(Below(S, y)) = Cardinality(B)
    BY <1>1, <2>3
  <2> HIDE DEF y
  <2>5. ~(x < y) /\ ~(y < x)
    <3>1. ~(x < y)
      <4> SUFFICES ASSUME x < y
                   PROVE  FALSE
        OBVIOUS
      <4>1. Cardinality(Below(S, x)) < Cardinality(Below(S, y))
        BY <2>4, BelowLess
      <4> QED  BY <2>2, <2>4, <4>1
    <3>2. ~(y < x)
      <4> SUFFICES ASSUME y < x
                   PROVE  FALSE
        OBVIOUS
      <4>1. Cardinality(Below(S, y)) < Cardinality(Below(S, x))
        BY <2>4, BelowLess
      <4> QED  BY <2>2, <2>4, <4>1
    <3> QED  BY <3>1, <3>2
  <2>6. x \in Nat /\ y \in Nat
    BY <2>4
  <2>7. x = y
    BY <2>5, <2>6
  <2> QED  BY <2>3, <2>7 DEF y
<1> QED  BY <1>2, <1>3

\* Every call of the i-th message has its result behind it,
Owed(s, i) ==
    s[i].calls > 0 => \A c \in 1..s[i].calls :
        \E j \in 1..Len(s) : i < j /\ Leads(s, i, j) /\ s[j].of = s[i].id /\ s[j].nr = c

\* and the i-th message, a result, is behind its call.
Fitting(s, i, cut) ==
    Tool(s[i]) /\ s[i].of \notin cut => \E j \in 1..Len(s) : j < i /\ Leads(s, j, i) /\ s[j].id = s[i].of

\* A conversation that a provider accepts.
Sound(s, cut) == \A i \in 1..Len(s) : Owed(s, i) /\ Fitting(s, i, cut)

\* Owed is what the code checks of a message with calls.
LEMMA AnsweredIs ==
    ASSUME NEW s \in Seq(Msg), NEW i \in 1..Len(s), s[i].calls > 0
    PROVE  /\ Block(s, i) = {j \in 1..Len(s) : i < j /\ Leads(s, i, j)}
           /\ Answered(s, i) <=> Owed(s, i)
<1>1. Len(s) \in Nat /\ i \in Nat
  OBVIOUS
<1>2. Block(s, i) = {j \in 1..Len(s) : i < j /\ Leads(s, i, j)}
  <2>1. i + 1 .. Len(s) = {j \in 1..Len(s) : i < j}
    BY <1>1
  <2>2. \A j \in i + 1 .. Len(s) : (\A l \in i + 1 .. j : s[l].role = "tool") <=> Leads(s, i, j)
    BY <1>1 DEF Leads, Tool
  <2> QED  BY <2>1, <2>2 DEF Block
<1>3. Answered(s, i) <=> Owed(s, i)
  BY <1>2 DEF Answered, Owed
<1> QED  BY <1>2, <1>3

\* A message with calls is none of the results, and a result has one leader.
LEMMA OneLeader ==
    ASSUME NEW s \in Seq(Msg), \A k \in 1..Len(s) : Proper(s[k]),
           NEW i \in 1..Len(s), NEW j \in 1..Len(s), NEW k \in 1..Len(s),
           i < k, j < k, Leads(s, i, k), Leads(s, j, k)
    PROVE  i = j
<1>1. i \in Nat /\ j \in Nat /\ k \in Nat
  OBVIOUS
<1>2. ~Tool(s[i]) /\ ~Tool(s[j])
  BY DEF Leads, Proper
<1>3. ~(i < j)
  <2> SUFFICES ASSUME i < j
               PROVE  FALSE
    OBVIOUS
  <2>1. j \in i + 1 .. k
    BY <1>1
  <2> QED  BY <1>2, <2>1 DEF Leads
<1>4. ~(j < i)
  <2> SUFFICES ASSUME j < i
               PROVE  FALSE
    OBVIOUS
  <2>1. i \in j + 1 .. k
    BY <1>1
  <2> QED  BY <1>2, <2>1 DEF Leads
<1> QED  BY <1>1, <1>3, <1>4

\* Calls that are left without a result are not answered.
LEMMA LeftUnanswered ==
    ASSUME NEW h \in Seq(Msg), NEW cut, Told(h, cut), NEW s \in Seq(Msg), Passed(h, Len(h), s, cut),
           NEW i \in 1..Len(s), s[i].calls > 0, Left(h, Len(h), s, i)
    PROVE  ~Owed(s, i)
<1> SUFFICES ASSUME Owed(s, i)
             PROVE  FALSE
  OBVIOUS
<1>1. s[i] \in Msg
  OBVIOUS
<1>2. 1 \in 1..s[i].calls
  BY <1>1 DEF Msg
<1>3. PICK j \in 1..Len(s) : i < j /\ Leads(s, i, j) /\ s[j].of = s[i].id
  BY <1>2 DEF Owed
<1>4. PICK q \in 1..Len(h) : ~Tool(h[q]) /\ s[i].id < h[q].id /\ \A k \in i + 1 .. Len(s) : h[q].id < s[k].id
  BY DEF Left
<1>5. j \in i + 1 .. Len(s) /\ j \in i + 1 .. j
  BY <1>3
<1>6. Tool(s[j]) /\ h[q].id < s[j].id
  BY <1>3, <1>4, <1>5 DEF Leads
<1>7. PICK r \in 1..Len(h) : s[j] = h[r]
  BY DEF Passed
<1>8. h[q].id <= s[j].of \/ s[j].id < h[q].id
  BY <1>4, <1>6, <1>7 DEF Told
<1>9. h[q].id \in Nat /\ s[j].id \in Nat /\ s[i].id \in Nat
  <2>1. h[q] \in Msg /\ s[j] \in Msg
    OBVIOUS
  <2> QED  BY <1>1, <2>1 DEF Msg
<1> QED  BY <1>3, <1>4, <1>6, <1>8, <1>9

\* What the second pass drops: the calls that are not answered, with the results
\* that are there, and nothing else.
LEMMA RestIs ==
    ASSUME NEW h \in Seq(Msg), NEW cut, Told(h, cut), NEW s \in Seq(Msg), Passed(h, Len(h), s, cut)
    PROVE  /\ \A k \in 1..Len(s) : Proper(s[k])
           /\ \A i \in 1..Len(s) : s[i].calls > 0 => (i \in Rest(s) <=> Owed(s, i))
           /\ \A i, k \in 1..Len(s) : i < k /\ Leads(s, i, k) => (i \in Rest(s) <=> k \in Rest(s))
<1>1. \A k \in 1..Len(s) : Proper(s[k]) /\ s[k] \in Msg
  BY DEF Passed, Told
<1>2. DOMAIN s = 1..Len(s) /\ Len(s) \in Nat
  OBVIOUS
<1> DEFINE Torn == {i \in 1..Len(s) : s[i].calls > 0 /\ ~Owed(s, i)}
<1>3. Torn = {i \in DOMAIN s : s[i].calls > 0 /\ ~Answered(s, i)}
  BY <1>2, AnsweredIs
<1>4. Out(s) = Torn \cup UNION {Block(s, i) : i \in Torn}
  BY <1>3 DEF Out
<1>5. Out(s) = Torn \cup {k \in 1..Len(s) : \E i \in Torn : i < k /\ Leads(s, i, k)}
  <2>1. \A i \in Torn : Block(s, i) = {j \in 1..Len(s) : i < j /\ Leads(s, i, j)}
    BY AnsweredIs
  <2> QED  BY <1>4, <2>1
<1> HIDE DEF Torn
<1>6. Torn \subseteq 1..Len(s) /\ \A i \in Torn : s[i].calls > 0 /\ ~Owed(s, i)
  BY DEF Torn
<1>7. \A i, k \in 1..Len(s) : i < k /\ Leads(s, i, k) => Tool(s[k]) /\ s[k].calls = 0 /\ ~Tool(s[i]) /\ s[i].calls > 0
  <2> SUFFICES ASSUME NEW i \in 1..Len(s), NEW k \in 1..Len(s), i < k, Leads(s, i, k)
               PROVE  Tool(s[k]) /\ s[k].calls = 0 /\ ~Tool(s[i]) /\ s[i].calls > 0
    OBVIOUS
  <2>1. k \in i + 1 .. k
    OBVIOUS
  <2> QED  BY <1>1, <2>1 DEF Leads, Proper
<1>8. Again(s) = {}
  <2> SUFFICES ASSUME NEW j \in Again(s)
               PROVE  FALSE
    OBVIOUS
  <2>1. j \in 1..Len(s) /\ Tool(s[j])
    BY <1>2 DEF Again, Tool
  <2>2. PICK i \in 1 .. j - 1 : s[i].of = s[j].of /\ s[i].nr = s[j].nr
    BY DEF Again
  <2>3. i \in 1..Len(s) /\ i < j
    BY <1>2, <2>1, <2>2
  <2>4. s[j].nr >= 1 /\ s[j].id = s[j].of + s[j].nr
    BY <1>1, <2>1 DEF Proper
  <2>5. Tool(s[i]) /\ s[i].id = s[i].of + s[i].nr
    BY <1>1, <2>2, <2>3, <2>4 DEF Proper
  <2>6. s[i].id < s[j].id
    BY <2>1, <2>3 DEF Passed
  <2>7. s[j].id \in Nat
    BY <1>1, <2>1 DEF Msg
  <2> QED  BY <2>2, <2>4, <2>5, <2>6, <2>7
<1>9. Rest(s) = (1..Len(s)) \ Out(s)
  BY <1>2, <1>8 DEF Rest
<1>10. ASSUME NEW i \in 1..Len(s), s[i].calls > 0
       PROVE  i \in Rest(s) <=> Owed(s, i)
  <2>0. s[i].calls # 0
    BY <1>10
  <2>1. i \in Out(s) <=> i \in Torn
    BY <1>5, <1>6, <1>7, <2>0
  <2> QED  BY <1>9, <1>10, <2>1 DEF Torn
<1>11. ASSUME NEW i \in 1..Len(s), NEW k \in 1..Len(s), i < k, Leads(s, i, k)
       PROVE  i \in Rest(s) <=> k \in Rest(s)
  <2>1. k \notin Torn /\ s[k].calls = 0 /\ s[i].calls > 0 /\ s[i].calls # 0
    BY <1>6, <1>7, <1>11
  <2>2. i \in Out(s) <=> i \in Torn
    BY <1>5, <1>6, <1>7, <2>1
  <2>3. \A j \in Torn : j < k /\ Leads(s, j, k) => j = i
    BY <1>1, <1>6, <1>11, OneLeader
  <2>4. k \in Out(s) <=> i \in Torn
    BY <1>5, <1>11, <2>1, <2>3
  <2> QED  BY <1>9, <2>2, <2>4
<1> QED  BY <1>1, <1>10, <1>11

\* A choice of messages in their order keeps what leads what.
LEMMA LeadsChosen ==
    ASSUME NEW s \in Seq(Msg), NEW c \in Nat, NEW e \in [1..c -> 1..Len(s)],
           \A k, l \in 1..c : k < l => e[k] < e[l],
           NEW r, r = [k \in 1..c |-> s[e[k]]],
           NEW j \in 1..c, NEW k \in 1..c, j < k, Leads(s, e[j], e[k])
    PROVE  Leads(r, j, k)
<1>1. \A l \in 1..c : r[l] = s[e[l]] /\ e[l] \in Nat
  OBVIOUS
<1>2. \A l \in j + 1 .. k : Tool(r[l])
  <2> SUFFICES ASSUME NEW l \in j + 1 .. k
               PROVE  Tool(r[l])
    OBVIOUS
  <2>1. l \in 1..c /\ j < l /\ (l = k \/ l < k)
    OBVIOUS
  <2>2. e[j] < e[l] /\ (e[l] = e[k] \/ e[l] < e[k])
    BY <2>1
  <2>3. e[l] \in e[j] + 1 .. e[k]
    BY <1>1, <2>1, <2>2
  <2> QED  BY <1>1, <2>1, <2>3 DEF Leads
<1>3. s[e[j]].calls > 0
  BY DEF Leads
<1>4. r[j].calls > 0 /\ j <= k
  BY <1>1, <1>3
<1> QED  BY <1>2, <1>4 DEF Leads

\* sanitizeHistoryForProvider makes a conversation that a provider accepts of every
\* history that can occur, with batches cut off in front, in the middle or behind.
THEOREM SanitizeSound ==
    ASSUME NEW h \in Seq(Msg), NEW cut, Told(h, cut)
    PROVE  Sound(Sanitize(h), cut)
<1> DEFINE s == FirstPass(h)
           R == Rest(s)
           c == Cardinality(R)
           e == [k \in 1..c |-> Nth(R, k - 1)]
           r == Sanitize(h)
<1>1. s \in Seq(Msg) /\ Passed(h, Len(h), s, cut)
  BY FirstPassType, FirstPassTold
<1>2. /\ R \subseteq 1..Len(s) /\ R \subseteq Nat /\ IsFiniteSet(R) /\ c \in Nat
      /\ r = [i \in 1 .. c |-> s[Nth(R, i - 1)]]
      /\ \A k \in 1 .. c : Nth(R, k - 1) \in R
  BY SanitizeIs
<1>3. /\ \A k \in 1..Len(s) : Proper(s[k])
      /\ \A i \in 1..Len(s) : s[i].calls > 0 => (i \in R <=> Owed(s, i))
      /\ \A i, k \in 1..Len(s) : i < k /\ Leads(s, i, k) => (i \in R <=> k \in R)
  BY <1>1, RestIs
<1>4. \A i \in 1..Len(s) : s[i].calls > 0 /\ Left(h, Len(h), s, i) => i \notin R
  BY <1>1, <1>3, LeftUnanswered
<1> HIDE DEF s, R
<1>5. /\ \A k, l \in 1..c : k < l => Nth(R, k - 1) < Nth(R, l - 1)
      /\ \A x \in R : \E k \in 1..c : Nth(R, k - 1) = x
  BY <1>2, NthOrder
<1> HIDE DEF c
<1>6. /\ \A k, l \in 1..c : k < l => e[k] < e[l]
      /\ \A x \in R : \E k \in 1..c : e[k] = x
  BY <1>5
<1>7. e \in [1..c -> 1..Len(s)] /\ \A k \in 1..c : e[k] \in R
  BY <1>2
<1>8. r = [k \in 1..c |-> s[e[k]]]
  BY <1>2
<1> HIDE DEF e, r
<1>9. Len(r) = c /\ \A k \in 1..c : r[k] = s[e[k]]
  BY <1>2, <1>8
<1>10. \A k, l \in 1..c : e[k] < e[l] => k < l
  <2> SUFFICES ASSUME NEW k \in 1..c, NEW l \in 1..c, e[k] < e[l]
               PROVE  k < l
    OBVIOUS
  <2>1. e[k] \in Nat /\ e[l] \in Nat
    BY <1>2, <1>7
  <2>2. ~(l < k) /\ l # k
    BY <1>6, <2>1
  <2> QED  BY <1>2, <2>2
<1>11. \A j, k \in 1..c : j < k /\ Leads(s, e[j], e[k]) => Leads(r, j, k)
  BY <1>1, <1>2, <1>6, <1>7, <1>8, LeadsChosen
<1>12. ASSUME NEW k \in 1..c, r[k].calls > 0, NEW n \in 1..r[k].calls
       PROVE  \E l \in 1..c : k < l /\ Leads(r, k, l) /\ r[l].of = r[k].id /\ r[l].nr = n
  <2>1. e[k] \in 1..Len(s) /\ e[k] \in R /\ r[k] = s[e[k]]
    BY <1>7, <1>9
  <2>2. PICK j \in 1..Len(s) : e[k] < j /\ Leads(s, e[k], j) /\ s[j].of = s[e[k]].id /\ s[j].nr = n
    BY <1>3, <1>12, <2>1 DEF Owed
  <2>3. j \in R
    BY <1>3, <2>1, <2>2
  <2>4. PICK l \in 1..c : e[l] = j
    BY <1>6, <2>3
  <2>5. k < l /\ r[l] = s[j]
    BY <1>9, <1>10, <2>2, <2>4
  <2> QED  BY <1>11, <2>1, <2>2, <2>4, <2>5
<1>13. ASSUME NEW k \in 1..c, Tool(r[k]), r[k].of \notin cut
       PROVE  \E j \in 1..c : j < k /\ Leads(r, j, k) /\ r[j].id = r[k].of
  <2>1. e[k] \in 1..Len(s) /\ e[k] \in R /\ r[k] = s[e[k]]
    BY <1>7, <1>9
  <2>2. PICK i \in 1..Len(s) : /\ i < e[k] /\ Leads(s, i, e[k])
                               /\ s[i].id = r[k].of \/ Left(h, Len(h), s, i)
    BY <1>1, <1>13, <2>1 DEF Passed
  <2>3. i \in R
    BY <1>3, <2>1, <2>2
  <2>4. s[i].calls > 0
    BY <2>2 DEF Leads
  <2>5. s[i].id = r[k].of
    BY <1>4, <2>2, <2>3, <2>4
  <2>6. PICK j \in 1..c : e[j] = i
    BY <1>6, <2>3
  <2>7. j < k /\ r[j] = s[i]
    BY <1>9, <1>10, <2>2, <2>6
  <2> QED  BY <1>11, <2>2, <2>5, <2>6, <2>7
<1>14. \A i \in 1..Len(r) : Owed(r, i) /\ Fitting(r, i, cut)
  BY <1>9, <1>12, <1>13 DEF Owed, Fitting
<1> QED  BY <1>14 DEF Sound, r

-------------------------------------------------------------------------------
(* Histories stay as they were told *)

\* The histories that somebody holds are as they were written.
ToldInv ==
    /\ Told(history, fate.cut) /\ Told(point.history, fate.cut) /\ Told(work.kept, fate.cut)
    /\ \A r \in 1..Len(rolling) : Told(rolling[r].history, fate.cut)

\* No history has more than results behind message a, and one ends with what
\* comes in front of the n-th result of a.
UpTo(h, a) == \A i \in 1..Len(h) : ~Tool(h[i]) => h[i].id <= a
BatchEnds(h, a, n) == h = <<>> \/ Follows(a, n, h[Len(h)])

\* A batch is written without a gap, unless it has been cut off.
BatchInv ==
    pc \in {"tool", "skip"} =>
        /\ Len(owner) = job.of + job.nr - 1
        /\ UpTo(history, job.of)
        /\ \A r \in 1..Len(rolling) : UpTo(rolling[r].history, job.of)
        /\ job.of \notin fate.cut => BatchEnds(history, job.of, job.nr)

\* What may be appended to a history.
LEMMA NewProper ==
    /\ Proper(User)
    /\ \A k \in Nat : Proper(Assistant(k))
    /\ Data /\ Len(owner) = job.of + job.nr - 1 /\ job.nr >= 1 => Proper(ToolResult(job.of, job.nr))
<1>1. Proper(User)
  BY DEF Proper, Tool, User, Message
<1>2. ASSUME NEW k \in Nat
      PROVE  Proper(Assistant(k))
  BY DEF Proper, Tool, Assistant, Message
<1>3. ASSUME Data, Len(owner) = job.of + job.nr - 1, job.nr >= 1
      PROVE  Proper(ToolResult(job.of, job.nr))
  <2>1. job \in Jobs /\ Len(owner) \in Nat
    BY <1>3 DEF Data
  <2>2. job.of \in Nat /\ job.nr \in Nat
    BY <2>1, TurnHistoryAssumption DEF Jobs
  <2>3. NextId = job.of + job.nr
    BY <1>3, <2>1, <2>2 DEF NextId
  <2> QED  BY <1>3, <2>3 DEF Proper, Tool, ToolResult, Message
<1> QED  BY <1>1, <1>2, <1>3

\* The numbers of the messages so far are smaller than the next one.
LEMMA IdsBefore ==
    ASSUME NEW h \in Histories, owner \in Seq(1..MaxTurns)
    PROVE  \A i \in 1..Len(h) : h[i].id <= Len(owner) /\ h[i].id \in Nat /\ h[i].id < NextId
<1>1. \A i \in 1..Len(h) : h[i] \in Messages
  BY DEF Histories
<1>2. Len(owner) \in Nat
  OBVIOUS
<1>3. \A i \in 1..Len(h) : h[i].id \in 1..Len(owner)
  BY <1>1 DEF Messages
<1> QED  BY <1>2, <1>3 DEF NextId

\* A message is added.
LEMMA ToldAdded ==
    ASSUME Told(history, fate.cut), Data, turn \in 1..MaxTurns, NEW m, Add(m), m \in Messages', m.id = NextId,
           Proper(m), Tool(m) => UpTo(history, m.of),
           Tool(m) /\ m.of \notin fate.cut => BatchEnds(history, m.of, m.nr)
    PROVE  Told(history', fate.cut) /\ fate'.cut = fate.cut
<1>1. history \in Histories /\ history \in Seq(Msg) /\ owner \in Seq(1..MaxTurns)
  BY HistoriesAre, TurnHistoryAssumption DEF Data
<1>2. m \in Msg
  <2>1. m \in [role : {"user", "assistant", "tool"}, id : 1..Len(owner'), turn : 1..MaxTurns,
               calls : 0..MaxCalls, of : 0..Len(owner'), nr : 0..MaxCalls]
    BY DEF Messages
  <2>2. m.turn \in Nat /\ m.id \in Nat /\ m.calls \in Nat /\ m.of \in Nat /\ m.nr \in Nat
    BY <2>1
  <2> QED  BY <2>1, <2>2 DEF Msg
<1>3. \A i \in 1..Len(history) : history[i].id < m.id
  BY <1>1, IdsBefore
<1>4. Told(Append(history, m), fate.cut)
  BY <1>1, <1>2, <1>3, ToldAppend DEF UpTo, BatchEnds
<1>5. history' = Append(history, m) /\ fate \in Fates /\ Mark(Overlap)
  BY DEF Add, Data
<1> QED  BY <1>4, <1>5, MarkIs, OverlapIs

\* A step that cuts no batch.
LEMMA ToldKept ==
    ASSUME ToldInv, Told(history', fate.cut), Told(point'.history, fate.cut), Told(work'.kept, fate.cut),
           rolling' = rolling \/ rolling' = <<>>, fate'.cut = fate.cut
    PROVE  ToldInv'
BY DEF ToldInv

\* The turn is left.
LEMMA ToldLeft ==
    ASSUME ToldInv, Told(history', fate.cut), Leave, rolling' = rolling, fate'.cut = fate.cut
    PROVE  ToldInv'
<1>1. point'.history = <<>> /\ work'.kept = <<>>
  BY NoWorkIs DEF Leave, NoPoint, NoWork
<1> QED  BY <1>1, ToldEmpty, ToldKept

\* The parts of a history that are taken.
LEMMA ToldHistory ==
    ASSUME NEW g \in Histories, NEW cut, Told(g, cut)
    PROVE  /\ Told(Half(g), cut)
           /\ \A k \in Nat : Told(LastOf(g, k), cut)
           /\ \A b \in 0..Len(g) : Told(SubSeq(g, 1, b), cut)
<1>1. g \in Seq(Msg)
  BY HistoriesAre, TurnHistoryAssumption
<1>2. Told(Half(g), cut)
  BY <1>1, HalfIsPart, ToldPart
<1>3. ASSUME NEW k \in Nat
      PROVE  Told(LastOf(g, k), cut)
  <2>1. PartOf(LastOf(g, k), g)
    BY <1>1, LastOfIs
  <2> QED  BY <1>1, <2>1, ToldPart
<1>4. ASSUME NEW b \in 0..Len(g)
      PROVE  Told(SubSeq(g, 1, b), cut)
  <2>1. 1 \in 1..(Len(g) + 1)
    BY <1>1
  <2>2. PartOf(SubSeq(g, 1, b), g)
    BY <1>1, <2>1, PartSub
  <2> QED  BY <1>1, <2>2, ToldPart
<1> QED  BY <1>2, <1>3, <1>4

\* In the beginning nothing has been told.
LEMMA ToldInit == Init => ToldInv /\ BatchInv
<1> SUFFICES ASSUME Init
             PROVE  ToldInv /\ BatchInv
  OBVIOUS
<1>1. history = <<>> /\ point.history = <<>> /\ work.kept = <<>> /\ rolling = <<>> /\ pc = "idle"
  BY NoWorkIs DEF Init, NoPoint, NoWork
<1> QED  BY <1>1, ToldEmpty DEF ToldInv, BatchInv

\* The roles of new messages.
LEMMA NewRoles ==
    /\ ~Tool(User) /\ \A k : ~Tool(Assistant(k))
    /\ \A a, i : Tool(ToolResult(a, i)) /\ ToolResult(a, i).of = a /\ ToolResult(a, i).nr = i
BY DEF Tool, User, Assistant, ToolResult, Message

\* The marks that the summarizer's decision may set.
LEMMA DecideMarks ==
    ASSUME Decide
    PROVE  \E S \in SUBSET {"overlap", "replaced"} : UNCHANGED fate \/ Mark(S)
<1> DEFINE marks == IF Spoken(SubSeq(sum.history, 1, SafeBoundary(sum.history, Len(sum.history) - KeepRecent))) > MaxBatch
                       /\ summary # {} THEN {"replaced"} ELSE {}
<1>1. UNCHANGED fate \/ Mark(marks)
  BY DEF Decide
<1>2. marks \in SUBSET {"overlap", "replaced"}
  OBVIOUS
<1> QED  BY <1>1, <1>2

\* HardAbort's write cuts off the batch that is carried out.
LEMMA CutGrows ==
    ASSUME RollbackWrite, Data
    PROVE  fate'.cut = fate.cut \cup {job.of}
<1> DEFINE A == fate.aborted \ {rolling[1].turn}
           U == fate.undone \cup {rolling[1].turn}
           C == fate.cut \cup {job.of}
           S == fate.marks \cup IF sum.pc \in {"read", "set", "cut"} THEN {"overlap"} ELSE {}
<1>1. fate' = [fate EXCEPT !.aborted = A, !.undone = U, !.compressed = TRUE, !.cut = C, !.marks = S]
  BY DEF RollbackWrite
<1>2. fate \in Fates
  BY DEF Data
<1> HIDE DEF A, U, C, S
<1>3. fate'.cut = C
  BY <1>1, <1>2 DEF Fates
<1> QED  BY <1>3 DEF C

\* A result of the batch is added.
LEMMA ToldResult ==
    ASSUME ToldInv, BatchInv, Data, Limits, Places, Add(ToolResult(job.of, job.nr)), pc \in {"tool", "skip"}
    PROVE  Told(history', fate.cut) /\ fate'.cut = fate.cut
<1> DEFINE m == ToolResult(job.of, job.nr)
<1>1. pc # "idle" /\ turn \in 1..MaxTurns
  BY DEF Limits
<1>2. m \in Messages' /\ m.id = NextId /\ Tool(m) /\ m.of = job.of /\ m.nr = job.nr
  BY <1>1, AddedType, NewIds, NewRoles
<1>3. Proper(m)
  BY NewProper DEF BatchInv, Places
<1>4. Add(m)
  OBVIOUS
<1> HIDE DEF m
<1>5. UpTo(history, m.of) /\ (m.of \notin fate.cut => BatchEnds(history, m.of, m.nr)) /\ Told(history, fate.cut)
  BY <1>2 DEF BatchInv, ToldInv
<1> QED  BY <1>1, <1>2, <1>3, <1>4, <1>5, ToldAdded

\* Every step keeps the histories as they were written.
LEMMA ToldStep ==
    ASSUME ToldInv, BatchInv, Data, Limits, Places, [Next]_vars
    PROVE  ToldInv'
<1>0. /\ history \in Histories /\ point \in Points /\ work \in Works /\ sum \in Sums
      /\ rolling \in Seq(Rolls) /\ Len(rolling) <= 1 /\ fate \in Fates /\ job \in Jobs
  BY DEF Data
<1>a. pc # "idle" => turn \in 1..MaxTurns
  BY DEF Limits
<1>b. Told(history, fate.cut) /\ Told(point.history, fate.cut) /\ Told(work.kept, fate.cut)
  BY DEF ToldInv
<1>c. Overlap \subseteq {"overlap", "replaced"} /\ Crossing \subseteq {"overlap", "replaced"}
  BY OverlapIs
<1>d. 0 \in 0..MaxCalls /\ 0 \in Nat /\ \A k \in 1..MaxCalls : k \in 0..MaxCalls /\ k \in Nat
  BY TurnHistoryAssumption
<1>e. Add(ToolResult(job.of, job.nr)) /\ pc \in {"tool", "skip"} => Told(history', fate.cut) /\ fate'.cut = fate.cut
  BY ToldResult
<1>1. CASE UNCHANGED vars
  BY <1>1, <1>b, ToldKept DEF vars, session, turnVars, ghosts
<1>2. CASE Begin
  <2>1. fate'.cut = fate.cut
    BY <1>2, <1>0 DEF Begin, Fates
  <2> QED  BY <1>2, <1>b, <2>1, ToldKept DEF Begin, session
<1>3. CASE Capture
  <2>1. UNCHANGED <<history, rolling, fate>> /\ point'.history = history
    BY <1>3 DEF Capture, session, ghosts
  <2>2. work'.kept = <<>> \/ work' = work
    <3>1. work' = work \/ work' = WorkFor("save")
      BY <1>3, NoWorkIs, Zenon DEF Capture
    <3> QED  BY <3>1 DEF WorkFor
  <2> QED  BY <1>b, <2>1, <2>2, ToldEmpty, ToldKept
<1>4. CASE Save
  <2>1. Add(User) /\ UNCHANGED <<rolling, point, work>> /\ pc # "idle"
    BY <1>4 DEF Save, Persist
  <2>2. User \in Messages' /\ User.id = NextId /\ Proper(User) /\ ~Tool(User)
    BY <1>d, <2>1, AddedType, NewIds, NewProper, NewRoles
  <2>3. Told(history', fate.cut) /\ fate'.cut = fate.cut
    BY <1>a, <1>b, <2>1, <2>2, ToldAdded
  <2> QED  BY <1>b, <2>1, <2>3, ToldKept
<1>5. CASE Compress
  <2>1. Told(Half(history), fate.cut)
    BY <1>0, <1>b, ToldHistory
  <2>2. work' = work \/ work'.kept = Half(history)
    BY <1>5, <1>0 DEF Compress, Works
  <2>3. Told(work'.kept, fate.cut)
    BY <1>b, <2>1, <2>2
  <2> QED  BY <1>5, <1>b, <2>3, ToldKept DEF Compress, session, ghosts
<1>6. CASE Note
  <2>1. fate'.cut = fate.cut
    BY <1>6, <1>0, <1>c, MarkIs DEF Note
  <2> QED  BY <1>6, <1>b, <2>1, ToldKept DEF Note
<1>7. CASE Cut
  <2>1. /\ history' = work.kept /\ UNCHANGED <<rolling, point, work>>
        /\ fate' = [fate EXCEPT !.noted = fate.noted \cup work.dropped, !.compressed = TRUE,
                             !.marks = fate.marks \cup Overlap]
    BY <1>7 DEF Cut
  <2>2. fate'.cut = fate.cut
    BY <1>0, <2>1 DEF Fates
  <2> QED  BY <1>b, <2>1, <2>2, ToldKept
<1>8. CASE Refresh
  <2>1. /\ UNCHANGED <<history, rolling, work, fate>>
        /\ point'.history = SubSeq(history, 1, Len(history) - MatchingTail(history, mine))
    BY <1>8 DEF Refresh, session, ghosts
  <2>2. history \in Seq(Msg) /\ mine \in Seq(Msg) /\ Len(history) \in Nat
    <3>1. history \in Seq(Msg) /\ mine \in Seq(Msg)
      BY HistoriesAre, TurnHistoryAssumption DEF Data
    <3> QED  BY <3>1
  <2>3. Len(history) - MatchingTail(history, mine) \in 0..Len(history)
    <3>1. MatchingTail(history, mine) \in 0..Len(history)
      BY <2>2, MatchingTailIs
    <3> QED  BY <2>2, <3>1
  <2>4. Told(point'.history, fate.cut)
    BY <1>0, <1>b, <2>1, <2>3, ToldHistory
  <2> QED  BY <1>b, <2>1, <2>4, ToldKept
<1>9. CASE Rebuild
  <2>1. work'.kept = <<>>
    BY <1>9 DEF Rebuild, NoWork
  <2> QED  BY <1>9, <1>b, <2>1, ToldEmpty, ToldKept DEF Rebuild, session, ghosts
<1>10. CASE Loop
  BY <1>10, <1>b, ToldKept DEF Loop, session, ghosts
<1>11. CASE Inject
  <2>1. Add(User) /\ UNCHANGED <<rolling, point, work>> /\ pc # "idle"
    BY <1>11 DEF Inject, Persist
  <2>2. User \in Messages' /\ User.id = NextId /\ Proper(User) /\ ~Tool(User)
    BY <1>d, <2>1, AddedType, NewIds, NewProper, NewRoles
  <2>3. Told(history', fate.cut) /\ fate'.cut = fate.cut
    BY <1>a, <1>b, <2>1, <2>2, ToldAdded
  <2> QED  BY <1>b, <2>1, <2>3, ToldKept
<1>12. CASE Ask
  BY <1>12, <1>b, ToldKept DEF Ask, session, ghosts
<1>13. CASE Answer
  BY <1>13, <1>b, ToldKept DEF Answer, session, ghosts
<1>14. ASSUME NEW k \in 1..MaxCalls, CallTools(k)
       PROVE  ToldInv'
  <2>1. Add(Assistant(k)) /\ UNCHANGED <<rolling, point, work>> /\ pc # "idle"
    BY <1>14 DEF CallTools, Persist
  <2>2. Assistant(k) \in Messages' /\ Assistant(k).id = NextId /\ Proper(Assistant(k)) /\ ~Tool(Assistant(k))
    BY <1>d, <2>1, AddedType, NewIds, NewProper, NewRoles
  <2>3. Told(history', fate.cut) /\ fate'.cut = fate.cut
    BY <1>a, <1>b, <2>1, <2>2, ToldAdded
  <2> QED  BY <1>b, <2>1, <2>3, ToldKept
<1>15. CASE Retry
  <2>0. work' = work \/ work' = WorkFor("llm")
    BY <1>15, NoWorkIs, Zenon DEF Retry
  <2>1. work'.kept = <<>> \/ work' = work
    BY <2>0 DEF WorkFor
  <2>2. Told(work'.kept, fate.cut)
    BY <1>b, <2>1, ToldEmpty
  <2> QED  BY <1>15, <1>b, <2>2, ToldKept DEF Retry, session, ghosts
<1>16. CASE Fail
  <2>1. Leave /\ UNCHANGED <<rolling, history, fate>>
    BY <1>16 DEF Fail, session, ghosts
  <2> QED  BY <1>b, <2>1, ToldLeft
<1>17. CASE Abort
  BY <1>17, <1>b, ToldKept DEF Abort, session, ghosts
<1>18. CASE RunTool
  <2>1. Add(ToolResult(job.of, job.nr)) /\ UNCHANGED <<rolling, point, work>> /\ pc \in {"tool", "skip"}
    BY <1>18 DEF RunTool, Persist
  <2> QED  BY <1>b, <1>e, <2>1, ToldKept
<1>19. CASE DenyTool
  <2>1. Add(ToolResult(job.of, job.nr)) /\ UNCHANGED <<rolling, point, work>> /\ pc \in {"tool", "skip"}
    BY <1>19 DEF DenyTool, Persist
  <2> QED  BY <1>b, <1>e, <2>1, ToldKept
<1>20. CASE SkipTool
  <2>1. Add(ToolResult(job.of, job.nr)) /\ UNCHANGED <<rolling, point, work>> /\ pc \in {"tool", "skip"}
    BY <1>20 DEF SkipTool, Persist
  <2> QED  BY <1>b, <1>e, <2>1, ToldKept
<1>21. CASE After
  BY <1>21, <1>b, ToldKept DEF After, session, ghosts
<1>22. CASE Finish
  <2>1. Add(Assistant(0)) /\ Leave /\ UNCHANGED rolling /\ pc # "idle"
    BY <1>22 DEF Finish
  <2>2. /\ Assistant(0) \in Messages' /\ Assistant(0).id = NextId /\ Proper(Assistant(0))
        /\ ~Tool(Assistant(0))
    BY <1>d, <2>1, AddedType, NewIds, NewProper, NewRoles
  <2>3. Told(history', fate.cut) /\ fate'.cut = fate.cut
    BY <1>a, <1>b, <2>1, <2>2, ToldAdded
  <2> QED  BY <2>1, <2>3, ToldLeft
<1>23. CASE HookAbort
  BY <1>23, <1>b, ToldKept DEF HookAbort, session, ghosts
<1>24. CASE Restore
  <2> DEFINE A == IF fate.compressed THEN fate.aborted ELSE fate.aborted \cup {turn}
             U == fate.undone \cup {turn}
             S == fate.marks \cup Overlap
  <2>1. /\ history' = point.history /\ UNCHANGED <<rolling, point, work>>
        /\ fate' = [fate EXCEPT !.aborted = A, !.undone = U, !.marks = S]
    BY <1>24 DEF Restore
  <2> HIDE DEF A, U, S
  <2>2. fate'.cut = fate.cut
    BY <1>0, <2>1 DEF Fates
  <2> QED  BY <1>b, <2>1, <2>2, ToldKept
<1>25. CASE RestoreSummary
  <2>1. Leave /\ UNCHANGED <<rolling, history>> /\ Mark(Overlap)
    BY <1>25 DEF RestoreSummary
  <2>2. fate'.cut = fate.cut
    BY <1>0, <1>c, <2>1, MarkIs
  <2> QED  BY <1>b, <2>1, <2>2, ToldLeft
<1>26. CASE Steer
  BY <1>26, <1>b, ToldKept DEF Steer, session, ghosts, turnVars
<1>27. CASE InterruptGraceful
  BY <1>27, <1>b, ToldKept DEF InterruptGraceful, session, ghosts, turnVars
<1>28. CASE InterruptHard
  BY <1>28, <1>b, ToldKept DEF InterruptHard, session, ghosts, turnVars
<1>29. CASE Rollback
  <2>1. /\ UNCHANGED <<history, point, work, fate>>
        /\ rolling' = <<[history |-> history, base |-> base, turn |-> turn]>>
    BY <1>29 DEF Rollback, session, turnVars, ghosts
  <2>2. \A r \in 1..Len(rolling') : rolling'[r].history = history
    BY <2>1
  <2> QED  BY <1>b, <2>1, <2>2 DEF ToldInv
<1>30. CASE RollbackWrite
  <2>1. rolling # <<>> /\ rolling' = <<>> /\ UNCHANGED <<point, work>>
        /\ history' = SubSeq(rolling[1].history, 1, rolling[1].base)
    BY <1>30 DEF RollbackWrite, turnVars
  <2>2. 1 \in 1..Len(rolling) /\ rolling[1] \in Rolls
    BY <1>0, <2>1
  <2>3. fate.cut \subseteq fate'.cut
    BY <1>30, CutGrows
  <2>4. rolling[1].history \in Histories /\ rolling[1].base \in 0..Len(rolling[1].history)
    <3>1. /\ rolling[1].history \in Histories
          /\ rolling[1].base \in Nat /\ rolling[1].base <= Len(rolling[1].history)
      BY <2>2 DEF Rolls
    <3> QED  BY <3>1, HistoryOperators
  <2>5. Told(rolling[1].history, fate.cut)
    BY <2>2 DEF ToldInv
  <2>6. Told(history', fate.cut)
    BY <2>1, <2>4, <2>5, ToldHistory
  <2>7. Told(history', fate'.cut) /\ Told(point.history, fate'.cut) /\ Told(work.kept, fate'.cut)
    BY <1>b, <2>3, <2>6, ToldMore
  <2> QED  BY <2>1, <2>7 DEF ToldInv
<1>31. CASE Snapshot
  BY <1>31, <1>b, ToldKept DEF Snapshot, session, ghosts, turnVars
<1>32. CASE Decide
  <2>1. PICK S \in SUBSET {"overlap", "replaced"} : UNCHANGED fate \/ Mark(S)
    BY <1>32, DecideMarks
  <2>2. fate'.cut = fate.cut
    BY <1>0, <2>1, MarkIs
  <2> QED  BY <1>32, <1>b, <2>2, ToldKept DEF Decide, session, turnVars
<1>33. CASE StoreSummary
  <2>1. fate'.cut = fate.cut
    BY <1>33, <1>0, <1>c, MarkIs DEF StoreSummary
  <2> QED  BY <1>33, <1>b, <2>1, ToldKept DEF StoreSummary, turnVars
<1>34. CASE TruncateRest
  <2>1. fate'.cut = fate.cut
    BY <1>34, <1>0, <1>c, MarkIs DEF TruncateRest
  <2>2. sum.keep \in Nat
    BY <1>0, SumTypes
  <2>3. Told(LastOf(history, sum.keep), fate.cut)
    BY <1>0, <1>b, <2>2, ToldHistory
  <2> QED  BY <1>34, <1>b, <2>1, <2>3, ToldKept DEF TruncateRest, turnVars
<1> QED
  BY <1>1, <1>2, <1>3, <1>4, <1>5, <1>6, <1>7, <1>8, <1>9, <1>10, <1>11, <1>12, <1>13,
     <1>14, <1>15, <1>16, <1>17, <1>18, <1>19, <1>20, <1>21, <1>22, <1>23, <1>24, <1>25,
     <1>26, <1>27, <1>28, <1>29, <1>30, <1>31, <1>32, <1>33, <1>34 DEF Next, RunTurn, Interfere, Summarize

\* A part of a history has no other messages.
LEMMA UpToPart ==
    ASSUME NEW h, NEW g \in Seq(Msg), NEW a, UpTo(g, a), PartOf(h, g)
    PROVE  UpTo(h, a)
<1>1. PICK d \in Nat : Len(h) + d <= Len(g) /\ \A i \in 1..Len(h) : h[i] = g[i + d]
  BY DEF PartOf
<1>2. h \in Seq(Msg) /\ Len(h) \in Nat /\ Len(g) \in Nat
  BY DEF PartOf
<1>3. \A i \in 1..Len(h) : i + d \in 1..Len(g)
  BY <1>1, <1>2
<1> QED  BY <1>1, <1>3 DEF UpTo

\* A step that leaves the batch alone.
LEMMA BatchKept ==
    ASSUME BatchInv, UNCHANGED <<pc, job, owner, history>>, fate'.cut = fate.cut,
           rolling' = rolling
    PROVE  BatchInv'
BY DEF BatchInv

\* A batch begins.
LEMMA BatchCalls ==
    ASSUME Data, Limits, NEW k \in 1..MaxCalls, CallTools(k)
    PROVE  BatchInv'
<1>1. /\ Add(Assistant(k)) /\ job' = [of |-> NextId, nr |-> 1, total |-> k] /\ rolling' = rolling
      /\ pc # "idle"
  BY DEF CallTools, Persist
<1>2. history' = Append(history, Assistant(k)) /\ owner' = Append(owner, turn)
  BY <1>1 DEF Add
<1>3. /\ history \in Histories /\ history \in Seq(Msg) /\ owner \in Seq(1..MaxTurns)
      /\ rolling \in Seq(Rolls)
  BY HistoriesAre, TurnHistoryAssumption DEF Data
<1>4. job'.of = NextId /\ job'.nr = 1
  BY <1>1
<1>5. Len(owner') = job'.of + job'.nr - 1 /\ NextId \in Nat /\ Len(owner) \in Nat
  <2>1. Len(owner') = Len(owner) + 1 /\ Len(owner) \in Nat
    BY <1>2, <1>3
  <2> QED  BY <1>4, <2>1 DEF NextId
<1>6. ASSUME NEW h \in Histories
      PROVE  UpTo(h, NextId)
  <2>1. \A i \in 1..Len(h) : h[i].id \in Nat /\ h[i].id < NextId
    BY <1>3, IdsBefore
  <2> QED  BY <1>5, <2>1 DEF UpTo
<1>7. \A r \in 1..Len(rolling) : UpTo(rolling[r].history, NextId)
  <2>1. \A r \in 1..Len(rolling) : rolling[r].history \in Histories
    BY <1>3 DEF Rolls
  <2> QED  BY <1>6, <2>1
<1>8. Assistant(k).id = NextId /\ Assistant(k).calls = k /\ k > 0
  BY TurnHistoryAssumption DEF Assistant, Message
<1>9. /\ Len(history') = Len(history) + 1 /\ Len(history) \in Nat
      /\ \A i \in 1..Len(history) : history'[i] = history[i]
      /\ history'[Len(history) + 1] = Assistant(k)
  BY <1>2, <1>3
<1>10. UpTo(history', NextId)
  <2>1. UpTo(history, NextId)
    BY <1>3, <1>6
  <2>2. \A i \in 1..Len(history') : i \in 1..Len(history) \/ i = Len(history) + 1
    BY <1>9
  <2> QED  BY <1>5, <1>8, <1>9, <2>1, <2>2 DEF UpTo
<1>11. BatchEnds(history', NextId, 1)
  BY <1>8, <1>9 DEF BatchEnds, Follows
<1> QED  BY <1>1, <1>4, <1>5, <1>7, <1>10, <1>11 DEF BatchInv

\* A batch goes on with the next call.
LEMMA BatchResult ==
    ASSUME BatchInv, Data, Places, pc \in {"tool", "skip"}, Add(ToolResult(job.of, job.nr)),
           NEW q, NextJob(q), rolling' = rolling
    PROVE  BatchInv'
<1>1. fate'.cut = fate.cut
  BY MarkIs, OverlapIs DEF Add, Data
<1>2. CASE /\ job.nr < job.total /\ pc' = q
           /\ job' = [of |-> job.of, nr |-> job.nr + 1, total |-> job.total]
  <2> DEFINE m == ToolResult(job.of, job.nr)
  <2>1. history' = Append(history, m) /\ owner' = Append(owner, turn)
    BY DEF Add
  <2>2. history \in Seq(Msg) /\ owner \in Seq(1..MaxTurns) /\ job.of \in Nat /\ job.nr \in Nat
    <3>1. job \in Jobs /\ Len(owner) \in Nat /\ MaxCalls \in Nat
      BY TurnHistoryAssumption DEF Data
    <3> QED  BY <3>1, HistoriesAre, TurnHistoryAssumption DEF Data, Jobs
  <2>3. Tool(m) /\ m.of = job.of
    BY NewRoles
  <2> HIDE DEF m
  <2>4. job'.of = job.of /\ job'.nr = job.nr + 1
    BY <1>2
  <2>5. Len(owner') = job'.of + job'.nr - 1
    <3>1. Len(owner') = Len(owner) + 1 /\ Len(owner) = job.of + job.nr - 1 /\ Len(owner) \in Nat
      BY <2>1, <2>2 DEF BatchInv
    <3> QED  BY <2>2, <2>4, <3>1
  <2>6. /\ Len(history') = Len(history) + 1 /\ Len(history) \in Nat
        /\ \A i \in 1..Len(history) : history'[i] = history[i]
        /\ history'[Len(history) + 1] = m
    BY <2>1, <2>2
  <2>7. UpTo(history', job.of)
    <3>1. UpTo(history, job.of)
      BY DEF BatchInv
    <3>2. \A i \in 1..Len(history') : i \in 1..Len(history) \/ i = Len(history) + 1
      BY <2>6
    <3> QED  BY <2>3, <2>6, <3>1, <3>2 DEF UpTo
  <2>8. BatchEnds(history', job.of, job.nr + 1)
    BY <2>3, <2>6 DEF BatchEnds, Follows
  <2>9. \A r \in 1..Len(rolling) : UpTo(rolling[r].history, job.of)
    BY DEF BatchInv
  <2> QED  BY <1>1, <2>4, <2>5, <2>7, <2>8, <2>9 DEF BatchInv
<1>3. CASE pc' = "loop"
  BY <1>3 DEF BatchInv
<1> QED  BY <1>2, <1>3, NextJobIs

\* Every step keeps it so.
LEMMA BatchStep ==
    ASSUME BatchInv, Data, Limits, Places, [Next]_vars
    PROVE  BatchInv'
<1>0. history \in Histories /\ sum \in Sums /\ rolling \in Seq(Rolls) /\ Len(rolling) <= 1 /\ fate \in Fates
  BY DEF Data
<1>c. Crossing \subseteq {"overlap", "replaced"}
  BY OverlapIs
<1>1. CASE UNCHANGED vars
  BY <1>1, BatchKept DEF vars, session, turnVars, ghosts
<1>2. CASE Begin
  <2>1. pc' \notin {"tool", "skip"}
    BY <1>2 DEF Begin, Leave
  <2> QED  BY <2>1 DEF BatchInv
<1>3. CASE Capture
  <2>1. pc' \notin {"tool", "skip"}
    BY <1>3 DEF Capture, Leave
  <2> QED  BY <2>1 DEF BatchInv
<1>4. CASE Save
  <2>1. pc' \notin {"tool", "skip"}
    BY <1>4 DEF Save, Leave
  <2> QED  BY <2>1 DEF BatchInv
<1>5. CASE Compress
  <2>1. pc' \notin {"tool", "skip"}
    BY <1>5 DEF Compress, Leave
  <2> QED  BY <2>1 DEF BatchInv
<1>6. CASE Note
  <2>1. pc' \notin {"tool", "skip"}
    BY <1>6 DEF Note, Leave
  <2> QED  BY <2>1 DEF BatchInv
<1>7. CASE Cut
  <2>1. pc' \notin {"tool", "skip"}
    BY <1>7 DEF Cut, Leave
  <2> QED  BY <2>1 DEF BatchInv
<1>8. CASE Refresh
  <2>1. pc' \notin {"tool", "skip"}
    BY <1>8 DEF Refresh, Leave
  <2> QED  BY <2>1 DEF BatchInv
<1>9. CASE Rebuild
  <2>1. pc' \notin {"tool", "skip"}
    BY <1>9 DEF Rebuild, Places, Compressing
  <2> QED  BY <2>1 DEF BatchInv
<1>10. CASE Loop
  <2>1. pc' \notin {"tool", "skip"}
    BY <1>10 DEF Loop, Leave
  <2> QED  BY <2>1 DEF BatchInv
<1>11. CASE Inject
  <2>1. pc' \notin {"tool", "skip"}
    BY <1>11 DEF Inject
  <2> QED  BY <2>1 DEF BatchInv
<1>12. CASE Ask
  <2>1. pc' \notin {"tool", "skip"}
    BY <1>12 DEF Ask, Leave
  <2> QED  BY <2>1 DEF BatchInv
<1>13. CASE Answer
  <2>1. pc' \notin {"tool", "skip"}
    BY <1>13 DEF Answer, Leave
  <2> QED  BY <2>1 DEF BatchInv
<1>14. ASSUME NEW k \in 1..MaxCalls, CallTools(k)
       PROVE  BatchInv'
  BY <1>14, BatchCalls
<1>15. CASE Retry
  <2>1. pc' \notin {"tool", "skip"}
    BY <1>15 DEF Retry
  <2> QED  BY <2>1 DEF BatchInv
<1>16. CASE Fail
  <2>1. pc' \notin {"tool", "skip"}
    BY <1>16 DEF Fail, Leave
  <2> QED  BY <2>1 DEF BatchInv
<1>17. CASE Abort
  <2>1. pc' \notin {"tool", "skip"}
    BY <1>17 DEF Abort, Leave
  <2> QED  BY <2>1 DEF BatchInv
<1>18. CASE RunTool
  <2>1. /\ Add(ToolResult(job.of, job.nr)) /\ pc \in {"tool", "skip"} /\ rolling' = rolling
        /\ NextJob(IF pending' > 0 \/ graceful = "asked" THEN "skip" ELSE "tool")
    BY <1>18 DEF RunTool, Persist
  <2> QED  BY <2>1, BatchResult
<1>19. CASE DenyTool
  <2>1. /\ Add(ToolResult(job.of, job.nr)) /\ pc \in {"tool", "skip"} /\ rolling' = rolling
        /\ NextJob("tool")
    BY <1>19 DEF DenyTool, Persist
  <2> QED  BY <2>1, BatchResult
<1>20. CASE SkipTool
  <2>1. /\ Add(ToolResult(job.of, job.nr)) /\ pc \in {"tool", "skip"} /\ rolling' = rolling
        /\ NextJob("skip")
    BY <1>20 DEF SkipTool, Persist
  <2> QED  BY <2>1, BatchResult
<1>21. CASE After
  <2>1. pc' \notin {"tool", "skip"}
    BY <1>21 DEF After, Leave
  <2> QED  BY <2>1 DEF BatchInv
<1>22. CASE Finish
  <2>1. pc' \notin {"tool", "skip"}
    BY <1>22 DEF Finish, Leave
  <2> QED  BY <2>1 DEF BatchInv
<1>23. CASE HookAbort
  <2>1. pc' \notin {"tool", "skip"}
    BY <1>23 DEF HookAbort, Leave
  <2> QED  BY <2>1 DEF BatchInv
<1>24. CASE Restore
  <2>1. pc' \notin {"tool", "skip"}
    BY <1>24 DEF Restore, Leave
  <2> QED  BY <2>1 DEF BatchInv
<1>25. CASE RestoreSummary
  <2>1. pc' \notin {"tool", "skip"}
    BY <1>25 DEF RestoreSummary, Leave
  <2> QED  BY <2>1 DEF BatchInv
<1>26. CASE Steer
  BY <1>26, BatchKept DEF Steer, ghosts, session, turnVars
<1>27. CASE InterruptGraceful
  BY <1>27, BatchKept DEF InterruptGraceful, ghosts, session, turnVars
<1>28. CASE InterruptHard
  BY <1>28, BatchKept DEF InterruptHard, ghosts, session, turnVars
<1>29. CASE Rollback
  <2>1. /\ UNCHANGED <<history, pc, job, owner, fate>>
        /\ rolling' = <<[history |-> history, base |-> base, turn |-> turn]>>
    BY <1>29 DEF Rollback, session, turnVars, ghosts
  <2>2. \A r \in 1..Len(rolling') : rolling'[r].history = history
    BY <2>1
  <2> QED  BY <2>1, <2>2 DEF BatchInv
<1>30. CASE RollbackWrite
  <2>1. rolling # <<>> /\ rolling' = <<>> /\ UNCHANGED <<pc, job, owner>>
        /\ history' = SubSeq(rolling[1].history, 1, rolling[1].base)
    BY <1>30 DEF RollbackWrite, turnVars
  <2>2. 1 \in 1..Len(rolling) /\ rolling[1] \in Rolls
    BY <1>0, <2>1
  <2>3. /\ rolling[1].history \in Histories
        /\ rolling[1].base \in Nat /\ rolling[1].base <= Len(rolling[1].history)
    BY <2>2 DEF Rolls
  <2>4. job.of \in fate'.cut
    BY <1>30, CutGrows
  <2>5. ASSUME pc \in {"tool", "skip"}
        PROVE  UpTo(history', job.of)
    <3>1. UpTo(rolling[1].history, job.of)
      BY <2>2, <2>5 DEF BatchInv
    <3>2. rolling[1].history \in Seq(Msg)
      BY <2>3, HistoriesAre, TurnHistoryAssumption
    <3>3. /\ 1 \in 1..(Len(rolling[1].history) + 1) /\ rolling[1].base \in 0..Len(rolling[1].history)
      BY <2>3, <3>2
    <3>4. PartOf(history', rolling[1].history)
      BY <2>1, <3>2, <3>3, PartSub
    <3> QED  BY <3>1, <3>2, <3>4, UpToPart
  <2> QED  BY <2>1, <2>4, <2>5 DEF BatchInv
<1>31. CASE Snapshot
  BY <1>31, BatchKept DEF Snapshot, ghosts, session, turnVars
<1>32. CASE Decide
  <2>1. PICK S \in SUBSET {"overlap", "replaced"} : UNCHANGED fate \/ Mark(S)
    BY <1>32, DecideMarks
  <2>2. fate'.cut = fate.cut
    BY <1>0, <2>1, MarkIs
  <2> QED  BY <1>32, <2>2, BatchKept DEF Decide, session, turnVars
<1>33. CASE StoreSummary
  <2>1. fate'.cut = fate.cut
    BY <1>33, <1>0, <1>c, MarkIs DEF StoreSummary
  <2> QED  BY <1>33, <2>1, BatchKept DEF StoreSummary, turnVars
<1>34. CASE TruncateRest
  <2>1. /\ UNCHANGED <<pc, job, owner, rolling>> /\ Mark(Crossing)
        /\ history' = LastOf(history, sum.keep)
    BY <1>34 DEF TruncateRest, turnVars
  <2>2. fate'.cut = fate.cut
    BY <1>0, <1>c, <2>1, MarkIs
  <2>3. history \in Seq(Msg) /\ sum.keep \in Nat
    BY <1>0, SumTypes, HistoriesAre, TurnHistoryAssumption
  <2>4. /\ PartOf(history', history)
        /\ Dropped(history, sum.keep) \in 0..Len(history) /\ Len(history') = Len(history) - Dropped(history, sum.keep)
        /\ \A i \in 1..Len(history') : history'[i] = history[i + Dropped(history, sum.keep)]
    BY <2>1, <2>3, LastOfIs
  <2>5. history' = <<>> \/ (history # <<>> /\ history'[Len(history')] = history[Len(history)])
    <3>1. Len(history) \in Nat /\ history' \in Seq(Msg)
      BY <2>3, <2>4 DEF PartOf
    <3>2. Len(history') \in Nat
      BY <3>1
    <3>3. CASE Len(history') = 0
      BY <3>1, <3>3
    <3>4. CASE Len(history') >= 1
      <4> DEFINE d == Dropped(history, sum.keep)
                 n == Len(history')
      <4>1. n \in 1..n /\ d \in Nat /\ n + d = Len(history)
        BY <2>4, <3>1, <3>2, <3>4
      <4>2. history'[n] = history[n + d]
        BY <2>4, <4>1
      <4>3. Len(history) # 0
        BY <3>2, <3>4, <4>1
      <4> QED  BY <4>1, <4>2, <4>3
    <3> QED  BY <3>2, <3>3, <3>4
  <2>6. ASSUME pc \in {"tool", "skip"}
        PROVE  UpTo(history', job.of) /\ (job.of \notin fate.cut => BatchEnds(history', job.of, job.nr))
    <3>1. UpTo(history, job.of) /\ (job.of \notin fate.cut => BatchEnds(history, job.of, job.nr))
      BY <2>6 DEF BatchInv
    <3>2. UpTo(history', job.of)
      BY <2>3, <2>4, <3>1, UpToPart
    <3>3. BatchEnds(history, job.of, job.nr) => BatchEnds(history', job.of, job.nr)
      BY <2>5 DEF BatchEnds
    <3> QED  BY <3>1, <3>2, <3>3
  <2> QED  BY <2>1, <2>2, <2>6 DEF BatchInv
<1> QED
  BY <1>1, <1>2, <1>3, <1>4, <1>5, <1>6, <1>7, <1>8, <1>9, <1>10, <1>11, <1>12, <1>13,
     <1>14, <1>15, <1>16, <1>17, <1>18, <1>19, <1>20, <1>21, <1>22, <1>23, <1>24, <1>25,
     <1>26, <1>27, <1>28, <1>29, <1>30, <1>31, <1>32, <1>33, <1>34 DEF Next, RunTurn, Interfere, Summarize

-------------------------------------------------------------------------------
(* The conversation *)

\* While a batch is carried out, the conversation ends with the calls of message
\* a, t of them, and the results of the first n - 1.
Open(s, a, n, t) ==
    \E p \in 1..Len(s) :
        /\ s[p].id = a /\ s[p].calls = t /\ Len(s) = p + n - 1
        /\ \A l \in 1..(n - 1) : Tool(s[p + l]) /\ s[p + l].of = a /\ s[p + l].nr = l
        /\ \A i \in 1..Len(s) : i # p => Owed(s, i)

\* Elsewhere it is one that the provider accepts.
Talking == {"save", "loop", "inject", "llm", "after", "finish"}
TalkInv ==
    /\ pc \in Talking => Sound(messages, fate.cut)
    /\ pc \in {"tool", "skip"} => /\ Open(messages, job.of, job.nr, job.total)
                                  /\ \A i \in 1..Len(messages) : Fitting(messages, i, fate.cut)

\* What is behind a message does not change it.
LEMMA OwedAppend ==
    ASSUME NEW s \in Seq(Msg), NEW m \in Msg, NEW cut, NEW i \in 1..Len(s)
    PROVE  /\ Owed(s, i) => Owed(Append(s, m), i)
           /\ Fitting(s, i, cut) => Fitting(Append(s, m), i, cut)
<1> DEFINE t == Append(s, m)
<1>1. /\ Len(t) = Len(s) + 1 /\ Len(s) \in Nat /\ \A k \in 1..Len(s) : t[k] = s[k] /\ k \in 1..Len(t)
  OBVIOUS
<1>2. \A j, k \in 1..Len(s) : Leads(t, j, k) <=> Leads(s, j, k)
  BY LeadsStays
<1> HIDE DEF t
<1>3. Owed(s, i) => Owed(t, i)
  BY <1>1, <1>2 DEF Owed
<1>4. Fitting(s, i, cut) => Fitting(t, i, cut)
  BY <1>1, <1>2 DEF Fitting
<1> QED  BY <1>3, <1>4 DEF t

\* A message without calls is added,
LEMMA SoundAppend ==
    ASSUME NEW s \in Seq(Msg), NEW m \in Msg, NEW cut, Sound(s, cut), ~Tool(m), m.calls = 0
    PROVE  Sound(Append(s, m), cut)
<1> DEFINE t == Append(s, m)
<1>1. Len(t) = Len(s) + 1 /\ Len(s) \in Nat /\ t[Len(s) + 1] = m
  OBVIOUS
<1>2. \A i \in 1..Len(s) : Owed(t, i) /\ Fitting(t, i, cut)
  BY OwedAppend DEF Sound
<1> HIDE DEF t
<1>3. Owed(t, Len(s) + 1) /\ Fitting(t, Len(s) + 1, cut)
  BY <1>1 DEF Owed, Fitting
<1>4. \A i \in 1..Len(t) : i \in 1..Len(s) \/ i = Len(s) + 1
  BY <1>1
<1>5. Sound(t, cut)
  BY <1>2, <1>3, <1>4 DEF Sound
<1> QED  BY <1>5 DEF t

\* or one with calls,
LEMMA OpenNew ==
    ASSUME NEW s \in Seq(Msg), NEW m \in Msg, NEW cut, Sound(s, cut), ~Tool(m)
    PROVE  /\ Open(Append(s, m), m.id, 1, m.calls)
           /\ \A i \in 1..Len(Append(s, m)) : Fitting(Append(s, m), i, cut)
<1> DEFINE t == Append(s, m)
           p == Len(s) + 1
<1>1. Len(t) = p /\ Len(s) \in Nat /\ t[p] = m /\ p \in 1..Len(t) /\ p = p + 1 - 1
  OBVIOUS
<1>2. \A i \in 1..Len(s) : Owed(t, i) /\ Fitting(t, i, cut)
  BY OwedAppend DEF Sound
<1>3. \A i \in 1..Len(t) : i \in 1..Len(s) \/ i = p
  BY <1>1
<1> HIDE DEF t, p
<1>4. \A l \in 1..(1 - 1) : FALSE
  OBVIOUS
<1>5. Open(t, m.id, 1, m.calls)
  BY <1>1, <1>2, <1>3, <1>4 DEF Open
<1>6. Fitting(t, p, cut)
  BY <1>1 DEF Fitting
<1>7. \A i \in 1..Len(t) : Fitting(t, i, cut)
  BY <1>2, <1>3, <1>6
<1> QED  BY <1>5, <1>7 DEF t

\* or the next result.
LEMMA OpenMore ==
    ASSUME NEW s \in Seq(Msg), NEW m \in Msg, NEW cut, NEW a, NEW n \in Nat, NEW c \in Nat, 1 <= n, n <= c,
           Open(s, a, n, c), \A i \in 1..Len(s) : Fitting(s, i, cut),
           Tool(m), m.of = a, m.nr = n, m.calls = 0
    PROVE  /\ \A i \in 1..Len(Append(s, m)) : Fitting(Append(s, m), i, cut)
           /\ n < c => Open(Append(s, m), a, n + 1, c)
           /\ n = c => Sound(Append(s, m), cut)
<1> DEFINE t == Append(s, m)
           e == Len(s) + 1
<1>1. PICK p \in 1..Len(s) :
        /\ s[p].id = a /\ s[p].calls = c /\ Len(s) = p + n - 1
        /\ \A l \in 1..(n - 1) : Tool(s[p + l]) /\ s[p + l].of = a /\ s[p + l].nr = l
        /\ \A i \in 1..Len(s) : i # p => Owed(s, i)
  BY DEF Open
<1>2. /\ Len(t) = e /\ Len(s) \in Nat /\ t[e] = m /\ e \in 1..Len(t) /\ e = p + n /\ p \in Nat
      /\ \A k \in 1..Len(s) : t[k] = s[k] /\ k \in 1..Len(t)
  BY <1>1
<1>3. \A i \in 1..Len(s) : (Owed(s, i) => Owed(t, i)) /\ Fitting(t, i, cut)
  BY OwedAppend
<1>4. \A i \in 1..Len(t) : i \in 1..Len(s) \/ i = e
  BY <1>2
<1> HIDE DEF t, e
<1>5. \A l \in 1..n : p + l \in 1..Len(t) /\ Tool(t[p + l]) /\ t[p + l].of = a /\ t[p + l].nr = l
  <2> SUFFICES ASSUME NEW l \in 1..n
               PROVE  p + l \in 1..Len(t) /\ Tool(t[p + l]) /\ t[p + l].of = a /\ t[p + l].nr = l
    OBVIOUS
  <2>1. CASE l = n
    BY <1>2, <2>1
  <2>2. CASE l # n
    <3>1. l \in 1..(n - 1) /\ l >= 1 /\ l <= n - 1
      BY <2>2
    <3>2. Len(s) = p + n - 1 /\ p \in Nat /\ Len(s) \in Nat
      BY <1>1, <1>2
    <3>3. p + l \in 1..Len(s)
      BY <3>1, <3>2
    <3>4. Tool(s[p + l]) /\ s[p + l].of = a /\ s[p + l].nr = l
      BY <1>1, <3>1
    <3>5. t[p + l] = s[p + l] /\ p + l \in 1..Len(t)
      BY <1>2, <3>3
    <3> QED  BY <3>4, <3>5
  <2> QED  BY <2>1, <2>2
<1>6. \A l \in 1..n : p < p + l /\ Leads(t, p, p + l)
  <2> SUFFICES ASSUME NEW l \in 1..n
               PROVE  p < p + l /\ Leads(t, p, p + l)
    OBVIOUS
  <2>1. p < p + l /\ p <= p + l
    BY <1>2
  <2>2. t[p].calls > 0
    BY <1>1, <1>2
  <2>3. \A k \in p + 1 .. p + l : Tool(t[k])
    <3> SUFFICES ASSUME NEW k \in p + 1 .. p + l
                 PROVE  Tool(t[k])
      OBVIOUS
    <3>1. k - p \in 1..n /\ p + (k - p) = k
      BY <1>2
    <3>2. Tool(t[p + (k - p)])
      BY <1>5, <3>1
    <3> QED  BY <3>1, <3>2
  <2> QED  BY <2>1, <2>2, <2>3 DEF Leads
<1>7. Fitting(t, e, cut)
  <2>1. n \in 1..n
    OBVIOUS
  <2>2. p \in 1..Len(t) /\ p < e /\ Leads(t, p, e) /\ t[p].id = t[e].of
    BY <1>1, <1>2, <1>6, <2>1
  <2> QED  BY <2>2 DEF Fitting
<1>8. \A i \in 1..Len(t) : Fitting(t, i, cut)
  BY <1>3, <1>4, <1>7
<1>9. Owed(t, e)
  BY <1>2 DEF Owed
<1>10. \A i \in 1..Len(t) : i # p => Owed(t, i)
  BY <1>1, <1>3, <1>4, <1>9
<1>11. Open(t, a, n + 1, c)
  <2>1. Len(t) = p + (n + 1) - 1 /\ (n + 1) - 1 = n /\ p \in 1..Len(t) /\ t[p].id = a /\ t[p].calls = c
    BY <1>1, <1>2
  <2>2. \A l \in 1..((n + 1) - 1) : Tool(t[p + l]) /\ t[p + l].of = a /\ t[p + l].nr = l
    BY <1>5, <2>1
  <2> QED  BY <1>10, <2>1, <2>2 DEF Open
<1>12. ASSUME n = c
       PROVE  Owed(t, p)
  <2>1. t[p].calls = n /\ t[p].id = a
    BY <1>1, <1>2, <1>12
  <2> QED  BY <1>5, <1>6, <2>1 DEF Owed
<1>13. n = c => Sound(t, cut)
  BY <1>8, <1>10, <1>12 DEF Sound
<1> QED  BY <1>8, <1>11, <1>13 DEF t

\* A step that adds nothing to the conversation.
LEMMA TalkKept ==
    ASSUME TalkInv, messages' = messages, fate.cut \subseteq fate'.cut,
           (UNCHANGED <<pc, job>>) \/ (pc \in Talking /\ pc' \notin {"tool", "skip"})
    PROVE  TalkInv'
<1>1. \A i \in 1..Len(messages) : Fitting(messages, i, fate.cut) => Fitting(messages, i, fate'.cut)
  BY DEF Fitting
<1>2. Sound(messages, fate.cut) => Sound(messages, fate'.cut)
  BY <1>1 DEF Sound
<1>3. CASE UNCHANGED <<pc, job>>
  BY <1>1, <1>2, <1>3 DEF TalkInv
<1>4. CASE pc \in Talking /\ pc' \notin {"tool", "skip"}
  BY <1>2, <1>4 DEF TalkInv
<1> QED  BY <1>3, <1>4

\* The conversation is made from the session.
LEMMA TalkSession ==
    ASSUME ToldInv, Data, messages' = Sanitize(history), fate' = fate, pc' \notin {"tool", "skip"}
    PROVE  TalkInv'
<1>1. history \in Seq(Msg) /\ Told(history, fate.cut)
  BY HistoriesAre, TurnHistoryAssumption DEF Data, ToldInv
<1>2. Sound(messages', fate'.cut)
  BY <1>1, SanitizeSound
<1> QED  BY <1>2 DEF TalkInv

\* What a message that is added is.
LEMMA Spoke ==
    ASSUME Data, NEW m, Add(m), m \in Messages'
    PROVE  m \in Msg /\ messages \in Seq(Msg) /\ fate'.cut = fate.cut
<1>1. messages \in Seq(Msg)
  BY HistoriesAre, TurnHistoryAssumption DEF Data
<1>2. fate'.cut = fate.cut
  BY MarkIs, OverlapIs DEF Add, Data
<1>3. m \in Msg
  <2>1. m \in [role : {"user", "assistant", "tool"}, id : 1..Len(owner'), turn : 1..MaxTurns,
               calls : 0..MaxCalls, of : 0..Len(owner'), nr : 0..MaxCalls]
    BY DEF Messages
  <2>2. m.turn \in Nat /\ m.id \in Nat /\ m.calls \in Nat /\ m.of \in Nat /\ m.nr \in Nat
    BY <2>1
  <2> QED  BY <2>1, <2>2 DEF Msg
<1> QED  BY <1>1, <1>2, <1>3

\* The user speaks.
LEMMA TalkUser ==
    ASSUME TalkInv, Data, Limits, Persist(User), pc \in Talking, pc' \notin {"tool", "skip"}
    PROVE  TalkInv'
<1>1. Add(User) /\ messages' = Append(messages, User) /\ pc # "idle"
  BY DEF Persist, Talking
<1>2. User \in Messages'
  BY <1>1, AddedType
<1>3. ~Tool(User) /\ User.calls = 0
  BY DEF Tool, User, Message
<1>4. User \in Msg /\ messages \in Seq(Msg) /\ fate'.cut = fate.cut
  BY <1>1, <1>2, Spoke
<1>5. Sound(messages', fate'.cut)
  BY <1>1, <1>3, <1>4, SoundAppend DEF TalkInv
<1> QED  BY <1>5 DEF TalkInv

\* The model calls tools.
LEMMA TalkCalls ==
    ASSUME TalkInv, Data, Limits, NEW k \in 1..MaxCalls, CallTools(k)
    PROVE  TalkInv'
<1> DEFINE m == Assistant(k)
<1>1. /\ Add(m) /\ messages' = Append(messages, m) /\ pc # "idle" /\ pc \in Talking /\ pc' = "tool"
      /\ job' = [of |-> NextId, nr |-> 1, total |-> k]
  BY DEF Persist, CallTools, Talking
<1>2. k \in 0..MaxCalls
  BY TurnHistoryAssumption
<1>3. m \in Messages'
  BY <1>1, <1>2, AddedType
<1>4. ~Tool(m) /\ m.calls = k /\ m.id = NextId
  BY DEF Tool, Assistant, Message
<1> HIDE DEF m
<1>5. m \in Msg /\ messages \in Seq(Msg) /\ fate'.cut = fate.cut
  BY <1>1, <1>3, Spoke
<1>6. Sound(messages, fate.cut)
  BY <1>1 DEF TalkInv
<1>7. Open(messages', NextId, 1, k) /\ \A i \in 1..Len(messages') : Fitting(messages', i, fate.cut)
  BY <1>1, <1>4, <1>5, <1>6, OpenNew
<1>8. job'.of = NextId /\ job'.nr = 1 /\ job'.total = k
  BY <1>1
<1>9. pc' \notin Talking
  BY <1>1 DEF Talking
<1> QED  BY <1>5, <1>7, <1>8, <1>9 DEF TalkInv

\* A call has its result.
LEMMA TalkResult ==
    ASSUME TalkInv, Data, Limits, Places, pc \in {"tool", "skip"}, Persist(ToolResult(job.of, job.nr)),
           NEW q \in {"tool", "skip"}, NextJob(q)
    PROVE  TalkInv'
<1> DEFINE m == ToolResult(job.of, job.nr)
<1>1. Add(m) /\ messages' = Append(messages, m) /\ pc # "idle"
  BY DEF Persist
<1>2. m \in Messages'
  BY <1>1, AddedType
<1>3. Tool(m) /\ m.of = job.of /\ m.nr = job.nr /\ m.calls = 0
  BY DEF Tool, ToolResult, Message
<1> HIDE DEF m
<1>4. m \in Msg /\ messages \in Seq(Msg) /\ fate'.cut = fate.cut
  BY <1>1, <1>2, Spoke
<1>5. job.nr \in Nat /\ job.total \in Nat /\ 1 <= job.nr /\ job.nr <= job.total
  <2>1. job \in Jobs /\ MaxCalls \in Nat
    BY TurnHistoryAssumption DEF Data
  <2> QED  BY <2>1 DEF Jobs, Places
<1>6. /\ \A i \in 1..Len(messages') : Fitting(messages', i, fate.cut)
      /\ job.nr < job.total => Open(messages', job.of, job.nr + 1, job.total)
      /\ job.nr = job.total => Sound(messages', fate.cut)
  <2>1. Open(messages, job.of, job.nr, job.total) /\ \A i \in 1..Len(messages) : Fitting(messages, i, fate.cut)
    BY DEF TalkInv
  <2> QED  BY <1>1, <1>3, <1>4, <1>5, <2>1, OpenMore
<1>7. CASE /\ job.nr < job.total /\ pc' = q
           /\ job' = [of |-> job.of, nr |-> job.nr + 1, total |-> job.total]
  <2>1. job'.of = job.of /\ job'.nr = job.nr + 1 /\ job'.total = job.total
    BY <1>7
  <2>2. pc' \notin Talking
    BY <1>7 DEF Talking
  <2> QED  BY <1>4, <1>6, <1>7, <2>1, <2>2 DEF TalkInv
<1>8. CASE ~(job.nr < job.total) /\ pc' = "loop"
  <2>1. job.nr = job.total
    BY <1>5, <1>8
  <2> QED  BY <1>4, <1>6, <1>8, <2>1 DEF TalkInv
<1> QED  BY <1>7, <1>8, NextJobIs

\* It holds in the beginning,
LEMMA TalkInit == Init => TalkInv
BY DEF Init, TalkInv, Talking

\* and every step keeps it.
LEMMA TalkStep ==
    ASSUME TalkInv, ToldInv, Data, Limits, Places, [Next]_vars
    PROVE  TalkInv'
<1>0. fate \in Fates
  BY DEF Data
<1>c. Crossing \subseteq {"overlap", "replaced"}
  BY OverlapIs
<1>1. CASE UNCHANGED vars
  BY <1>1, TalkKept DEF vars, session, turnVars, ghosts
<1>2. CASE Begin
  <2>1. pc' \notin Talking /\ pc' \notin {"tool", "skip"}
    BY <1>2 DEF Begin, Leave, Talking
  <2> QED  BY <2>1 DEF TalkInv
<1>3. CASE Capture
  <2>1. messages' = Sanitize(history) /\ UNCHANGED fate /\ pc' \notin {"tool", "skip"}
    BY <1>3 DEF Capture, ghosts
  <2> QED  BY <2>1, TalkSession
<1>4. CASE Save
  <2>1. Persist(User) /\ pc \in Talking /\ pc' \notin {"tool", "skip"}
    BY <1>4 DEF Save, Talking
  <2> QED  BY <2>1, TalkUser
<1>5. CASE Compress
  <2>1. pc' \notin Talking /\ pc' \notin {"tool", "skip"}
    BY <1>5 DEF Compress, Leave, Talking
  <2> QED  BY <2>1 DEF TalkInv
<1>6. CASE Note
  <2>1. pc' \notin Talking /\ pc' \notin {"tool", "skip"}
    BY <1>6 DEF Note, Leave, Talking
  <2> QED  BY <2>1 DEF TalkInv
<1>7. CASE Cut
  <2>1. pc' \notin Talking /\ pc' \notin {"tool", "skip"}
    BY <1>7 DEF Cut, Leave, Talking
  <2> QED  BY <2>1 DEF TalkInv
<1>8. CASE Refresh
  <2>1. pc' \notin Talking /\ pc' \notin {"tool", "skip"}
    BY <1>8 DEF Refresh, Leave, Talking
  <2> QED  BY <2>1 DEF TalkInv
<1>9. CASE Rebuild
  <2>1. messages' = Sanitize(history) /\ UNCHANGED fate /\ pc' \notin {"tool", "skip"}
    BY <1>9 DEF Rebuild, ghosts, Places, Compressing
  <2> QED  BY <2>1, TalkSession
<1>10. CASE Loop
  <2>1. pc \in Talking /\ pc' \notin {"tool", "skip"} /\ UNCHANGED <<messages, fate>>
    BY <1>10 DEF Loop, Talking, ghosts
  <2> QED  BY <2>1, TalkKept
<1>11. CASE Inject
  <2>1. Persist(User) /\ pc \in Talking /\ pc' \notin {"tool", "skip"}
    BY <1>11 DEF Inject, Talking
  <2> QED  BY <2>1, TalkUser
<1>12. CASE Ask
  <2>1. pc \in Talking /\ pc' \notin {"tool", "skip"} /\ UNCHANGED <<messages, fate>>
    BY <1>12 DEF Ask, Talking, ghosts
  <2> QED  BY <2>1, TalkKept
<1>13. CASE Answer
  <2>1. pc \in Talking /\ pc' \notin {"tool", "skip"} /\ UNCHANGED <<messages, fate>>
    BY <1>13 DEF Answer, Talking, ghosts
  <2> QED  BY <2>1, TalkKept
<1>14. ASSUME NEW k \in 1..MaxCalls, CallTools(k)
       PROVE  TalkInv'
  BY <1>14, TalkCalls
<1>15. CASE Retry
  <2>1. pc \in Talking /\ pc' \notin {"tool", "skip"} /\ UNCHANGED <<messages, fate>>
    BY <1>15 DEF Retry, Talking, ghosts
  <2> QED  BY <2>1, TalkKept
<1>16. CASE Fail
  <2>1. pc' \notin Talking /\ pc' \notin {"tool", "skip"}
    BY <1>16 DEF Fail, Leave, Talking
  <2> QED  BY <2>1 DEF TalkInv
<1>17. CASE Abort
  <2>1. pc' \notin Talking /\ pc' \notin {"tool", "skip"}
    BY <1>17 DEF Abort, Leave, Talking
  <2> QED  BY <2>1 DEF TalkInv
<1>18. CASE RunTool
  <2>1. /\ Persist(ToolResult(job.of, job.nr)) /\ pc \in {"tool", "skip"}
        /\ NextJob(IF pending' > 0 \/ graceful = "asked" THEN "skip" ELSE "tool")
    BY <1>18 DEF RunTool
  <2> DEFINE q == IF pending' > 0 \/ graceful = "asked" THEN "skip" ELSE "tool"
  <2>2. q \in {"tool", "skip"} /\ NextJob(q)
    BY <2>1
  <2> HIDE DEF q
  <2> QED  BY <2>1, <2>2, TalkResult
<1>19. CASE DenyTool
  <2>1. Persist(ToolResult(job.of, job.nr)) /\ pc \in {"tool", "skip"} /\ NextJob("tool")
    BY <1>19 DEF DenyTool
  <2> QED  BY <2>1, TalkResult
<1>20. CASE SkipTool
  <2>1. Persist(ToolResult(job.of, job.nr)) /\ pc \in {"tool", "skip"} /\ NextJob("skip")
    BY <1>20 DEF SkipTool
  <2> QED  BY <2>1, TalkResult
<1>21. CASE After
  <2>1. pc \in Talking /\ pc' \notin {"tool", "skip"} /\ UNCHANGED <<messages, fate>>
    BY <1>21 DEF After, Talking, ghosts
  <2> QED  BY <2>1, TalkKept
<1>22. CASE Finish
  <2>1. pc' \notin Talking /\ pc' \notin {"tool", "skip"}
    BY <1>22 DEF Finish, Leave, Talking
  <2> QED  BY <2>1 DEF TalkInv
<1>23. CASE HookAbort
  <2>1. pc' \notin Talking /\ pc' \notin {"tool", "skip"}
    BY <1>23 DEF HookAbort, Leave, Talking
  <2> QED  BY <2>1 DEF TalkInv
<1>24. CASE Restore
  <2>1. pc' \notin Talking /\ pc' \notin {"tool", "skip"}
    BY <1>24 DEF Restore, Leave, Talking
  <2> QED  BY <2>1 DEF TalkInv
<1>25. CASE RestoreSummary
  <2>1. pc' \notin Talking /\ pc' \notin {"tool", "skip"}
    BY <1>25 DEF RestoreSummary, Leave, Talking
  <2> QED  BY <2>1 DEF TalkInv
<1>26. CASE Steer
  BY <1>26, TalkKept DEF Steer, ghosts, session, turnVars
<1>27. CASE InterruptGraceful
  BY <1>27, TalkKept DEF InterruptGraceful, ghosts, session, turnVars
<1>28. CASE InterruptHard
  BY <1>28, TalkKept DEF InterruptHard, ghosts, session, turnVars
<1>29. CASE Rollback
  BY <1>29, TalkKept DEF Rollback, ghosts, session, turnVars
<1>30. CASE RollbackWrite
  <2>1. UNCHANGED <<pc, job, messages>> /\ fate.cut \subseteq fate'.cut
    BY <1>30, CutGrows DEF RollbackWrite, turnVars
  <2> QED  BY <2>1, TalkKept
<1>31. CASE Snapshot
  BY <1>31, TalkKept DEF Snapshot, ghosts, session, turnVars
<1>32. CASE Decide
  <2>1. PICK S \in SUBSET {"overlap", "replaced"} : UNCHANGED fate \/ Mark(S)
    BY <1>32, DecideMarks
  <2>2. fate'.cut = fate.cut
    BY <1>0, <2>1, MarkIs
  <2> QED  BY <1>32, <2>2, TalkKept DEF Decide, turnVars
<1>33. CASE StoreSummary
  <2>1. fate'.cut = fate.cut
    BY <1>33, <1>0, <1>c, MarkIs DEF StoreSummary
  <2> QED  BY <1>33, <2>1, TalkKept DEF StoreSummary, turnVars
<1>34. CASE TruncateRest
  <2>1. fate'.cut = fate.cut
    BY <1>34, <1>0, <1>c, MarkIs DEF TruncateRest
  <2> QED  BY <1>34, <2>1, TalkKept DEF TruncateRest, turnVars
<1> QED
  BY <1>1, <1>2, <1>3, <1>4, <1>5, <1>6, <1>7, <1>8, <1>9, <1>10, <1>11, <1>12, <1>13,
     <1>14, <1>15, <1>16, <1>17, <1>18, <1>19, <1>20, <1>21, <1>22, <1>23, <1>24, <1>25,
     <1>26, <1>27, <1>28, <1>29, <1>30, <1>31, <1>32, <1>33, <1>34 DEF Next, RunTurn, Interfere, Summarize

-------------------------------------------------------------------------------
(* The invariant, and the theorems *)

Inv == Types /\ AbortInv /\ OwnedInv /\ NoneLost /\ ToldInv /\ BatchInv /\ TalkInv

\* It holds in the beginning.
LEMMA InvInit == Init => Inv
<1> SUFFICES ASSUME Init
             PROVE  Inv
  OBVIOUS
<1>0. /\ MaxTurns \in Nat /\ MaxRetries \in Nat /\ MaxTroubles \in Nat
  BY TurnHistoryAssumption
<1>1. Counts
  BY <1>0 DEF Init, Counts
<1>2. Limits
  BY <1>0 DEF Init, Limits
<1>3. Flags
  BY DEF Init, Flags
<1>4. Places
  <2>1. pc = "idle" /\ work = NoWork
    BY DEF Init
  <2> QED  BY <2>1, NoWorkIs DEF Places, Compressing
<1>5. Data /\ AbortInv /\ OwnedInv /\ NoneLost /\ ToldInv /\ BatchInv /\ TalkInv
  BY DataInit, AbortInit, OwnedInit, KeptInit, ToldInit, TalkInit, Zenon DEF NoneLost
<1> QED  BY <1>1, <1>2, <1>3, <1>4, <1>5, Zenon DEF Inv, Types

\* Every step keeps it.
LEMMA InvStep ==
    ASSUME Inv, [Next]_vars
    PROVE  Inv'
<1>0. /\ Counts /\ Limits /\ Flags /\ Places /\ Data /\ AbortInv /\ OwnedInv /\ NoneLost
      /\ ToldInv /\ BatchInv /\ TalkInv /\ history \in Histories
  BY Zenon DEF Inv, Types, Data
<1>1. Counts'
  BY <1>0, CountsStep, Zenon
<1>2. Limits'
  BY <1>0, LimitsStep, Zenon
<1>3. Flags'
  BY <1>0, FlagsStep, Zenon
<1>4. Places'
  BY <1>0, PlacesStep, Zenon
<1>5. Data'
  BY <1>0, DataStep, Zenon
<1>6. AbortInv'
  BY <1>0, <1>5, AbortStep, Zenon
<1>7. OwnedInv'
  BY <1>0, OwnedStep, Zenon
<1>8. NoneLost'
  BY <1>0, KeptStep, Zenon
<1>9. ToldInv' /\ BatchInv' /\ TalkInv'
  BY <1>0, ToldStep, BatchStep, TalkStep, Zenon
<1> QED  BY <1>1, <1>2, <1>3, <1>4, <1>5, <1>6, <1>7, <1>8, <1>9, Zenon DEF Inv, Types

\* Types, what aborted turns leave, who wrote what, what is kept, and in which
\* order calls and results are told: the invariant of the turns of a session,
\* their compressions and the summarizer.
THEOREM SessionInvariant == Spec => []Inv
<1>1. Init => Inv
  BY InvInit
<1>2. Inv /\ [Next]_vars => Inv'
  BY InvStep
<1> QED  BY <1>1, <1>2, PTL DEF Spec

\* The variables have the values they should have.
LEMMA TypesHold ==
    ASSUME Types
    PROVE  TypeOK
<1>0. /\ history \in Histories /\ mine \in Histories /\ messages \in Histories
      /\ point \in Points /\ work \in Works /\ sum \in Sums /\ fate \in Fates /\ summary \in SUBSET Known
  BY DEF Types, Data
<1>1. \A h \in {history, mine, messages, point.history, work.kept, sum.history} :
         \A i \in DOMAIN h : h[i] \in Messages
  <2>1. point.history \in Histories /\ work.kept \in Histories /\ sum.history \in Histories
    BY <1>0 DEF Points, Works, Sums
  <2>2. \A h \in Histories : \A i \in DOMAIN h : h[i] \in Messages
    BY DEF Histories
  <2> QED  BY <1>0, <2>1, <2>2
<1>2. \A s \in {summary, point.summary, work.summary, sum.covered, fate.noted} : s \subseteq 1..Len(owner)
  <2>1. point.summary \in SUBSET Known /\ work.summary \in SUBSET Known /\ sum.covered \in SUBSET Known
    BY <1>0 DEF Points, Works, Sums
  <2>2. fate.noted \in SUBSET Known
    BY <1>0, FateFields
  <2> QED  BY <1>0, <2>1, <2>2 DEF Known
<1>3. turn \in 0..MaxTurns /\ iter \in Nat /\ retry \in 0..MaxRetries
  BY DEF Types, Limits, Counts
<1>4. pending \in 0..MaxTroubles /\ queue \in 0..MaxTroubles
  BY TurnHistoryAssumption DEF Types, Counts
<1>5. terminal \in BOOLEAN /\ hardAbort \in BOOLEAN /\ graceful \in {"no", "asked", "used"}
  BY Zenon DEF Types, Flags
<1>6. fate.cut \subseteq 0..Len(owner) /\ fate.aborted \subseteq 1..MaxTurns
      /\ fate.marks \subseteq {"overlap", "replaced"}
  BY <1>0, FateFields
<1> QED  BY <1>1, <1>2, <1>3, <1>4, <1>5, <1>6, Zenon DEF TypeOK

\* The variables have their types in every reachable state.
THEOREM TypesCorrect == Spec => []TypeOK
<1>1. Inv => TypeOK
  BY TypesHold DEF Inv
<1> QED  BY SessionInvariant, <1>1, PTL

\* A turn that was aborted leaves none of its messages in the history, and none
\* comes back: whatever the compression and the summarizer write.
THEOREM AbortsAreClean == Spec => []AbortLeavesNoTrace
<1>1. ASSUME Inv
      PROVE  AbortLeavesNoTrace
  <2>1. Good(history, fate.aborted, Young) /\ history \in Histories
    BY <1>1 DEF Inv, AbortInv, Types, Data
  <2>2. DOMAIN history = 1..Len(history)
    BY <2>1 DEF Histories
  <2> QED  BY <2>1, <2>2 DEF Good, AbortLeavesNoTrace
<1>2. Inv => AbortLeavesNoTrace
  BY <1>1
<1> QED  BY SessionInvariant, <1>2, PTL

\* No message of a turn that stands is lost, as long as the goroutines do not
\* come between each other's reads and writes.
THEOREM NoMessageIsForgotten == Spec => []NothingForgotten
<1>1. ASSUME Inv
      PROVE  NothingForgotten
  <2>1. DOMAIN owner = Known
    BY <1>1 DEF Inv, Types, Data, Known
  <2>2. ASSUME fate.marks = {}, NEW i \in DOMAIN owner
        PROVE  owner[i] \in fate.undone \/ i \in Ids(history) \cup summary \cup fate.noted
    <3>1. Covered(i, Ids(history) \cup summary)
      BY <1>1, <2>1, <2>2, Zenon DEF Inv, NoneLost, KeptInv
    <3> QED  BY <3>1, Zenon DEF Covered
  <2> QED  BY <2>2, Zenon DEF NothingForgotten
<1>2. Inv => NothingForgotten
  BY <1>1
<1> QED  BY SessionInvariant, <1>2, PTL

\* A conversation that is sound is one that the provider accepts: what leads a
\* result is what the code calls its block.
LEMMA SoundIs ==
    ASSUME NEW s \in Seq(Msg), NEW cut, Sound(s, cut), NEW i \in 1..Len(s)
    PROVE  /\ s[i].calls > 0 => Answered(s, i)
           /\ s[i].role = "tool" /\ s[i].of \notin cut =>
                \E j \in 1 .. i - 1 : s[j].id = s[i].of /\ i \in Block(s, j)
<1>1. s[i].calls > 0 => Answered(s, i)
  BY AnsweredIs DEF Sound
<1>2. ASSUME s[i].role = "tool", s[i].of \notin cut
      PROVE  \E j \in 1 .. i - 1 : s[j].id = s[i].of /\ i \in Block(s, j)
  <2>1. PICK j \in 1..Len(s) : j < i /\ Leads(s, j, i) /\ s[j].id = s[i].of
    BY <1>2 DEF Sound, Fitting, Tool
  <2>2. s[j].calls > 0
    BY <2>1 DEF Leads
  <2>3. i \in Block(s, j)
    BY <2>1, <2>2, AnsweredIs
  <2>4. j \in 1 .. i - 1
    BY <2>1
  <2> QED  BY <2>1, <2>3, <2>4
<1> QED  BY <1>1, <1>2

\* Every request has the results of all its tool calls right behind them and no
\* others, whatever has been cut, compressed, restored or skipped before: what
\* sanitizeHistoryForProvider is for, for histories of any length.
THEOREM RequestsAreWellFormed == Spec => []RequestsWellFormed
<1>1. ASSUME Inv
      PROVE  RequestsWellFormed
  <2>1. messages \in Seq(Msg) /\ DOMAIN messages = 1..Len(messages)
    <3>1. messages \in Seq(Msg)
      BY <1>1, HistoriesAre, TurnHistoryAssumption DEF Inv, Types, Data
    <3> QED  BY <3>1
  <2>2. pc = "llm" => Sound(messages, fate.cut)
    BY <1>1 DEF Inv, TalkInv, Talking
  <2> QED  BY <2>1, <2>2, SoundIs, Zenon DEF RequestsWellFormed
<1>2. Inv => RequestsWellFormed
  BY <1>1
<1> QED  BY SessionInvariant, <1>2, PTL

-------------------------------------------------------------------------------
(* Why a turn ends *)

\* What a turn can still do: the troubles that may come, the iterations that are
\* left or that messages and an interrupt may add, the places of an iteration,
\* and the messages, retries and calls at one place.  An iteration that is added
\* is taken from them when its message is injected, or its interrupt used.
IterationsLeft == IF iter < MaxIterations THEN MaxIterations - iter ELSE 0
AskedFor == IF graceful = "asked" THEN 1 ELSE 0
Rounds == IterationsLeft + pending + queue + AskedFor
More == iter < MaxIterations \/ pending > 0 \/ graceful = "asked"
Adding == pc = "inject" /\ (pending > 0 \/ graceful = "asked")
Order == [compress |-> 16, note |-> 15, cut |-> 14, refresh |-> 13, rebuild |-> 12, capture |-> 11,
          save |-> 10, inject |-> 9, llm |-> 8, tool |-> 7, skip |-> 7, after |-> 5, loop |-> 4,
          finish |-> 3, restore |-> 2, restoreSummary |-> 1, idle |-> 0]

Spare == MaxTroubles - spent
RoundsLeft == IF Adding THEN Rounds - 1 ELSE Rounds
Place == IF pc = "loop" /\ ~More THEN 6 ELSE Order[pc]
Within == IF pc = "inject" THEN pending
          ELSE IF pc = "llm" THEN MaxRetries - retry
          ELSE IF pc \in {"tool", "skip"} THEN job.total - job.nr ELSE 0
TurnRank == <<Spare, RoundsLeft, Place, Within>>

RankNumbers == Spare \in Nat /\ RoundsLeft \in Nat /\ Place \in Nat /\ Within \in Nat
RankFalls ==
    \/ Spare' < Spare
    \/ Spare' = Spare /\ RoundsLeft' < RoundsLeft
    \/ Spare' = Spare /\ RoundsLeft' = RoundsLeft /\ Place' < Place
    \/ Spare' = Spare /\ RoundsLeft' = RoundsLeft /\ Place' = Place /\ Within' < Within
RankStays == Spare' = Spare /\ RoundsLeft' = RoundsLeft /\ Place' = Place /\ Within' = Within

\* The numbers of the rank.
LEMMA RankTyped ==
    ASSUME Types
    PROVE  RankNumbers
<1> USE DEF RankNumbers
<1>0. MaxTroubles \in Nat /\ MaxRetries \in Nat /\ MaxIterations \in Nat /\ MaxCalls \in Nat
  BY TurnHistoryAssumption
<1>1. Spare \in Nat
  BY <1>0 DEF Types, Counts, Spare
<1>2. Rounds \in Nat /\ (Adding => Rounds > 0)
  BY <1>0 DEF Types, Counts, Rounds, IterationsLeft, AskedFor, Adding
<1>3. RoundsLeft \in Nat
  BY <1>2 DEF RoundsLeft
<1>4. Place \in Nat
  BY DEF Types, Places, Compressing, Place, Order
<1>5. Within \in Nat
  <2>1. pc \in {"tool", "skip"} => job.total - job.nr \in Nat
    BY <1>0 DEF Types, Places, Data, Jobs
  <2> QED  BY <1>0, <2>1 DEF Types, Counts, Limits, Within
<1> QED  BY <1>1, <1>3, <1>4, <1>5

LEMMA RankTypedNext ==
    Types' => RankNumbers'
<1>1. Types => RankNumbers
  BY RankTyped
<1> QED  BY <1>1, PTL

\* A tool call that is dealt with, however, leaves fewer of them.
LEMMA NextJobFalls ==
    ASSUME Types, NEW more \in {"tool", "skip"}, NextJob(more), pc \in {"tool", "skip"}, iter' = iter, graceful' = graceful, spent' = spent,
           pending' \in Nat, queue' \in Nat, pending' + queue' = pending + queue
    PROVE  RankFalls
<1>0. /\ MaxTroubles \in Nat /\ MaxCalls \in Nat /\ MaxIterations \in Nat
      /\ iter \in Nat /\ pending \in Nat /\ queue \in Nat /\ spent \in Nat
  BY TurnHistoryAssumption DEF Types, Counts
<1>1. job.nr \in Nat /\ job.total \in Nat /\ job.nr <= job.total /\ job \in Jobs
  BY <1>0 DEF Types, Places, Data, Jobs
<1>2. \/ job.nr < job.total /\ pc' \in {"tool", "skip"} /\ job' = [job EXCEPT !.nr = job.nr + 1]
      \/ pc' = "loop"
  BY DEF NextJob
<1>3. job' = [job EXCEPT !.nr = job.nr + 1] => job'.nr = job.nr + 1 /\ job'.total = job.total
  BY <1>1 DEF Jobs
<1>4. Spare' = Spare /\ Rounds' = Rounds /\ ~Adding /\ ~Adding'
  BY <1>0, <1>2 DEF Spare, Rounds, IterationsLeft, AskedFor, Adding
<1>5. RoundsLeft' = RoundsLeft /\ Place = 7
  BY <1>4 DEF RoundsLeft, Place, Order
<1>6. CASE pc' = "loop"
  BY <1>4, <1>5, <1>6 DEF RankFalls, Place, Order
<1>7. CASE pc' # "loop"
  <2>1. Place' = 7
    BY <1>2, <1>7 DEF Place, Order
  <2>2. Within' < Within
    BY <1>1, <1>2, <1>3, <1>7 DEF Within
  <2> QED  BY <1>4, <1>5, <2>1, <2>2 DEF RankFalls
<1> QED  BY <1>6, <1>7

\* Every step of the turn ends it or lowers the rank.
LEMMA RunTurnFalls ==
    ASSUME Types, RunTurn
    PROVE  pc' = "idle" \/ RankFalls
<1>0. MaxTroubles \in Nat /\ MaxRetries \in Nat /\ MaxIterations \in Nat /\ MaxCalls \in Nat
  BY TurnHistoryAssumption
<1>a. /\ iter \in Nat /\ pending \in Nat /\ queue \in Nat /\ spent \in Nat /\ spent <= MaxTroubles
      /\ retry \in 0..MaxRetries
  BY DEF Types, Counts, Limits
<1>b. pc \in {"tool", "skip"} => /\ job.nr \in Nat /\ job.total \in Nat /\ job.nr <= job.total
                                 /\ job \in Jobs
  BY <1>0 DEF Types, Places, Data, Jobs
<1>c. pc \in Compressing => work.back \in {"save", "llm"}
  BY DEF Types, Places
<1>1. CASE Capture
  BY <1>1, <1>0, <1>a
  DEF Capture, RankFalls, Spare, RoundsLeft, Place, Within, Rounds, More, Adding, IterationsLeft, AskedFor, Order, Trouble, signals
<1>2. CASE Save
  <2>1. UNCHANGED <<iter, graceful, spent, pending, queue>> /\ pc = "save" /\ pc' = "loop"
    BY <1>2 DEF Save, signals
  <2>2. Spare' = Spare /\ RoundsLeft' = RoundsLeft
    BY <2>1 DEF Spare, RoundsLeft, Adding, Rounds, IterationsLeft, AskedFor
  <2>3. Place = 10 /\ (Place' = 6 \/ Place' = 4)
    <3>1. Place = 10
      BY <2>1 DEF Place, Order
    <3>2. Place' = 6 \/ Place' = Order[pc']
      BY DEF Place
    <3> QED  BY <2>1, <3>1, <3>2 DEF Order
  <2> QED  BY <2>2, <2>3 DEF RankFalls
<1>3. CASE Compress
  <2>1. /\ UNCHANGED <<iter, graceful, spent, pending, queue>>
        /\ pc = "compress" /\ pc' \in {"rebuild", "note"}
    BY <1>3 DEF Compress, signals
  <2> QED
    BY <2>1, <1>0, <1>a
    DEF RankFalls, Spare, RoundsLeft, Place, Within, Rounds, More, Adding, IterationsLeft, AskedFor, Order
<1>4. CASE Note
  BY <1>4, <1>0, <1>a
  DEF Note, RankFalls, Spare, RoundsLeft, Place, Within, Rounds, More, Adding, IterationsLeft, AskedFor, Order, signals
<1>5. CASE Cut
  BY <1>5, <1>0, <1>a
  DEF Cut, RankFalls, Spare, RoundsLeft, Place, Within, Rounds, More, Adding, IterationsLeft, AskedFor, Order, signals
<1>6. CASE Refresh
  BY <1>6, <1>0, <1>a
  DEF Refresh, RankFalls, Spare, RoundsLeft, Place, Within, Rounds, More, Adding, IterationsLeft, AskedFor, Order, signals
<1>7. CASE Rebuild
  BY <1>7, <1>0, <1>a, <1>c
  DEF Rebuild, Compressing, signals, RankFalls, Spare, RoundsLeft, Place, Within, Rounds, More, Adding, IterationsLeft, AskedFor, Order
<1>8. CASE Loop
  BY <1>8, <1>0, <1>a
  DEF Loop, RankFalls, Spare, RoundsLeft, Place, Within, Rounds, More, Adding, IterationsLeft, AskedFor, Order
<1>9. CASE Inject
  BY <1>9, <1>0, <1>a
  DEF Inject, RankFalls, Spare, RoundsLeft, Place, Within, Rounds, More, Adding, IterationsLeft, AskedFor, Order, signals
<1>10. CASE Ask
  BY <1>10, <1>0, <1>a
  DEF Ask, RankFalls, Spare, RoundsLeft, Place, Within, Rounds, More, Adding, IterationsLeft, AskedFor, Order
<1>11. CASE Answer
  BY <1>11, <1>0, <1>a
  DEF Answer, RankFalls, Spare, RoundsLeft, Place, Within, Rounds, More, Adding, IterationsLeft, AskedFor, Order
<1>12. CASE Retry
  BY <1>12, <1>0, <1>a
  DEF Retry, RankFalls, Spare, RoundsLeft, Place, Within, Rounds, More, Adding, IterationsLeft, AskedFor, Order, Trouble, signals
<1>13. CASE Fail
  BY <1>13 DEF Fail, Leave
<1>14. CASE Abort
  BY <1>14, <1>0, <1>a
  DEF Abort, RankFalls, Spare, RoundsLeft, Place, Within, Rounds, More, Adding, IterationsLeft, AskedFor, Order, signals
<1>15. ASSUME NEW k \in 1..MaxCalls, CallTools(k)
       PROVE  pc' = "idle" \/ RankFalls
  BY <1>15, <1>0, <1>a
  DEF CallTools, RankFalls, Spare, RoundsLeft, Place, Within, Rounds, More, Adding, IterationsLeft, AskedFor, Order, signals
<1>16. CASE RunTool
  BY <1>16, <1>a, NextJobFalls DEF RunTool, signals
<1>17. CASE DenyTool
  BY <1>17, <1>a, NextJobFalls DEF DenyTool, signals
<1>18. CASE SkipTool
  BY <1>18, <1>a, NextJobFalls DEF SkipTool, signals
<1>19. CASE After
  BY <1>19, <1>0, <1>a
  DEF After, RankFalls, Spare, RoundsLeft, Place, Within, Rounds, More, Adding, IterationsLeft, AskedFor, Order
<1>20. CASE Finish
  BY <1>20 DEF Finish, Leave
<1>21. CASE HookAbort
  BY <1>21, <1>0, <1>a
  DEF HookAbort, RankFalls, Spare, RoundsLeft, Place, Within, Rounds, More, Adding, IterationsLeft, AskedFor, Order
<1>22. CASE Restore
  BY <1>22, <1>0, <1>a
  DEF Restore, RankFalls, Spare, RoundsLeft, Place, Within, Rounds, More, Adding, IterationsLeft, AskedFor, Order, signals
<1>23. CASE RestoreSummary
  BY <1>23 DEF RestoreSummary, Leave
<1> QED
  BY <1>1, <1>2, <1>3, <1>4, <1>5, <1>6, <1>7, <1>8, <1>9, <1>10, <1>11, <1>12, <1>13,
     <1>14, <1>15, <1>16, <1>17, <1>18, <1>19, <1>20, <1>21, <1>22, <1>23 DEF RunTurn

\* What others do while there is a turn lowers the rank, or does not touch it.
LEMMA OthersLower ==
    ASSUME Types, pc # "idle", Interfere \/ Summarize \/ Begin \/ UNCHANGED vars
    PROVE  RankFalls \/ RankStays
<1>0. MaxTroubles \in Nat /\ MaxRetries \in Nat /\ MaxIterations \in Nat /\ MaxCalls \in Nat
  BY TurnHistoryAssumption
<1>a. spent \in Nat /\ spent <= MaxTroubles
  BY DEF Types, Counts
<1>1. CASE Steer \/ InterruptGraceful \/ InterruptHard \/ Rollback
  <2>1. spent' = spent + 1
    BY <1>1 DEF Steer, InterruptGraceful, InterruptHard, Rollback, Trouble
  <2> QED  BY <1>0, <1>a, <2>1 DEF RankFalls, Spare
<1>2. CASE RollbackWrite \/ Summarize \/ UNCHANGED vars
  <2>1. UNCHANGED <<turnVars, signals, spent>>
    BY <1>2
    DEF RollbackWrite, Summarize, Snapshot, Decide, StoreSummary, TruncateRest, vars
  <2>2. UNCHANGED <<pc, iter, retry, pending, job, queue, graceful, spent>>
    BY <2>1 DEF turnVars, signals
  <2> QED
    BY <2>2
    DEF RankStays, Spare, RoundsLeft, Place, Within, Rounds, More, Adding, IterationsLeft, AskedFor
<1>3. CASE Begin
  BY <1>3 DEF Begin
<1> QED  BY <1>1, <1>2, <1>3 DEF Interfere

\* A turn makes progress: from every rank it comes to its end or to a lower
\* rank, if the goroutine of the turn is run.  There is no infinite chain of
\* ranks (RanksWellFounded), so that the turn ends (TurnEnds): an iteration more
\* is granted only for what uses up a message, an interrupt or a retry.
THEOREM TurnProgress ==
    ASSUME NEW r \in Ranks(4)
    PROVE  FairSpec => ((pc # "idle" /\ TurnRank = r) ~> (pc = "idle" \/ Lower(4, TurnRank, r)))
<1> DEFINE At == pc # "idle" /\ TurnRank = r
           On == pc = "idle" \/ Lower(4, TurnRank, r)
<1>1. Inv /\ At /\ Inv' /\ RankFalls => On'
  <2> SUFFICES ASSUME Inv, At, Inv', RankFalls
               PROVE  On'
    OBVIOUS
  <2>1. /\ Spare \in Nat /\ RoundsLeft \in Nat /\ Place \in Nat /\ Within \in Nat
        /\ Spare' \in Nat /\ RoundsLeft' \in Nat /\ Place' \in Nat /\ Within' \in Nat
    BY RankTyped, RankTypedNext DEF Inv, RankNumbers
  <2>2. Lower(4, <<Spare', RoundsLeft', Place', Within'>>, <<Spare, RoundsLeft, Place, Within>>)
    BY <2>1, LowerOfFour DEF RankFalls
  <2> QED  BY <2>2 DEF TurnRank
<1>2. Inv /\ At /\ Inv' /\ RankStays => pc' = "idle" \/ At'
  BY DEF RankStays, TurnRank
<1>3. Inv /\ Inv' /\ At /\ <<RunTurn>>_vars => On'
  BY <1>1, RunTurnFalls DEF Inv
<1>4. Inv /\ Inv' /\ At /\ [Next]_vars => At' \/ On'
  BY <1>1, <1>2, RunTurnFalls, OthersLower DEF Inv, Next
<1>5. pc = "idle" => On
  OBVIOUS
<1>6. Spec => []Inv
  BY SessionInvariant
<1> HIDE DEF At, On
<1>7. FairSpec => (At ~> On)
  BY <1>3, <1>4, <1>5, <1>6, PTL DEF FairSpec, Spec, TurnRuns
<1> QED  BY <1>7 DEF At, On
===============================================================================
