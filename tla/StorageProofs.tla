---------------------------- MODULE StorageProofs ----------------------------
(***************************************************************************)
(* Proofs about what outlives the process: the JSONL session store and the   *)
(* import of legacy sessions into it.                                        *)
(*                                                                          *)
(* JSONLStore: the two files are read as a history in order whatever has      *)
(* failed, and implement the abstract store SessionStore.  What readMessages *)
(* returns is a recursive function of the lines; NumberInduction proves what  *)
(* it defines.                                                               *)
(* Migration: as long as no write fails, the import can be cut off anywhere, *)
(* and be repeated.                                                          *)
(***************************************************************************)
EXTENDS JSONLStore, Migration, Integers, SequenceTheorems, NumberProofs

-------------------------------------------------------------------------------
(* The JSONL store *)

\* A sequence that is not empty is one with an element appended.
LEMMA LastSplit ==
    ASSUME NEW S, NEW s \in Seq(S), s # <<>>
    PROVE  /\ Front(s) \in Seq(S) /\ s[Len(s)] \in S /\ s = Append(Front(s), s[Len(s)])
           /\ Len(Front(s)) = Len(s) - 1 /\ Len(s) \in Nat \ {0}
<1>1. Len(s) \in Nat /\ Len(s) > 0 /\ DOMAIN s = 1..Len(s)
  OBVIOUS
<1> DEFINE f == SubSeq(s, 1, Len(s) - 1)
<1>2. Front(s) = f
  BY DEF Front
<1>3. f \in Seq(S) /\ Len(f) = Len(s) - 1 /\ \A i \in 1..(Len(s) - 1) : f[i] = s[i]
  BY <1>1
<1>4. s[Len(s)] \in S
  BY <1>1
<1> HIDE DEF f
<1> DEFINE a == Append(f, s[Len(s)])
<1>5. /\ a \in Seq(S) /\ Len(a) = Len(s) /\ a[Len(s)] = s[Len(s)]
      /\ \A i \in 1..(Len(s) - 1) : a[i] = s[i]
  <2> DEFINE e == s[Len(s)]
  <2>1. e \in S
    BY <1>4
  <2> HIDE DEF e
  <2>2. Append(f, e) \in Seq(S) /\ Len(Append(f, e)) = Len(f) + 1
    BY <1>3, <2>1
  <2>3. Append(f, e)[Len(f) + 1] = e /\ \A i \in 1..Len(f) : Append(f, e)[i] = f[i]
    BY <1>3, <2>1
  <2>4. Len(f) + 1 = Len(s)
    BY <1>1, <1>3
  <2>5. a = Append(f, e)
    BY DEF e
  <2> HIDE DEF a
  <2>6. a[Len(s)] = s[Len(s)]
    BY <2>3, <2>4, <2>5 DEF e
  <2>7. \A i \in 1..(Len(s) - 1) : a[i] = s[i]
    BY <1>1, <1>3, <2>3, <2>5
  <2> QED  BY <2>2, <2>4, <2>5, <2>6, <2>7
<1> HIDE DEF a
<1>6. \A i \in 1..Len(s) : a[i] = s[i]
  BY <1>1, <1>5
<1>7. a = s
  BY <1>5, <1>6, SeqEqual
<1> QED  BY <1>1, <1>2, <1>3, <1>4, <1>7 DEF a

\* Induction over the sequences, with a set for the property.
LEMMA SequenceInduction ==
    ASSUME NEW S, NEW G, <<>> \in G, \A s \in Seq(S) : \A e \in S : s \in G => Append(s, e) \in G
    PROVE  Seq(S) \subseteq G
<1> DEFINE N == {n \in Nat : \A s \in Seq(S) : Len(s) = n => s \in G}
<1>1. 0 \in N
  OBVIOUS
<1>2. ASSUME NEW n \in Nat, n \in N
      PROVE  n + 1 \in N
  <2>1. ASSUME NEW s \in Seq(S), Len(s) = n + 1
        PROVE  s \in G
    <3>1. s # <<>>
      BY <2>1
    <3>2. /\ Front(s) \in Seq(S) /\ s[Len(s)] \in S /\ s = Append(Front(s), s[Len(s)])
          /\ Len(Front(s)) = n
      BY <2>1, <3>1, LastSplit
    <3>3. Front(s) \in G
      BY <1>2, <3>2
    <3>4. Append(Front(s), s[Len(s)]) \in G
      BY <3>2, <3>3
    <3> QED  BY <3>2, <3>4
  <2> QED  BY <2>1
<1>3. Nat \subseteq N
  <2> HIDE DEF N
  <2> QED  BY <1>1, <1>2, NumberInduction
<1>4. \A s \in Seq(S) : Len(s) \in Nat
  OBVIOUS
<1> QED  BY <1>3, <1>4

-------------------------------------------------------------------------------
(* What readMessages returns *)

Entries == StoredMsgs \cup {Torn}
Reading(s, f) ==
    \A n \in 0..Len(s) :
        f[n] = IF n = 0 THEN <<>> ELSE IF s[n] = Torn THEN f[n - 1] ELSE Append(f[n - 1], s[n])

\* The recursive function exists, and only one.
LEMMA ReadingExists ==
    ASSUME NEW s \in Seq(Entries)
    PROVE  \E f \in [0..Len(s) -> Seq(StoredMsgs)] : Reading(s, f)
<1> DEFINE P(t) == \E f \in [0..Len(t) -> Seq(StoredMsgs)] : Reading(t, f)
           G == {t \in Seq(Entries) : P(t)}
<1>1. <<>> \in G
  <2>1. [n \in 0..0 |-> <<>>] \in [0..Len(<<>>) -> Seq(StoredMsgs)]
    OBVIOUS
  <2>2. Reading(<<>>, [n \in 0..0 |-> <<>>])
    <3> DEFINE f == [n \in 0..0 |-> <<>>]
    <3>1. \A n \in 0..Len(<<>>) : n = 0
      OBVIOUS
    <3>2. f[0] = <<>>
      OBVIOUS
    <3> HIDE DEF f
    <3> SUFFICES Reading(<<>>, f)
      BY DEF f
    <3>3. ASSUME NEW n \in 0..Len(<<>>)
          PROVE  f[n] = IF n = 0 THEN <<>> ELSE IF <<>>[n] = Torn THEN f[n - 1] ELSE Append(f[n - 1], <<>>[n])
      <4>1. n = 0
        BY <3>1
      <4> QED  BY <3>2, <4>1
    <3> QED  BY <3>3 DEF Reading
  <2> DEFINE f == [n \in 0..0 |-> <<>>]
  <2>3. f \in [0..Len(<<>>) -> Seq(StoredMsgs)] /\ Reading(<<>>, f)
    BY <2>1, <2>2
  <2> HIDE DEF f
  <2>4. P(<<>>)
    BY <2>3
  <2>5. <<>> \in Seq(Entries)
    OBVIOUS
  <2> HIDE DEF P
  <2> QED  BY <2>4, <2>5
<1>2. ASSUME NEW t \in Seq(Entries), NEW e \in Entries, t \in G
      PROVE  Append(t, e) \in G
  <2> DEFINE a == Append(t, e)
             n == Len(t)
  <2>1. a \in Seq(Entries) /\ Len(a) = n + 1 /\ n \in Nat /\ a[n + 1] = e /\ \A i \in 1..n : a[i] = t[i]
    OBVIOUS
  <2>2. PICK f \in [0..n -> Seq(StoredMsgs)] : Reading(t, f)
    BY <1>2
  <2> HIDE DEF a, n
  <2> DEFINE last == IF e = Torn THEN f[n] ELSE Append(f[n], e)
             g == [i \in 0..(n + 1) |-> IF i = n + 1 THEN last ELSE f[i]]
  <2>3. f[n] \in Seq(StoredMsgs)
    BY <2>1, <2>2
  <2>4. last \in Seq(StoredMsgs)
    <3>1. e # Torn => e \in StoredMsgs
      BY DEF Entries
    <3> QED  BY <2>3, <3>1
  <2> HIDE DEF last
  <2>5. g \in [0..Len(a) -> Seq(StoredMsgs)]
    BY <2>1, <2>2, <2>4
  <2>6. ASSUME NEW i \in 0..Len(a)
        PROVE  g[i] = IF i = 0 THEN <<>> ELSE IF a[i] = Torn THEN g[i - 1] ELSE Append(g[i - 1], a[i])
    <3>1. CASE i = n + 1
      <4>1. g[i] = last /\ i # 0 /\ i - 1 = n /\ g[i - 1] = f[n] /\ a[i] = e
        BY <2>1, <3>1
      <4> HIDE DEF g
      <4> QED  BY <4>1 DEF last
    <3>2. CASE i = 0
      <4>1. g[i] = f[0] /\ 0 \in 0..n
        BY <2>1, <3>2
      <4>2. f[0] = <<>>
        BY <2>2, <4>1 DEF Reading, n
      <4> QED  BY <3>2, <4>1, <4>2
    <3>3. CASE i \in 1..n
      <4>1. g[i] = f[i] /\ g[i - 1] = f[i - 1] /\ a[i] = t[i] /\ i \in 0..n /\ i # 0
        BY <2>1, <3>3
      <4>2. f[i] = IF t[i] = Torn THEN f[i - 1] ELSE Append(f[i - 1], t[i])
        BY <2>2, <4>1 DEF Reading, n
      <4> HIDE DEF g
      <4> QED  BY <4>1, <4>2
    <3> QED  BY <2>1, <3>1, <3>2, <3>3
  <2>7. Reading(a, g)
    <3> HIDE DEF g
    <3> QED  BY <2>6 DEF Reading
  <2>8. \E h \in [0..Len(a) -> Seq(StoredMsgs)] : Reading(a, h)
    <3> HIDE DEF g
    <3> QED  BY <2>5, <2>7
  <2> QED  BY <2>1, <2>8 DEF a
<1>3. Seq(Entries) \subseteq G
  <2> HIDE DEF G
  <2> QED  BY <1>1, <1>2, SequenceInduction
<1> QED  BY <1>3

\* Two readings of the same lines agree.
LEMMA ReadingUnique ==
    ASSUME NEW s \in Seq(Entries), NEW f, NEW g, Reading(s, f), Reading(s, g)
    PROVE  \A n \in 0..Len(s) : f[n] = g[n]
<1> DEFINE G == {n \in Nat : n <= Len(s) => f[n] = g[n]}
<1>1. Len(s) \in Nat
  OBVIOUS
<1>2. 0 \in G
  BY <1>1 DEF Reading
<1>3. ASSUME NEW n \in Nat, n \in G
      PROVE  n + 1 \in G
  <2> SUFFICES ASSUME n + 1 <= Len(s)
               PROVE  f[n + 1] = g[n + 1]
    OBVIOUS
  <2>1. f[n] = g[n] /\ n + 1 \in 0..Len(s) /\ n + 1 # 0 /\ (n + 1) - 1 = n
    BY <1>1, <1>3
  <2>2. f[n + 1] = IF s[n + 1] = Torn THEN f[n] ELSE Append(f[n], s[n + 1])
    BY <2>1 DEF Reading
  <2>3. g[n + 1] = IF s[n + 1] = Torn THEN g[n] ELSE Append(g[n], s[n + 1])
    BY <2>1 DEF Reading
  <2> QED  BY <2>1, <2>2, <2>3
<1>4. Nat \subseteq G
  <2> HIDE DEF G
  <2> QED  BY <1>2, <1>3, NumberInduction
<1> QED  BY <1>1, <1>4

\* Decode is the last value of any reading: its definition picks one, and there is one only.
LEMMA DecodeReads ==
    ASSUME NEW s \in Seq(Entries), NEW f, Reading(s, f)
    PROVE  Decode(s) = f[Len(s)]
<1> DEFINE D(h) == h = [n \in 0..Len(s) |->
                IF n = 0 THEN <<>> ELSE IF s[n] = Torn THEN h[n - 1] ELSE Append(h[n - 1], s[n])]
           c == CHOOSE h : D(h)
<1>1. Len(s) \in Nat
  OBVIOUS
<1>2. Decode(s) = c[Len(s)]
  BY DEF Decode
<1>3. \E h : D(h)
  <2> DEFINE h == [n \in 0..Len(s) |-> f[n]]
             k == [n \in 0..Len(s) |->
                IF n = 0 THEN <<>> ELSE IF s[n] = Torn THEN h[n - 1] ELSE Append(h[n - 1], s[n])]
  <2>1. ASSUME NEW n \in 0..Len(s)
        PROVE  h[n] = k[n]
    <3>1. f[n] = IF n = 0 THEN <<>> ELSE IF s[n] = Torn THEN f[n - 1] ELSE Append(f[n - 1], s[n])
      BY DEF Reading
    <3>2. n # 0 => n - 1 \in 0..Len(s)
      BY <1>1
    <3> QED  BY <3>1, <3>2
  <2>2. h = k
    BY <2>1
  <2> QED  BY <2>2
<1>4. D(c)
  <2> HIDE DEF D
  <2> QED  BY <1>3
<1>5. Reading(s, c)
  <2> HIDE DEF c
  <2> QED  BY <1>4 DEF Reading
<1> HIDE DEF c
<1> QED  BY <1>1, <1>2, <1>5, ReadingUnique

\* An empty file has no messages.
LEMMA DecodeEmpty == Decode(<<>>) = <<>>
<1>0. <<>> \in Seq(Entries) /\ Len(<<>>) = 0
  OBVIOUS
<1>1. PICK f \in [0..Len(<<>>) -> Seq(StoredMsgs)] : Reading(<<>>, f)
  BY <1>0, ReadingExists
<1>2. f[0] = <<>>
  BY <1>0, <1>1 DEF Reading
<1>3. Decode(<<>>) = f[Len(<<>>)]
  BY <1>0, <1>1, DecodeReads
<1> QED  BY <1>0, <1>2, <1>3

\* A line more is a message more, or none if it is torn.
LEMMA DecodeAppend ==
    ASSUME NEW s \in Seq(Entries), NEW e \in Entries
    PROVE  /\ Decode(s) \in Seq(StoredMsgs)
           /\ Decode(Append(s, e)) = IF e = Torn THEN Decode(s) ELSE Append(Decode(s), e)
<1> DEFINE a == Append(s, e)
           n == Len(s)
<1>1. a \in Seq(Entries) /\ Len(a) = n + 1 /\ n \in Nat /\ a[n + 1] = e /\ \A i \in 1..n : a[i] = s[i]
  OBVIOUS
<1> HIDE DEF a
<1>2. PICK f \in [0..Len(a) -> Seq(StoredMsgs)] : Reading(a, f)
  BY <1>1, ReadingExists
<1>3. Reading(s, f)
  <2>1. ASSUME NEW i \in 0..n
        PROVE  f[i] = IF i = 0 THEN <<>> ELSE IF s[i] = Torn THEN f[i - 1] ELSE Append(f[i - 1], s[i])
    <3>1. i \in 0..Len(a) /\ (i # 0 => a[i] = s[i])
      BY <1>1
    <3>2. f[i] = IF i = 0 THEN <<>> ELSE IF a[i] = Torn THEN f[i - 1] ELSE Append(f[i - 1], a[i])
      BY <1>2, <3>1 DEF Reading
    <3> QED  BY <3>1, <3>2
  <2> QED  BY <2>1 DEF Reading
<1>4. Decode(s) = f[n]
  BY <1>3, DecodeReads
<1>5. Decode(a) = f[n + 1]
  BY <1>1, <1>2, DecodeReads
<1>6. f[n + 1] = IF e = Torn THEN f[n] ELSE Append(f[n], e)
  <2>1. n + 1 \in 0..Len(a) /\ n + 1 # 0 /\ (n + 1) - 1 = n
    BY <1>1
  <2> QED  BY <1>1, <1>2, <2>1 DEF Reading
<1>7. f[n] \in Seq(StoredMsgs)
  BY <1>1, <1>2
<1> QED  BY <1>4, <1>5, <1>6, <1>7 DEF a

\* Sequences and their parts
LEMMA ConcatAppend ==
    ASSUME NEW S, NEW s \in Seq(S), NEW t \in Seq(S), NEW e \in S
    PROVE  s \o Append(t, e) = Append(s \o t, e)
<1> DEFINE a == s \o Append(t, e)
           b == Append(s \o t, e)
<1>1. a \in Seq(S) /\ b \in Seq(S) /\ Len(a) = Len(s) + Len(t) + 1 /\ Len(b) = Len(a)
  OBVIOUS
<1>2. Len(s) \in Nat /\ Len(t) \in Nat
  OBVIOUS
<1>3. ASSUME NEW i \in 1..Len(a)
      PROVE  a[i] = b[i]
  <2>1. CASE i <= Len(s)
    OBVIOUS
  <2>2. CASE i > Len(s) /\ i <= Len(s) + Len(t)
    <3>1. a[i] = Append(t, e)[i - Len(s)]
      BY <1>1, <1>2, <2>2
    <3>2. Append(t, e)[i - Len(s)] = t[i - Len(s)]
      BY <1>1, <1>2, <2>2
    <3>3. b[i] = (s \o t)[i]
      BY <1>1, <1>2, <2>2
    <3>4. (s \o t)[i] = t[i - Len(s)]
      BY <1>1, <1>2, <2>2
    <3> HIDE DEF a, b
    <3> QED  BY <3>1, <3>2, <3>3, <3>4
  <2>3. CASE i = Len(s) + Len(t) + 1
    <3>1. a[i] = Append(t, e)[i - Len(s)] /\ i - Len(s) = Len(t) + 1
      BY <1>1, <1>2, <2>3
    <3>2. Append(t, e)[Len(t) + 1] = e
      BY <1>1, <1>2
    <3>3. i = Len(s \o t) + 1
      BY <1>2, <2>3
    <3>4. Append(s \o t, e)[Len(s \o t) + 1] = e
      OBVIOUS
    <3>5. b[i] = e
      BY <3>3, <3>4
    <3> HIDE DEF a, b
    <3> QED  BY <3>1, <3>2, <3>5
  <2> HIDE DEF a, b
  <2> QED  BY <1>1, <1>2, <2>1, <2>2, <2>3
<1> HIDE DEF a, b
<1>4. a = b
  BY <1>1, <1>3, SeqEqual
<1> QED  BY <1>4 DEF a, b

\* The empty sequence is neutral.
LEMMA ConcatEmpty ==
    ASSUME NEW S, NEW s \in Seq(S)
    PROVE  s \o <<>> = s /\ <<>> \o s = s /\ s \o <<>> \in Seq(S)
OBVIOUS

\* A part of a sequence: its type, its length and its elements.
LEMMA TwoParts ==
    ASSUME NEW S, NEW s \in Seq(S), NEW i \in 0..Len(s), NEW j \in i..Len(s)
    PROVE  /\ SubSeq(s, i + 1, j) \in Seq(S)
           /\ Len(SubSeq(s, i + 1, j)) = j - i
           /\ \A k \in 1..(j - i) : SubSeq(s, i + 1, j)[k] = s[i + k]
<1>1. Len(s) \in Nat
  OBVIOUS
<1> QED  BY <1>1

\* What tells that a sequence is a concatenation.
LEMMA JoinIs ==
    ASSUME NEW S, NEW a \in Seq(S), NEW b \in Seq(S), NEW p \in Seq(S),
           Len(p) = Len(a) + Len(b),
           \A i \in 1..Len(a) : p[i] = a[i], \A i \in 1..Len(b) : p[Len(a) + i] = b[i]
    PROVE  p = a \o b
<1>0. Len(a) \in Nat /\ Len(b) \in Nat
  OBVIOUS
<1>1. a \o b \in Seq(S) /\ Len(a \o b) = Len(p)
  BY <1>0
<1>2. ASSUME NEW i \in 1..Len(p)
      PROVE  p[i] = (a \o b)[i]
  <2>1. CASE i <= Len(a)
    <3>1. (a \o b)[i] = a[i]
      BY <1>0, <2>1
    <3>2. i \in 1..Len(a)
      BY <1>0, <2>1
    <3> QED  BY <3>1, <3>2
  <2>2. CASE i > Len(a)
    <3>1. (a \o b)[i] = b[i - Len(a)] /\ i - Len(a) \in 1..Len(b) /\ Len(a) + (i - Len(a)) = i
      BY <1>0, <2>2
    <3> QED  BY <3>1
  <2> QED  BY <1>0, <2>1, <2>2
<1> QED  BY <1>1, <1>2, SeqEqual

\* Two parts that meet make one.
LEMMA PartsJoin ==
    ASSUME NEW S, NEW s \in Seq(S), NEW i \in 0..Len(s), NEW j \in i..Len(s), NEW k \in j..Len(s)
    PROVE  SubSeq(s, i + 1, k) = SubSeq(s, i + 1, j) \o SubSeq(s, j + 1, k)
<1> DEFINE p == SubSeq(s, i + 1, k)
           a == SubSeq(s, i + 1, j)
           b == SubSeq(s, j + 1, k)
<1>0. Len(s) \in Nat /\ i \in Nat /\ j \in Nat /\ k \in Nat /\ i <= j /\ j <= k /\ k <= Len(s)
  OBVIOUS
<1>1. p \in Seq(S) /\ Len(p) = k - i /\ \A n \in 1..(k - i) : p[n] = s[i + n]
  <2>1. k \in i..Len(s)
    BY <1>0
  <2> QED  BY <2>1, TwoParts
<1>2. a \in Seq(S) /\ Len(a) = j - i /\ \A n \in 1..(j - i) : a[n] = s[i + n]
  BY TwoParts
<1>3. b \in Seq(S) /\ Len(b) = k - j /\ \A n \in 1..(k - j) : b[n] = s[j + n]
  <2>1. j \in 0..Len(s)
    BY <1>0
  <2> QED  BY <2>1, TwoParts
<1> HIDE DEF p, a, b
<1>4. Len(p) = Len(a) + Len(b)
  BY <1>0, <1>1, <1>2, <1>3
<1>5. ASSUME NEW n \in 1..Len(a)
      PROVE  p[n] = a[n]
  <2>1. n \in 1..(k - i) /\ n \in 1..(j - i)
    BY <1>0, <1>2
  <2> QED  BY <1>1, <1>2, <2>1
<1>6. ASSUME NEW n \in 1..Len(b)
      PROVE  p[Len(a) + n] = b[n]
  <2>1. Len(a) + n \in 1..(k - i) /\ i + (Len(a) + n) = j + n /\ n \in 1..(k - j)
    BY <1>0, <1>2, <1>3
  <2>2. p[Len(a) + n] = s[i + (Len(a) + n)]
    BY <1>1, <2>1
  <2>3. b[n] = s[j + n]
    BY <1>3, <2>1
  <2> QED  BY <2>1, <2>2, <2>3
<1>7. p = a \o b
  <2>1. p \in Seq(S) /\ a \in Seq(S) /\ b \in Seq(S)
    BY <1>1, <1>2, <1>3
  <2> QED  BY <2>1, <1>4, <1>5, <1>6, JoinIs
<1> QED  BY <1>7 DEF p, a, b

\* The whole sequence is a part of itself, and so is the empty one at either end.
LEMMA WholePart ==
    ASSUME NEW S, NEW s \in Seq(S)
    PROVE  SubSeq(s, 1, Len(s)) = s /\ SubSeq(s, 1, 0) = <<>> /\ SubSeq(s, Len(s) + 1, Len(s)) = <<>>
<1>1. Len(s) \in Nat
  OBVIOUS
<1>2. SubSeq(s, 1, 0) = <<>> /\ SubSeq(s, Len(s) + 1, Len(s)) = <<>>
  BY <1>1
<1> DEFINE p == SubSeq(s, 1, Len(s))
<1>3. p \in Seq(S) /\ Len(p) = Len(s) /\ \A n \in 1..Len(s) : p[n] = s[n]
  BY <1>1
<1> HIDE DEF p
<1>4. p = s
  BY <1>3, SeqEqual
<1> QED  BY <1>2, <1>4 DEF p

\* The parts of a concatenation.
LEMMA ConcatParts ==
    ASSUME NEW S, NEW a \in Seq(S), NEW b \in Seq(S), NEW c, c = a \o b
    PROVE  /\ c \in Seq(S) /\ Len(c) = Len(a) + Len(b)
           /\ SubSeq(c, 1, Len(c) - Len(b)) = a
           /\ SubSeq(c, Len(c) - Len(b) + 1, Len(c)) = b
<1>0. Len(a) \in Nat /\ Len(b) \in Nat
  OBVIOUS
<1>1. /\ c \in Seq(S) /\ Len(c) = Len(a) + Len(b)
      /\ \A i \in 1..Len(a) : c[i] = a[i]
      /\ \A i \in 1..Len(b) : c[Len(a) + i] = b[i]
  BY <1>0
<1>2. Len(c) - Len(b) = Len(a) /\ Len(a) \in 0..Len(c) /\ 0 \in 0..Len(c) /\ Len(c) \in Len(a)..Len(c)
  BY <1>0, <1>1
<1> DEFINE p == SubSeq(c, 1, Len(a))
           q == SubSeq(c, Len(a) + 1, Len(c))
<1>3. p \in Seq(S) /\ Len(p) = Len(a) /\ \A i \in 1..Len(a) : p[i] = c[i]
  BY <1>0, <1>1
<1>4. q \in Seq(S) /\ Len(q) = Len(b) /\ \A i \in 1..Len(b) : q[i] = c[Len(a) + i]
  <2>1. q \in Seq(S) /\ Len(q) = Len(c) - Len(a) /\ \A i \in 1..(Len(c) - Len(a)) : q[i] = c[Len(a) + i]
    BY <1>1, <1>2, TwoParts
  <2> QED  BY <1>0, <1>1, <2>1
<1> HIDE DEF p, q
<1>5. p = a
  BY <1>1, <1>3, SeqEqual
<1>6. q = b
  <2>1. \A i \in 1..Len(b) : q[i] = b[i]
    BY <1>1, <1>4
  <2> QED  BY <1>4, <2>1, SeqEqual
<1> QED  BY <1>1, <1>2, <1>5, <1>6 DEF p, q

-------------------------------------------------------------------------------
\* What is read are messages.
LEMMA DecodeType ==
    ASSUME NEW s \in Seq(Entries)
    PROVE  Decode(s) \in Seq(StoredMsgs)
<1>1. Torn \in Entries
  BY DEF Entries
<1> QED  BY <1>1, DecodeAppend

\* Two files, one behind the other, are read as one.
LEMMA DecodeConcat ==
    ASSUME NEW s \in Seq(Entries), NEW t \in Seq(Entries)
    PROVE  Decode(s \o t) = Decode(s) \o Decode(t)
<1> DEFINE G == {u \in Seq(Entries) : Decode(s \o u) = Decode(s) \o Decode(u)}
<1>1. <<>> \in G
  <2>1. s \o <<>> = s /\ <<>> \in Seq(Entries)
    OBVIOUS
  <2>2. Decode(s) \o <<>> = Decode(s)
    BY DecodeType
  <2> QED  BY <2>1, <2>2, DecodeEmpty
<1>2. ASSUME NEW u \in Seq(Entries), NEW e \in Entries, u \in G
      PROVE  Append(u, e) \in G
  <2> DEFINE a == Append(u, e)
             d == Decode(s)
             v == Decode(u)
             w == s \o u
  <2>1. s \o a = Append(w, e)
    BY ConcatAppend
  <2>2. a \in Seq(Entries) /\ w \in Seq(Entries)
    OBVIOUS
  <2>3. Decode(w) = d \o v
    BY <1>2
  <2>4. Decode(a) = IF e = Torn THEN v ELSE Append(v, e)
    BY DecodeAppend
  <2>5. Decode(Append(w, e)) = IF e = Torn THEN Decode(w) ELSE Append(Decode(w), e)
    BY <2>2, DecodeAppend
  <2>6. d \in Seq(StoredMsgs) /\ v \in Seq(StoredMsgs)
    BY DecodeType
  <2>7. e # Torn => d \o Append(v, e) = Append(d \o v, e)
    <3>1. e # Torn => e \in StoredMsgs
      BY DEF Entries
    <3> QED  BY <2>6, <3>1, ConcatAppend
  <2> HIDE DEF a, d, v, w
  <2>8. Decode(s \o a) = d \o Decode(a)
    BY <2>1, <2>3, <2>4, <2>5, <2>7
  <2> QED  BY <2>2, <2>8 DEF a, d
<1>3. Seq(Entries) \subseteq G
  <2> HIDE DEF G
  <2> QED  BY <1>1, <1>2, SequenceInduction
<1> QED  BY <1>3

\* There are no more messages than lines.
LEMMA DecodeShort ==
    ASSUME NEW s \in Seq(Entries)
    PROVE  Len(Decode(s)) <= Len(s)
<1> DEFINE G == {u \in Seq(Entries) : Len(Decode(u)) <= Len(u)}
<1>1. <<>> \in G
  BY DecodeEmpty
<1>2. ASSUME NEW u \in Seq(Entries), NEW e \in Entries, u \in G
      PROVE  Append(u, e) \in G
  <2> DEFINE a == Append(u, e)
             v == Decode(u)
  <2>1. a \in Seq(Entries) /\ Len(a) = Len(u) + 1 /\ Len(u) \in Nat
    OBVIOUS
  <2>2. Decode(a) = IF e = Torn THEN v ELSE Append(v, e)
    BY DecodeAppend
  <2>3. v \in Seq(StoredMsgs) /\ Len(v) <= Len(u) /\ Len(v) \in Nat
    BY <1>2, DecodeType
  <2>4. e # Torn => Len(Append(v, e)) = Len(v) + 1
    <3>1. e # Torn => e \in StoredMsgs
      BY DEF Entries
    <3> HIDE DEF v
    <3> QED  BY <2>3, <3>1
  <2> HIDE DEF a, v
  <2>5. Len(Decode(a)) <= Len(a)
    BY <2>1, <2>2, <2>3, <2>4
  <2> QED  BY <2>1, <2>5 DEF a
<1>3. Seq(Entries) \subseteq G
  <2> HIDE DEF G
  <2> QED  BY <1>1, <1>2, SequenceInduction
<1> QED  BY <1>3

\* Lines that are all messages are read as they are.
LEMMA DecodeClean ==
    ASSUME NEW s \in Seq(StoredMsgs)
    PROVE  s \in Seq(Entries) /\ Decode(s) = s
<1> DEFINE G == {u \in Seq(StoredMsgs) : Decode(u) = u}
<1>0. \A u \in Seq(StoredMsgs) : u \in Seq(Entries)
  BY DEF Entries
<1>1. <<>> \in G
  BY DecodeEmpty
<1>2. ASSUME NEW u \in Seq(StoredMsgs), NEW e \in StoredMsgs, u \in G
      PROVE  Append(u, e) \in G
  <2> DEFINE a == Append(u, e)
  <2>1. e \in Entries /\ e # Torn
    BY StoreAssumption DEF Entries, StoredMsgs, Torn
  <2>2. Decode(a) = Append(Decode(u), e)
    BY <1>0, <2>1, DecodeAppend
  <2>3. Decode(u) = u
    BY <1>2
  <2>4. a \in Seq(StoredMsgs)
    OBVIOUS
  <2> HIDE DEF a
  <2>5. Decode(a) = a
    BY <2>2, <2>3 DEF a
  <2> QED  BY <2>4, <2>5 DEF a
<1>3. Seq(StoredMsgs) \subseteq G
  <2> HIDE DEF G
  <2> QED  BY <1>1, <1>2, SequenceInduction
<1> QED  BY <1>0, <1>3

\* What GetHistory returns of the lines l when k are skipped, and what is skipped.
Shown(l, k) == Decode(SubSeq(l, k + 1, Len(l)))
Skipped(l, k) == Decode(SubSeq(l, 1, k))

\* The messages of s are in the order they were added, none later than n.
Upto(s, n) ==
    /\ \A i, j \in 1..Len(s) : i < j => s[i] < s[j]
    /\ \A i \in 1..Len(s) : s[i] <= n

\* The file is what is skipped, and what is shown.
LEMMA ShownSplit ==
    ASSUME NEW l \in Seq(Entries), NEW k \in 0..Len(l)
    PROVE  /\ Shown(l, k) \in Seq(StoredMsgs) /\ Skipped(l, k) \in Seq(StoredMsgs)
           /\ Decode(l) = Skipped(l, k) \o Shown(l, k)
<1>0. Len(l) \in Nat /\ 0 \in 0..Len(l) /\ k \in 0..Len(l) /\ Len(l) \in k..Len(l) /\ 0 + 1 = 1
  OBVIOUS
<1>1. SubSeq(l, k + 1, Len(l)) \in Seq(Entries)
  BY <1>0, TwoParts
<1>2. SubSeq(l, 0 + 1, k) \in Seq(Entries)
  BY <1>0, TwoParts
<1>3. SubSeq(l, 0 + 1, Len(l)) = SubSeq(l, 0 + 1, k) \o SubSeq(l, k + 1, Len(l))
  BY <1>0, PartsJoin
<1>4. SubSeq(l, 1, Len(l)) = l
  BY WholePart
<1>5. l = SubSeq(l, 1, k) \o SubSeq(l, k + 1, Len(l))
  BY <1>0, <1>3, <1>4
<1>6. Decode(SubSeq(l, 1, k) \o SubSeq(l, k + 1, Len(l))) = Skipped(l, k) \o Shown(l, k)
  <2>1. SubSeq(l, 1, k) \in Seq(Entries)
    BY <1>0, <1>2
  <2> QED  BY <1>1, <2>1, DecodeConcat DEF Shown, Skipped
<1>7. Shown(l, k) \in Seq(StoredMsgs)
  BY <1>1, DecodeType DEF Shown
<1>8. Skipped(l, k) \in Seq(StoredMsgs)
  BY <1>0, <1>2, DecodeType DEF Skipped
<1> QED  BY <1>5, <1>6, <1>7, <1>8

\* Nothing is skipped, or everything.
LEMMA ShownAll ==
    ASSUME NEW l \in Seq(Entries)
    PROVE  /\ Shown(l, 0) = Decode(l) /\ Skipped(l, 0) = <<>>
           /\ Shown(l, Len(l)) = <<>> /\ Skipped(l, Len(l)) = Decode(l)
<1>1. SubSeq(l, 1, Len(l)) = l /\ SubSeq(l, 1, 0) = <<>> /\ SubSeq(l, Len(l) + 1, Len(l)) = <<>> /\ 0 + 1 = 1
  BY WholePart
<1> QED  BY <1>1, DecodeEmpty DEF Shown, Skipped

\* A history with one more entry.
Grown(h, e) == IF e = Torn THEN h ELSE Append(h, e)

\* A line is appended.
LEMMA ShownAppend ==
    ASSUME NEW l \in Seq(Entries), NEW k \in 0..Len(l), NEW e \in Entries, NEW a, a = Append(l, e)
    PROVE  /\ a \in Seq(Entries) /\ Len(a) = Len(l) + 1
           /\ Skipped(a, k) = Skipped(l, k)
           /\ Shown(a, k) = Grown(Shown(l, k), e)
<1>0. /\ Len(l) \in Nat /\ k \in Nat /\ k <= Len(l)
  OBVIOUS
<1>1. a \in Seq(Entries) /\ Len(a) = Len(l) + 1 /\ a[Len(l) + 1] = e /\ \A i \in 1..Len(l) : a[i] = l[i]
  OBVIOUS
<1> DEFINE p == SubSeq(a, 0 + 1, k)
           q == SubSeq(l, 0 + 1, k)
           r == SubSeq(a, k + 1, Len(a))
           s == SubSeq(l, k + 1, Len(l))
<1>2. p \in Seq(Entries) /\ Len(p) = k - 0 /\ \A n \in 1..(k - 0) : p[n] = a[0 + n]
  <2>1. 0 \in 0..Len(a) /\ k \in 0..Len(a)
    BY <1>0, <1>1
  <2> QED  BY <1>1, <2>1, TwoParts
<1>3. q \in Seq(Entries) /\ Len(q) = k - 0 /\ \A n \in 1..(k - 0) : q[n] = l[0 + n]
  <2>1. 0 \in 0..Len(l)
    BY <1>0
  <2> QED  BY <2>1, TwoParts
<1>4. r \in Seq(Entries) /\ Len(r) = Len(a) - k /\ \A n \in 1..(Len(a) - k) : r[n] = a[k + n]
  <2>1. a \in Seq(Entries) /\ k \in 0..Len(a) /\ Len(a) \in k..Len(a)
    BY <1>0, <1>1
  <2> QED  BY <2>1, TwoParts
<1>5. s \in Seq(Entries) /\ Len(s) = Len(l) - k /\ \A n \in 1..(Len(l) - k) : s[n] = l[k + n]
  <2>1. Len(l) \in k..Len(l)
    BY <1>0
  <2> QED  BY <2>1, TwoParts
<1> HIDE DEF p, q, r, s
<1>6. p = q
  <2>1. ASSUME NEW n \in 1..k
        PROVE  p[n] = q[n]
    <3>1. n \in 1..Len(l) /\ 0 + n = n /\ k - 0 = k
      BY <1>0
    <3> QED  BY <1>1, <1>2, <1>3, <3>1
  <2> QED  BY <1>0, <1>2, <1>3, <2>1, SeqEqual
<1>7. r = Append(s, e)
  <2> DEFINE b == Append(s, e)
  <2>1. b \in Seq(Entries) /\ Len(b) = Len(s) + 1 /\ b[Len(s) + 1] = e /\ \A n \in 1..Len(s) : b[n] = s[n]
    BY <1>5
  <2> HIDE DEF b
  <2>2. ASSUME NEW n \in 1..Len(r)
        PROVE  r[n] = b[n]
    <3>1. r[n] = a[k + n]
      BY <1>4
    <3>2. CASE n = Len(s) + 1
      <4>1. k + n = Len(l) + 1
        BY <1>0, <1>5, <3>2
      <4> QED  BY <1>1, <2>1, <3>1, <3>2, <4>1
    <3>3. CASE n # Len(s) + 1
      <4>1. n \in 1..Len(s) /\ k + n \in 1..Len(l) /\ n \in 1..(Len(l) - k)
        BY <1>0, <1>1, <1>4, <1>5, <3>3
      <4>2. s[n] = l[k + n] /\ a[k + n] = l[k + n] /\ b[n] = s[n]
        BY <1>1, <1>5, <2>1, <4>1
      <4> QED  BY <3>1, <4>2
    <3> QED  BY <3>2, <3>3
  <2>3. Len(r) = Len(b)
    BY <1>0, <1>1, <1>4, <1>5, <2>1
  <2>4. r = b
    BY <1>4, <2>1, <2>2, <2>3, SeqEqual
  <2> QED  BY <2>4 DEF b
<1>8. Skipped(a, k) = Skipped(l, k)
  <2>1. Skipped(a, k) = Decode(p) /\ Skipped(l, k) = Decode(q)
    BY DEF Skipped, p, q
  <2> QED  BY <1>6, <2>1
<1>9. Shown(a, k) = Decode(r) /\ Shown(l, k) = Decode(s)
  BY DEF Shown, r, s
<1>10. Decode(Append(s, e)) = Grown(Decode(s), e)
  BY <1>5, DecodeAppend DEF Grown
<1> QED  BY <1>1, <1>7, <1>8, <1>9, <1>10, Zenon

\* What is shown, in one equation.
LEMMA ShownGrows ==
    ASSUME NEW l \in Seq(Entries), NEW k \in 0..Len(l), NEW e \in Entries
    PROVE  Shown(Append(l, e), k) = Grown(Shown(l, k), e)
BY ShownAppend, Zenon

\* The last line is spoilt: a message may go, from what is shown or what is not.
LEMMA ShownTorn ==
    ASSUME NEW l \in Seq(Entries), l # <<>>, NEW k \in 0..Len(l), NEW a, a = [l EXCEPT ![Len(l)] = Torn]
    PROVE  /\ a \in Seq(Entries) /\ Len(a) = Len(l) /\ a[Len(a)] = Torn /\ Len(a) \in 1..Len(a)
           /\ \/ Decode(a) = Decode(l)
              \/ Decode(l) # <<>> /\ Decode(a) = Front(Decode(l))
           /\ \/ Shown(a, k) = Shown(l, k) /\ Skipped(a, k) = Skipped(l, k)
              \/ /\ Shown(l, k) # <<>> /\ Shown(a, k) = Front(Shown(l, k))
                 /\ Skipped(a, k) = Skipped(l, k)
              \/ /\ Skipped(l, k) # <<>> /\ Skipped(a, k) = Front(Skipped(l, k))
                 /\ Shown(a, k) = Shown(l, k)
<1> DEFINE f == Front(l)
           e == l[Len(l)]
<1>1. /\ f \in Seq(Entries) /\ e \in Entries /\ l = Append(f, e)
      /\ Len(f) = Len(l) - 1 /\ Len(l) \in Nat \ {0} /\ Len(f) \in Nat /\ Len(l) = Len(f) + 1
  BY LastSplit
<1> HIDE DEF f, e
<1>2. Torn \in Entries
  BY DEF Entries
<1>3. a = Append(f, Torn)
  <2> DEFINE b == Append(f, Torn)
  <2>1. b \in Seq(Entries) /\ Len(b) = Len(f) + 1 /\ b[Len(f) + 1] = Torn /\ \A i \in 1..Len(f) : b[i] = f[i]
    BY <1>1, <1>2
  <2>2. a \in Seq(Entries) /\ Len(a) = Len(l) /\ a[Len(l)] = Torn /\ \A i \in 1..Len(f) : a[i] = l[i]
    <3>1. Len(l) \in Nat \ {0} /\ Len(f) \in Nat /\ Len(l) = Len(f) + 1
      BY <1>1
    <3>2. a \in Seq(Entries) /\ Len(a) = Len(l)
      BY <1>2, <3>1
    <3>3. a[Len(l)] = Torn
      BY <1>2, <3>1
    <3>4. \A i \in 1..Len(f) : a[i] = l[i]
      BY <3>1
    <3> QED  BY <3>2, <3>3, <3>4
  <2>3. \A i \in 1..Len(f) : l[i] = f[i]
    BY <1>1
  <2> HIDE DEF b
  <2>4. \A i \in 1..Len(a) : a[i] = b[i]
    BY <1>1, <2>1, <2>2, <2>3
  <2>5. a = b
    BY <1>1, <2>1, <2>2, <2>4, SeqEqual
  <2> QED  BY <2>5 DEF b
<1>4. a \in Seq(Entries) /\ Len(a) = Len(l) /\ a[Len(a)] = Torn /\ Len(a) \in 1..Len(a)
  BY <1>1, <1>2
<1> DEFINE Cut(u, v) == v = u \/ (u # <<>> /\ v = Front(u))
<1>5. ASSUME NEW u, NEW v \in Seq(StoredMsgs), u = IF e = Torn THEN v ELSE Append(v, e)
      PROVE  Cut(u, v)
  <2>1. CASE e = Torn
    BY <1>5, <2>1
  <2>2. CASE e # Torn
    <3>1. e \in StoredMsgs
      BY <1>1, <2>2 DEF Entries
    <3>2. u = Append(v, e) /\ u # <<>>
      BY <1>5, <2>2, <3>1
    <3>3. Front(u) = v
      <4>1. Front(u) = SubSeq(u, 1, Len(u) - 1)
        BY DEF Front
      <4>2. Len(u) = Len(v) + 1 /\ Len(v) \in Nat /\ u \in Seq(StoredMsgs) /\ \A i \in 1..Len(v) : u[i] = v[i]
        BY <3>1, <3>2
      <4> DEFINE p == SubSeq(u, 1, Len(u) - 1)
      <4>3. p \in Seq(StoredMsgs) /\ Len(p) = Len(v) /\ \A i \in 1..Len(v) : p[i] = u[i]
        BY <4>2
      <4> HIDE DEF p
      <4>4. p = v
        BY <4>2, <4>3, SeqEqual
      <4> QED  BY <4>1, <4>4 DEF p
    <3> QED  BY <3>2, <3>3
  <2> QED  BY <2>1, <2>2
<1>6. Cut(Decode(l), Decode(a))
  <2>1. Decode(l) = IF e = Torn THEN Decode(f) ELSE Append(Decode(f), e)
    BY <1>1, DecodeAppend
  <2>2. Decode(a) = Decode(f)
    BY <1>1, <1>2, <1>3, DecodeAppend
  <2>3. Decode(f) \in Seq(StoredMsgs)
    BY <1>1, DecodeType
  <2> HIDE DEF Cut
  <2> QED  BY <1>5, <2>1, <2>2, <2>3
<1>7. CASE k = Len(l)
  <2>1. Shown(l, k) = <<>> /\ Skipped(l, k) = Decode(l)
    BY <1>7, ShownAll
  <2>2. Shown(a, k) = <<>> /\ Skipped(a, k) = Decode(a)
    BY <1>4, <1>7, ShownAll
  <2> QED  BY <1>4, <1>6, <2>1, <2>2
<1>8. CASE k # Len(l)
  <2>1. k \in 0..Len(f)
    BY <1>1, <1>8
  <2>2. /\ Skipped(l, k) = Skipped(f, k)
        /\ Shown(l, k) = IF e = Torn THEN Shown(f, k) ELSE Append(Shown(f, k), e)
    <3>1. f \in Seq(Entries) /\ e \in Entries
      BY <1>1
    <3>2. l = Append(f, e)
      BY <1>1
    <3>3. Skipped(l, k) = Skipped(f, k)
      BY <2>1, <3>1, <3>2, ShownAppend, Zenon
    <3>4. Shown(Append(f, e), k) = Grown(Shown(f, k), e)
      BY <2>1, <3>1, ShownGrows, Zenon
    <3> QED  BY <3>2, <3>3, <3>4 DEF Grown
  <2>3. Skipped(a, k) = Skipped(f, k) /\ Shown(a, k) = Shown(f, k)
    <3>1. f \in Seq(Entries)
      BY <1>1
    <3>2. Skipped(a, k) = Skipped(f, k)
      BY <1>2, <1>3, <2>1, <3>1, ShownAppend, Zenon
    <3>3. Shown(Append(f, Torn), k) = Grown(Shown(f, k), Torn)
      BY <1>2, <2>1, <3>1, ShownGrows, Zenon
    <3> QED  BY <1>3, <3>2, <3>3 DEF Grown
  <2>4. Shown(f, k) \in Seq(StoredMsgs)
    BY <1>1, <2>1, ShownSplit
  <2>5. Cut(Shown(l, k), Shown(a, k))
    <3> HIDE DEF Cut
    <3> QED  BY <1>5, <2>2, <2>3, <2>4
  <2> QED  BY <1>4, <1>6, <2>2, <2>3, <2>5
<1> QED  BY <1>7, <1>8

\* More lines are skipped.
LEMMA ShownLess ==
    ASSUME NEW l \in Seq(Entries), NEW k \in 0..Len(l), NEW m \in k..Len(l)
    PROVE  \E d \in Seq(StoredMsgs) :
              /\ Shown(l, k) = d \o Shown(l, m)
              /\ Skipped(l, m) = Skipped(l, k) \o d
<1>0. /\ Len(l) \in Nat /\ k \in Nat /\ k <= Len(l) /\ m \in 0..Len(l) /\ m \in k..Len(l)
      /\ 0 \in 0..Len(l) /\ Len(l) \in m..Len(l) /\ k \in 0..Len(l) /\ m \in 0..Len(l) /\ 0 + 1 = 1
      /\ Len(l) \in 0..Len(l)
  OBVIOUS
<1> DEFINE mid == SubSeq(l, k + 1, m)
           end == SubSeq(l, m + 1, Len(l))
           front == SubSeq(l, 1, k)
<1>1. mid \in Seq(Entries)
  BY TwoParts
<1>2. end \in Seq(Entries)
  BY <1>0, TwoParts
<1>3. front \in Seq(Entries)
  <2>1. SubSeq(l, 0 + 1, k) \in Seq(Entries)
    BY <1>0, TwoParts
  <2> QED  BY <1>0, <2>1
<1>4. SubSeq(l, k + 1, Len(l)) = mid \o end
  BY <1>0, PartsJoin
<1>5. SubSeq(l, 1, m) = front \o mid
  <2>1. SubSeq(l, 0 + 1, m) = SubSeq(l, 0 + 1, k) \o SubSeq(l, k + 1, m)
    BY <1>0, PartsJoin
  <2> QED  BY <1>0, <2>1
<1>6. Shown(l, m) = Decode(end) /\ Skipped(l, k) = Decode(front)
  BY DEF Shown, Skipped
<1> HIDE DEF mid, end, front
<1>7. Shown(l, k) = Decode(mid) \o Decode(end)
  BY <1>1, <1>2, <1>4, DecodeConcat DEF Shown
<1>8. Skipped(l, m) = Decode(front) \o Decode(mid)
  BY <1>1, <1>3, <1>5, DecodeConcat DEF Skipped
<1>9. Decode(mid) \in Seq(StoredMsgs)
  BY <1>1, DecodeType
<1> QED  BY <1>6, <1>7, <1>8, <1>9

\* The next message keeps the order.
LEMMA UptoAppend ==
    ASSUME NEW s \in Seq(StoredMsgs), NEW n \in Nat, Upto(s, n), n + 1 \in StoredMsgs,
           NEW a, a = Append(s, n + 1)
    PROVE  Upto(a, n + 1) /\ Upto(s, n + 1)
<1>0. Len(s) \in Nat /\ \A i \in 1..Len(s) : s[i] \in StoredMsgs /\ s[i] \in Nat
  BY StoreAssumption DEF StoredMsgs
<1>1. Len(a) = Len(s) + 1 /\ a[Len(s) + 1] = n + 1 /\ \A i \in 1..Len(s) : a[i] = s[i]
  BY <1>0
<1>2. \A i \in 1..Len(s) : s[i] <= n
  BY DEF Upto
<1>3. \A i \in 1..Len(s) : s[i] <= n + 1 /\ s[i] < n + 1
  BY <1>0, <1>2
<1>4. Upto(s, n + 1)
  BY <1>3 DEF Upto
<1>5. \A i \in 1..Len(a) : a[i] <= n + 1
  BY <1>0, <1>1, <1>3
<1>6. ASSUME NEW i \in 1..Len(a), NEW j \in 1..Len(a), i < j
      PROVE  a[i] < a[j]
  <2>1. i \in 1..Len(s) /\ a[i] = s[i]
    BY <1>0, <1>1, <1>6
  <2>2. CASE j = Len(s) + 1
    BY <1>1, <1>3, <2>1, <2>2
  <2>3. CASE j # Len(s) + 1
    <3>1. j \in 1..Len(s) /\ a[j] = s[j]
      BY <1>0, <1>1, <2>3
    <3>2. s[i] < s[j]
      BY <1>6, <2>1, <3>1 DEF Upto
    <3> QED  BY <2>1, <3>1, <3>2
  <2> QED  BY <2>2, <2>3
<1> QED  BY <1>4, <1>5, <1>6 DEF Upto

\* Both halves of an ordered sequence are ordered.
LEMMA UptoConcat ==
    ASSUME NEW a \in Seq(StoredMsgs), NEW b \in Seq(StoredMsgs), NEW n, NEW c, c = a \o b, Upto(c, n)
    PROVE  Upto(a, n) /\ Upto(b, n)
<1>1. /\ Len(a) \in Nat /\ Len(b) \in Nat
      /\ Len(c) = Len(a) + Len(b)
      /\ \A i \in 1..Len(a) : c[i] = a[i]
      /\ \A i \in 1..Len(b) : c[Len(a) + i] = b[i]
  OBVIOUS
<1>2. Upto(a, n)
  <2>1. \A i \in 1..Len(a) : i \in 1..Len(c)
    BY <1>1
  <2> QED  BY <1>1, <2>1 DEF Upto
<1>3. ASSUME NEW i \in 1..Len(b)
      PROVE  b[i] <= n
  <2>1. Len(a) + i \in 1..Len(c)
    BY <1>1
  <2> QED  BY <1>1, <2>1 DEF Upto
<1>4. ASSUME NEW i \in 1..Len(b), NEW j \in 1..Len(b), i < j
      PROVE  b[i] < b[j]
  <2>1. Len(a) + i \in 1..Len(c) /\ Len(a) + j \in 1..Len(c) /\ Len(a) + i < Len(a) + j
    BY <1>1, <1>4
  <2>2. c[Len(a) + i] < c[Len(a) + j]
    BY <2>1 DEF Upto
  <2> QED  BY <1>1, <2>2
<1> QED  BY <1>2, <1>3, <1>4 DEF Upto

\* A part, that may be empty.
LEMMA CutOf ==
    ASSUME NEW s \in Seq(StoredMsgs), NEW i \in 1..(Len(s) + 1), NEW j \in 0..Len(s)
    PROVE  /\ SubSeq(s, i, j) \in Seq(StoredMsgs)
           /\ \A n : Upto(s, n) => Upto(SubSeq(s, i, j), n)
<1>0. Len(s) \in Nat
  OBVIOUS
<1>1. CASE j < i
  <2>1. SubSeq(s, i, j) = <<>>
    BY <1>0, <1>1
  <2>2. \A n : Upto(<<>>, n)
    BY DEF Upto
  <2> QED  BY <2>1, <2>2
<1>2. CASE i <= j
  <2> DEFINE p == SubSeq(s, i, j)
  <2>1. p \in Seq(StoredMsgs) /\ Len(p) = j - i + 1 /\ \A k \in 1..(j - i + 1) : p[k] = s[i + k - 1]
    BY <1>0, <1>2
  <2> HIDE DEF p
  <2>2. \A k \in 1..Len(p) : i + k - 1 \in 1..Len(s)
    BY <1>0, <1>2, <2>1
  <2>3. \A k, m \in 1..Len(p) : k < m => i + k - 1 < i + m - 1
    BY <1>0, <1>2, <2>1
  <2>4. ASSUME NEW n, Upto(s, n)
        PROVE  Upto(p, n)
    <3>1. \A k \in 1..Len(p) : p[k] <= n
      BY <2>1, <2>2, <2>4 DEF Upto
    <3>2. ASSUME NEW k \in 1..Len(p), NEW m \in 1..Len(p), k < m
          PROVE  p[k] < p[m]
      <4>1. s[i + k - 1] < s[i + m - 1]
        BY <2>2, <2>3, <2>4, <3>2 DEF Upto
      <4> QED  BY <2>1, <4>1
    <3> QED  BY <3>1, <3>2 DEF Upto
  <2> QED  BY <2>1, <2>4 DEF p
<1> QED  BY <1>0, <1>1, <1>2

\* So is what is left without the last element.
LEMMA FrontUpto ==
    ASSUME NEW s \in Seq(StoredMsgs), s # <<>>, NEW n, Upto(s, n)
    PROVE  Upto(Front(s), n)
<1>1. Len(s) \in Nat \ {0}
  OBVIOUS
<1>2. 1 \in 1..(Len(s) + 1) /\ Len(s) - 1 \in 0..Len(s)
  BY <1>1
<1>3. Upto(SubSeq(s, 1, Len(s) - 1), n)
  BY <1>2, CutOf
<1> QED  BY <1>3 DEF Front

-------------------------------------------------------------------------------
CutOfBefore(content, before) ==
    \E i \in 1..(Len(before) + 1), j \in 0..Len(before) : content = SubSeq(before, i, j)
Ends(h, l) == \E p \in Seq(StoredMsgs) : Decode(l) = p \o h

FileInv ==
    /\ skip <= Len(lines)
    /\ ended \/ lines # <<>>
    /\ Upto(Decode(lines), written)

OpInv ==
    /\ Upto(op.content, written)
    /\ Rewriting => skip = 0 /\ CutOfBefore(op.content, op.before) /\ Ends(op.before, lines)
    /\ op.kind = "compact" => op.content = op.before

StoreInv == JSONLTypeOK /\ FileInv /\ OpInv

\* An idle store has no rewrite under way.
LEMMA IdleQuiet ==
    ASSUME JSONLTypeOK, op' = Idle
    PROVE  /\ op'.kind = "idle" /\ ~Rewriting'
           /\ op' \in [kind : {"idle", "append", "set", "compact"},
                       content : Seq(StoredMsgs), before : Seq(StoredMsgs)]
           /\ (written \in 0..MaxMsgs => OpInv')
<1>1. op'.kind = "idle" /\ op'.content = <<>>
  BY DEF Idle
<1>2. Upto(op'.content, written')
  BY <1>1 DEF Upto
<1>3. ~Rewriting'
  BY <1>1 DEF Rewriting
<1>4. OpInv'
  BY <1>1, <1>2, <1>3 DEF OpInv
<1>5. op' \in [kind : {"idle", "append", "set", "compact"},
              content : Seq(StoredMsgs), before : Seq(StoredMsgs)]
  BY DEF Idle
<1> QED  BY <1>1, <1>3, <1>4, <1>5

\* The invariant holds of the empty store.
LEMMA StoreStarts == JSONLInit => StoreInv
<1> SUFFICES ASSUME JSONLInit PROVE StoreInv
  OBVIOUS
<1>1. lines = <<>> /\ ended = TRUE /\ skip = 0 /\ written = 0 /\ op = Idle
  BY DEF JSONLInit
<1>2. JSONLTypeOK
  <2>1. op \in [kind : {"idle", "append", "set", "compact"},
                content : Seq(StoredMsgs), before : Seq(StoredMsgs)]
    BY <1>1 DEF Idle
  <2>2. did \in [kind : {"none", "add", "tear", "truncate", "set", "compact", "summary", "fail"},
               arg : Seq(Nat)]
    BY DEF JSONLInit, Did
  <2> QED  BY <1>1, <2>1, <2>2, StoreAssumption DEF JSONLInit, JSONLTypeOK
<1>3. Upto(<<>>, 0)
  BY DEF Upto
<1>4. FileInv
  <2>1. Decode(lines) = <<>>
    BY <1>1, DecodeEmpty
  <2>2. skip <= Len(lines)
    BY <1>1
  <2> QED  BY <1>1, <1>3, <2>1, <2>2 DEF FileInv
<1>5. OpInv
  <2>1. op.kind = "idle" /\ op.content = <<>>
    BY <1>1 DEF Idle
  <2> QED  BY <1>1, <1>3, <2>1 DEF OpInv, Rewriting
<1> QED  BY <1>2, <1>4, <1>5 DEF StoreInv

-------------------------------------------------------------------------------
(* The steps keep the invariant *)

\* The file after a write without a newline in front.
LEMMA ExtendedKeeps ==
    ASSUME StoreInv, op = Idle, written < MaxMsgs, NEW e \in {Torn, written + 1},
           NEW a, a = Extended(e)
    PROVE  /\ a \in Seq(Entries) /\ a # <<>> /\ skip <= Len(a)
           /\ Upto(Decode(a), written + 1)
<1>0. /\ lines \in Seq(Entries) /\ skip \in 0..Len(lines) /\ written \in Nat /\ Len(lines) \in Nat
      /\ skip \in Nat
      /\ written + 1 \in StoredMsgs /\ Torn \in Entries /\ e \in Entries /\ Torn \in Nat
  BY StoreAssumption DEF StoreInv, JSONLTypeOK, FileInv, Entries, StoredMsgs, Torn
<1>1. Upto(Decode(lines), written) /\ Decode(lines) \in Seq(StoredMsgs)
  BY <1>0, DecodeType DEF StoreInv, FileInv
<1>2. Upto(Decode(lines), written + 1)
  BY <1>0, <1>1, UptoAppend
<1>3. CASE ended
  <2>1. a = Append(lines, e)
    BY <1>3 DEF Extended
  <2>2. a \in Seq(Entries) /\ a # <<>> /\ Len(a) = Len(lines) + 1
    BY <1>0, <2>1
  <2>3. Decode(a) = IF e = Torn THEN Decode(lines) ELSE Append(Decode(lines), e)
    BY <1>0, <2>1, DecodeAppend
  <2>4. Upto(Decode(a), written + 1)
    <3>1. CASE e = Torn
      BY <1>2, <2>3, <3>1
    <3>2. CASE e # Torn
      <4>1. e = written + 1
        BY <3>2
      <4>2. Decode(a) = Append(Decode(lines), written + 1)
        BY <2>3, <3>2, <4>1
      <4> QED  BY <1>0, <1>1, <4>2, UptoAppend
    <3> QED  BY <3>1, <3>2
  <2> QED  BY <1>0, <2>2, <2>4
<1>4. CASE ~ended
  <2>1. a = [lines EXCEPT ![Len(lines)] = Torn] /\ lines # <<>>
    BY <1>4 DEF Extended, StoreInv, FileInv
  <2>2. /\ a \in Seq(Entries) /\ Len(a) = Len(lines)
        /\ \/ Decode(a) = Decode(lines)
           \/ Decode(lines) # <<>> /\ Decode(a) = Front(Decode(lines))
    BY <1>0, <2>1, ShownTorn
  <2>3. a # <<>>
    BY <1>0, <2>1, <2>2
  <2>4. Upto(Decode(a), written + 1)
    BY <1>1, <1>2, <2>2, FrontUpto
  <2> QED  BY <1>0, <2>2, <2>3, <2>4
<1> QED  BY <1>3, <1>4

Kinds == {"none", "add", "tear", "truncate", "set", "compact", "summary", "fail"}
DidType(kind, arg) == Did(kind, arg) \in [kind : Kinds, arg : Seq(Nat)]

\* The history variable keeps its type.
LEMMA DidIs ==
    ASSUME NEW k \in Kinds, NEW a \in Seq(Nat)
    PROVE  DidType(k, a)
BY DEF DidType, Did

\* So does the operation in progress.
LEMMA PendingIs ==
    ASSUME NEW k \in {"idle", "append", "set", "compact"}, NEW c \in Seq(StoredMsgs), NEW b \in Seq(StoredMsgs),
           NEW o, o = Pending(k, c, b)
    PROVE  /\ o \in [kind : {"idle", "append", "set", "compact"},
                     content : Seq(StoredMsgs), before : Seq(StoredMsgs)]
           /\ o.kind = k /\ o.content = c /\ o.before = b
BY DEF Pending

\* addMsg appends a line, or continues one.
LEMMA AppendKeeps == ASSUME StoreInv, AppendLine PROVE StoreInv'
<1>0. /\ op = Idle /\ written < MaxMsgs /\ written' = written + 1 /\ lines' = Extended(written + 1)
      /\ ended' = TRUE /\ op' = Pending("append", <<written + 1>>, <<>>)
      /\ did' = Did("add", <<written + 1>>)
      /\ skip' = skip /\ count' = count /\ summary' = summary /\ promised' = promised
  BY DEF AppendLine, metaVars
<1>1. /\ lines' \in Seq(Entries) /\ lines' # <<>> /\ skip <= Len(lines')
      /\ Upto(Decode(lines'), written + 1)
  BY <1>0, ExtendedKeeps
<1>2. written + 1 \in StoredMsgs /\ written + 1 \in Nat /\ written' \in 0..MaxMsgs
  BY <1>0, StoreAssumption DEF StoreInv, JSONLTypeOK, StoredMsgs
<1>3. <<written + 1>> \in Seq(StoredMsgs) /\ <<written + 1>> \in Seq(Nat) /\ <<>> \in Seq(StoredMsgs)
  BY <1>2
<1>4. /\ op' \in [kind : {"idle", "append", "set", "compact"},
                  content : Seq(StoredMsgs), before : Seq(StoredMsgs)]
      /\ op'.kind = "append" /\ op'.content = <<written + 1>>
  <2> DEFINE c == <<written + 1>>
             b == <<>>
  <2>1. op' = Pending("append", c, b) /\ c \in Seq(StoredMsgs) /\ b \in Seq(StoredMsgs)
    BY <1>0, <1>3
  <2> HIDE DEF c, b
  <2>2. /\ op' \in [kind : {"idle", "append", "set", "compact"},
                    content : Seq(StoredMsgs), before : Seq(StoredMsgs)]
        /\ op'.kind = "append" /\ op'.content = c
    BY <2>1, PendingIs
  <2> QED  BY <2>2 DEF c
<1>5. did' \in [kind : Kinds, arg : Seq(Nat)]
  <2>1. DidType("add", <<written + 1>>)
    BY <1>3, DidIs DEF Kinds
  <2> QED  BY <1>0, <2>1 DEF DidType
<1>6. JSONLTypeOK'
  BY <1>0, <1>1, <1>2, <1>4, <1>5 DEF StoreInv, JSONLTypeOK, Kinds, Entries
<1>7. FileInv'
  BY <1>0, <1>1 DEF FileInv
<1>8. OpInv'
  <2> DEFINE o == <<written + 1>>
  <2>1. Len(o) = 1 /\ o[1] = written + 1
    OBVIOUS
  <2> HIDE DEF o
  <2>2. Upto(o, written + 1)
    BY <1>2, <2>1 DEF Upto
  <2>3. ~Rewriting'
    BY <1>4 DEF Rewriting
  <2> QED  BY <1>0, <1>4, <2>2, <2>3 DEF OpInv, o
<1> QED  BY <1>6, <1>7, <1>8 DEF StoreInv

\* addMsg fails in the middle of a line.
LEMMA PartKeeps == ASSUME StoreInv, AppendPart PROVE StoreInv'
<1>0. /\ op = Idle /\ written < MaxMsgs /\ written' = written + 1
      /\ ended' = FALSE /\ op' = op
      /\ did' = Did("tear", <<written + 1>>)
      /\ skip' = skip /\ count' = count /\ summary' = summary /\ promised' = promised
  BY DEF AppendPart, metaVars
<1>1. /\ lines' \in Seq(Entries) /\ lines' # <<>> /\ skip <= Len(lines')
      /\ Upto(Decode(lines'), written + 1)
  <2>1. PICK e \in {Torn, written + 1} : lines' = Extended(e)
    BY DEF AppendPart
  <2> QED  BY <1>0, <2>1, ExtendedKeeps
<1>2. written + 1 \in StoredMsgs /\ written + 1 \in Nat /\ written' \in 0..MaxMsgs
  BY <1>0, StoreAssumption DEF StoreInv, JSONLTypeOK, StoredMsgs
<1>5. did' \in [kind : Kinds, arg : Seq(Nat)]
  <2>1. <<written + 1>> \in Seq(Nat)
    BY <1>2
  <2>2. DidType("tear", <<written + 1>>)
    BY <2>1, DidIs DEF Kinds
  <2> QED  BY <1>0, <2>2 DEF DidType
<1>6. JSONLTypeOK'
  BY <1>0, <1>1, <1>2, <1>5 DEF StoreInv, JSONLTypeOK, Kinds, Entries
<1>7. FileInv'
  BY <1>0, <1>1 DEF FileInv
<1>8. OpInv'
  <2>1. op' = Idle /\ JSONLTypeOK
    BY <1>0 DEF StoreInv
  <2> QED  BY <2>1, IdleQuiet DEF JSONLTypeOK
<1> QED  BY <1>6, <1>7, <1>8 DEF StoreInv

\* Steps that leave the file and the messages written alone, and end idle.
LEMMA QuietKeeps ==
    ASSUME StoreInv, op' = Idle, lines' = lines, ended' = ended, written' = written,
           skip' \in Nat, skip' <= Len(lines), count' \in Nat, summary' \in Summaries,
           promised' \in Seq(StoredMsgs), did' \in [kind : Kinds, arg : Seq(Nat)]
    PROVE  StoreInv'
<1>1. /\ op' \in [kind : {"idle", "append", "set", "compact"},
                  content : Seq(StoredMsgs), before : Seq(StoredMsgs)]
      /\ OpInv'
  BY IdleQuiet DEF StoreInv, JSONLTypeOK
<1>2. JSONLTypeOK'
  BY <1>1 DEF StoreInv, JSONLTypeOK, Kinds
<1>3. FileInv'
  BY DEF StoreInv, FileInv
<1> QED  BY <1>1, <1>2, <1>3 DEF StoreInv

\* The last k elements.
LEMMA TailOf ==
    ASSUME NEW S, NEW s \in Seq(S), NEW k \in Nat, k < Len(s)
    PROVE  SubSeq(s, Len(s) - k + 1, Len(s)) \in Seq(S)
<1>1. Len(s) \in Nat /\ Len(s) - k \in 0..Len(s) /\ Len(s) \in (Len(s) - k)..Len(s)
  OBVIOUS
<1> QED  BY <1>1, TwoParts

\* The metadata after an append, TruncateHistory, SetSummary, and failures.
LEMMA OthersKeep ==
    ASSUME StoreInv, \/ CountLine \/ Fail
                     \/ (\E k \in 0..MaxKeep : Truncate(k))
                     \/ (\E t \in Summaries : SetSummary(t))
    PROVE  StoreInv'
<1>0. /\ skip \in Nat /\ count \in Nat /\ Len(lines) \in Nat /\ promised \in Seq(StoredMsgs)
      /\ skip <= Len(lines) /\ op.content \in Seq(StoredMsgs) /\ summary \in Summaries
      /\ did \in [kind : Kinds, arg : Seq(Nat)]
  BY DEF StoreInv, JSONLTypeOK, FileInv, Kinds
<1>1. CASE CountLine
  <2>1. /\ op' = Idle /\ lines' = lines /\ ended' = ended /\ written' = written /\ skip' = skip
        /\ count' = count + 1 /\ summary' = summary /\ promised' = promised \o op.content /\ did' = did
    BY <1>1 DEF CountLine, fileVars
  <2>2. promised' \in Seq(StoredMsgs)
    BY <1>0, <2>1
  <2> QED  BY <1>0, <2>1, <2>2, QuietKeeps
<1>2. CASE Fail
  <2>1. /\ op' = Idle /\ lines' = lines /\ ended' = ended /\ written' = written /\ skip' = skip
        /\ count' = count /\ summary' = summary /\ promised' = promised /\ did' = Did("fail", <<>>)
    BY <1>2 DEF Fail, fileVars, metaVars
  <2>2. did' \in [kind : Kinds, arg : Seq(Nat)]
    <3>1. DidType("fail", <<>>)
      <4>1. <<>> \in Seq(Nat) /\ "fail" \in Kinds
        BY DEF Kinds
      <4> QED  BY <4>1, DidIs
    <3> QED  BY <2>1, <3>1 DEF DidType
  <2> QED  BY <1>0, <2>1, <2>2, QuietKeeps
<1>3. ASSUME NEW k \in 0..MaxKeep, Truncate(k)
      PROVE  StoreInv'
  <2>0. k \in Nat
    BY StoreAssumption
  <2>1. /\ op = Idle /\ op' = op /\ lines' = lines /\ ended' = ended /\ written' = written
        /\ skip' = IF k < Len(lines) - skip THEN Len(lines) - k ELSE skip
        /\ count' = Len(lines) /\ summary' = summary /\ did' = Did("truncate", <<k>>)
        /\ promised' = IF k < Len(promised)
                     THEN SubSeq(promised, Len(promised) - k + 1, Len(promised))
                     ELSE promised
    BY <1>3 DEF Truncate, fileVars
  <2>2. did' \in [kind : Kinds, arg : Seq(Nat)]
    <3>1. <<k>> \in Seq(Nat)
      BY <2>0
    <3>2. DidType("truncate", <<k>>)
      BY <3>1, DidIs DEF Kinds
    <3> QED  BY <2>1, <3>2 DEF DidType
  <2>3. promised' \in Seq(StoredMsgs)
    BY <1>0, <2>0, <2>1, TailOf
  <2>4. skip' \in Nat /\ skip' <= Len(lines)
    BY <1>0, <2>0, <2>1
  <2> QED  BY <1>0, <2>1, <2>2, <2>3, <2>4, QuietKeeps
<1>4. ASSUME NEW t \in Summaries, SetSummary(t)
      PROVE  StoreInv'
  <2>1. /\ op = Idle /\ op' = op /\ lines' = lines /\ ended' = ended /\ written' = written /\ skip' = skip
        /\ count' = count /\ summary' = t /\ promised' = promised /\ did' = Did("summary", <<>>)
    BY <1>4 DEF SetSummary, fileVars
  <2>2. did' \in [kind : Kinds, arg : Seq(Nat)]
    <3>1. DidType("summary", <<>>)
      <4>1. <<>> \in Seq(Nat) /\ "summary" \in Kinds
        BY DEF Kinds
      <4> QED  BY <4>1, DidIs
    <3> QED  BY <2>1, <3>1 DEF DidType
  <2> QED  BY <1>0, <2>1, <2>2, QuietKeeps
<1> QED  BY <1>1, <1>2, <1>3, <1>4

\* A rewrite is prepared: skip is 0 from now on.
LEMMA RewriteStarts ==
    ASSUME StoreInv, op = Idle, lines' = lines, ended' = ended, written' = written,
           skip' = 0, count' \in Nat, summary' = summary, promised' = promised, did' = did,
           NEW h, NEW i \in 1..(Len(Visible) + 1), NEW j \in 0..Len(Visible), h = SubSeq(Visible, i, j),
           \/ op' = Pending("set", h, Visible)
           \/ op' = Pending("compact", h, Visible) /\ h = Visible
    PROVE  StoreInv'
<1>0. lines \in Seq(Entries) /\ skip \in 0..Len(lines) /\ Len(lines) \in Nat
  BY DEF StoreInv, JSONLTypeOK, FileInv, Entries
<1>1. Visible = Shown(lines, skip)
  BY DEF Visible, Shown
<1>2. /\ Visible \in Seq(StoredMsgs) /\ Skipped(lines, skip) \in Seq(StoredMsgs)
      /\ Decode(lines) = Skipped(lines, skip) \o Visible
  BY <1>0, <1>1, ShownSplit
<1>3. Upto(Visible, written)
  <2>1. Upto(Decode(lines), written)
    BY DEF StoreInv, FileInv
  <2> QED  BY <1>2, <2>1, UptoConcat
<1>4. h \in Seq(StoredMsgs) /\ Upto(h, written)
  BY <1>2, <1>3, CutOf
<1>5. /\ op' \in [kind : {"idle", "append", "set", "compact"},
                  content : Seq(StoredMsgs), before : Seq(StoredMsgs)]
      /\ op'.content = h /\ op'.before = Visible /\ (op'.kind = "compact" => h = Visible)
  <2>1. CASE op' = Pending("set", h, Visible)
    <3> DEFINE v == Visible
    <3>1. h \in Seq(StoredMsgs) /\ v \in Seq(StoredMsgs)
      BY <1>2, <1>4
    <3>2. op' = Pending("set", h, v)
      BY <2>1
    <3> HIDE DEF v
    <3>3. /\ op' \in [kind : {"idle", "append", "set", "compact"},
                      content : Seq(StoredMsgs), before : Seq(StoredMsgs)]
          /\ op'.kind = "set" /\ op'.content = h /\ op'.before = v
      <4> DEFINE o == op'
      <4>1. o = [kind |-> "set", content |-> h, before |-> v]
        BY <3>2 DEF Pending
      <4> HIDE DEF o
      <4>2. /\ o \in [kind : {"idle", "append", "set", "compact"},
                      content : Seq(StoredMsgs), before : Seq(StoredMsgs)]
            /\ o.kind = "set" /\ o.content = h /\ o.before = v
        BY <3>1, <4>1
      <4> QED  BY <4>2 DEF o
    <3> QED  BY <3>3 DEF v
  <2>2. CASE op' = Pending("compact", h, Visible) /\ h = Visible
    BY <1>2, <1>4, <2>2, PendingIs
  <2> QED  BY <2>1, <2>2
<1>6. JSONLTypeOK'
  BY <1>5 DEF StoreInv, JSONLTypeOK
<1>7. FileInv'
  BY <1>0 DEF StoreInv, FileInv
<1>8. OpInv'
  <2>1. CutOfBefore(op'.content, op'.before)
    BY <1>5 DEF CutOfBefore
  <2>2. Ends(op'.before, lines')
    BY <1>2, <1>5 DEF Ends
  <2>3. Upto(op'.content, written')
    BY <1>4, <1>5
  <2> QED  BY <1>5, <2>1, <2>2, <2>3 DEF OpInv
<1> QED  BY <1>6, <1>7, <1>8 DEF StoreInv

\* GetHistory returns messages.
LEMMA VisibleType == ASSUME StoreInv PROVE Visible \in Seq(StoredMsgs) /\ Len(Visible) \in Nat
<1>0. lines \in Seq(Entries) /\ skip \in 0..Len(lines) /\ Len(lines) \in Nat
  BY DEF StoreInv, JSONLTypeOK, FileInv, Entries
<1>1. Visible = Shown(lines, skip)
  BY DEF Visible, Shown
<1>2. Visible \in Seq(StoredMsgs)
  BY <1>0, <1>1, ShownSplit
<1> QED  BY <1>2

\* SetHistory writes its metadata.
LEMMA SetKeeps ==
    ASSUME StoreInv, NEW i \in 1..(Len(Visible) + 1), NEW j \in 0..Len(Visible),
           SetHistory(SubSeq(Visible, i, j))
    PROVE  StoreInv'
<1> DEFINE h == SubSeq(Visible, i, j)
<1>1. h \in Seq(StoredMsgs)
  BY VisibleType, CutOf
<1>2. Len(h) \in Nat
  BY <1>1
<1>3. /\ op = Idle /\ lines' = lines /\ ended' = ended /\ written' = written
      /\ skip' = 0 /\ count' = Len(h) /\ summary' = summary /\ promised' = promised /\ did' = did
      /\ op' = Pending("set", h, Visible)
  BY DEF SetHistory, fileVars
<1> HIDE DEF h
<1>4. h = SubSeq(Visible, i, j)
  BY DEF h
<1> QED  BY <1>2, <1>3, <1>4, RewriteStarts

\* Compact writes its metadata.
LEMMA CompactKeeps == ASSUME StoreInv, Compact PROVE StoreInv'
<1>1. /\ op = Idle /\ lines' = lines /\ ended' = ended /\ written' = written
      /\ skip' = 0 /\ count' = Len(Visible) /\ summary' = summary /\ promised' = promised /\ did' = did
      /\ op' = Pending("compact", Visible, Visible)
  BY DEF Compact, fileVars
<1>2. Visible = SubSeq(Visible, 1, Len(Visible)) /\ 1 \in 1..(Len(Visible) + 1) /\ Len(Visible) \in 0..Len(Visible)
  BY VisibleType, WholePart
<1> QED  BY <1>1, <1>2, VisibleType, RewriteStarts

\* rewriteJSONL replaces the file by what GetHistory showed, or a part of it.
LEMMA RewriteKeeps == ASSUME StoreInv, Rewrite PROVE StoreInv'
<1>0. /\ lines' = op.content /\ ended' = TRUE /\ promised' = op.content /\ op' = Idle
      /\ did' = (IF op.kind = "set" THEN Did("set", op.content) ELSE Did("compact", <<>>))
      /\ skip' = skip /\ count' = count /\ summary' = summary /\ written' = written
      /\ skip = 0 /\ op.content \in Seq(StoredMsgs) /\ Upto(op.content, written)
  BY DEF Rewrite, metaVars, StoreInv, OpInv, Rewriting, JSONLTypeOK
<1>1. op.content \in Seq(Entries) /\ Decode(op.content) = op.content /\ Len(op.content) \in Nat
  BY <1>0, DecodeClean
<1>2. did' \in [kind : Kinds, arg : Seq(Nat)]
  <2>1. op.content \in Seq(Nat)
    BY <1>0, StoreAssumption DEF StoredMsgs
  <2>2. DidType("set", op.content)
    BY <2>1, DidIs DEF Kinds
  <2>3. DidType("compact", <<>>)
    <3>1. <<>> \in Seq(Nat) /\ "compact" \in Kinds
      BY DEF Kinds
    <3> QED  BY <3>1, DidIs
  <2> QED  BY <1>0, <2>2, <2>3 DEF DidType
<1>3. /\ op' \in [kind : {"idle", "append", "set", "compact"},
                  content : Seq(StoredMsgs), before : Seq(StoredMsgs)]
      /\ OpInv'
  BY <1>0, IdleQuiet DEF StoreInv, JSONLTypeOK
<1>4. JSONLTypeOK'
  BY <1>0, <1>1, <1>2, <1>3 DEF StoreInv, JSONLTypeOK, Kinds, Entries
<1>5. FileInv'
  BY <1>0, <1>1 DEF FileInv
<1> QED  BY <1>3, <1>4, <1>5 DEF StoreInv

\* Every step keeps the invariant.
LEMMA StoreKeeps == StoreInv /\ [JSONLNext]_jsonlVars => StoreInv'
<1> SUFFICES ASSUME StoreInv, [JSONLNext]_jsonlVars PROVE StoreInv'
  OBVIOUS
<1>1. CASE AppendLine
  BY <1>1, AppendKeeps
<1>2. CASE AppendPart
  BY <1>2, PartKeeps
<1>3. CASE CountLine \/ Fail \/ (\E k \in 0..MaxKeep : Truncate(k)) \/ (\E t \in Summaries : SetSummary(t))
  BY <1>3, OthersKeep
<1>4. CASE \E i \in 1..(Len(Visible) + 1), j \in 0..Len(Visible) : SetHistory(SubSeq(Visible, i, j))
  BY <1>4, SetKeeps
<1>5. CASE Compact
  BY <1>5, CompactKeeps
<1>6. CASE Rewrite
  BY <1>6, RewriteKeeps
<1>7. CASE UNCHANGED jsonlVars
  BY <1>7 DEF jsonlVars, StoreInv, JSONLTypeOK, FileInv, OpInv, Rewriting
<1> QED
  BY <1>1, <1>2, <1>3, <1>4, <1>5, <1>6, <1>7 DEF JSONLNext

\* Whatever the store has been through - writes torn off, metadata and file out
\* of step, a rewrite that never came - the lines to skip are in the file, what can
\* be read of the file is in the order it was added, and a rewrite under way holds a
\* part of what GetHistory showed when it began, which still ends the file.
THEOREM StoreInvariant == JSONLSpec => []StoreInv
  BY StoreStarts, StoreKeeps, PTL DEF JSONLSpec

\* The invariant says more than StoreConsistent.
LEMMA StoreInvIsConsistent == StoreInv => StoreConsistent
<1> SUFFICES ASSUME StoreInv PROVE StoreConsistent
  OBVIOUS
<1>0. lines \in Seq(Entries) /\ skip \in 0..Len(lines) /\ skip <= Len(lines)
  BY DEF StoreInv, JSONLTypeOK, FileInv, Entries
<1>1. Visible = Shown(lines, skip)
  BY DEF Visible, Shown
<1>2. /\ Visible \in Seq(StoredMsgs) /\ Skipped(lines, skip) \in Seq(StoredMsgs)
      /\ Decode(lines) = Skipped(lines, skip) \o Visible
  BY <1>0, <1>1, ShownSplit
<1>3. Upto(Visible, written)
  <2>1. Upto(Decode(lines), written)
    BY DEF StoreInv, FileInv
  <2> QED  BY <1>2, <2>1, UptoConcat
<1>4. DOMAIN Visible = 1..Len(Visible)
  BY <1>2
<1> QED  BY <1>0, <1>3, <1>4 DEF StoreConsistent, SkipWithinFile, HistoryInOrder, Upto

\* GetHistory never returns a message twice or out of order, and an append is never
\* hidden behind a skip that is beyond the end of the file (jsonl.go:384, 424).
THEOREM StoreStaysConsistent == JSONLSpec => []StoreConsistent
  BY StoreInvariant, StoreInvIsConsistent, PTL

\* Every variable of the store has its type.
THEOREM StoreTypes == JSONLSpec => []JSONLTypeOK
<1>1. StoreInv => JSONLTypeOK
  BY DEF StoreInv
<1> QED  BY <1>1, StoreInvariant, PTL

\* The abstract store's variables.
Hist == IF Rewriting THEN op.before ELSE Visible
Bury == IF Rewriting
          THEN SubSeq(Decode(lines), 1, Len(Decode(lines)) - Len(op.before))
          ELSE Decode(SubSeq(lines, 1, skip))
Intact == ~Undecoded

\* Without a rewrite the history is what is shown, and buried what is skipped.
LEMMA IdleMaps ==
    ASSUME StoreInv, op.kind \notin {"set", "compact"}
    PROVE  /\ Hist = Shown(lines, skip) /\ Bury = Skipped(lines, skip)
           /\ Hist \in Seq(StoredMsgs) /\ Bury \in Seq(StoredMsgs)
           /\ lines \in Seq(Entries) /\ skip \in 0..Len(lines) /\ Decode(lines) = Bury \o Hist
<1>0. lines \in Seq(Entries) /\ skip \in 0..Len(lines) /\ Len(lines) \in Nat
  BY DEF StoreInv, JSONLTypeOK, FileInv, Entries
<1>1. ~Rewriting
  BY DEF Rewriting
<1>2. Hist = Shown(lines, skip) /\ Bury = Skipped(lines, skip)
  BY <1>1 DEF Hist, Bury, Visible, Shown, Skipped
<1> QED  BY <1>0, <1>2, ShownSplit

\* During one, it is what was shown when it began, which still ends the file.
LEMMA RewritingMaps ==
    ASSUME StoreInv, Rewriting
    PROVE  /\ Hist = op.before /\ Hist \in Seq(StoredMsgs) /\ Bury \in Seq(StoredMsgs)
           /\ Decode(lines) = Bury \o Hist
<1>0. lines \in Seq(Entries) /\ op.before \in Seq(StoredMsgs)
  BY DEF StoreInv, JSONLTypeOK, FileInv, Entries
<1>1. PICK p \in Seq(StoredMsgs) : Decode(lines) = p \o op.before
  BY DEF StoreInv, OpInv, Ends
<1>2. SubSeq(Decode(lines), 1, Len(Decode(lines)) - Len(op.before)) = p
  BY <1>0, <1>1, ConcatParts
<1>3. Bury = p /\ Hist = op.before
  BY <1>2 DEF Bury, Hist
<1> QED  BY <1>0, <1>1, <1>3

\* The lines as a set.
LEMMA LinesOf ==
    ASSUME StoreInv
    PROVE  ToSet(lines) = {lines[i] : i \in 1..Len(lines)}
<1>1. DOMAIN lines = 1..Len(lines)
  BY DEF StoreInv, JSONLTypeOK
<1> QED  BY <1>1 DEF ToSet

\* The empty store is an empty store.
LEMMA InitMaps == JSONLInit => Store!StoreInit
<1> SUFFICES ASSUME JSONLInit PROVE Store!StoreInit
  OBVIOUS
<1>1. lines = <<>> /\ ended = TRUE /\ skip = 0 /\ written = 0 /\ op = Idle /\ summary = NoSummary
      /\ did = Did("none", <<>>)
  BY DEF JSONLInit
<1>2. op.kind \notin {"set", "compact"} /\ StoreInv
  BY <1>1, StoreStarts DEF Idle
<1>3. Hist = Decode(lines) /\ Bury = <<>>
  BY <1>1, <1>2, IdleMaps, ShownAll
<1>4. Hist = <<>> /\ Bury = <<>>
  BY <1>1, <1>3, DecodeEmpty
<1>5. Intact
  <2>1. ToSet(lines) = {}
    <3>1. DOMAIN lines = {}
      BY <1>1
    <3> QED  BY <3>1 DEF ToSet
  <2> QED  BY <1>1, <2>1 DEF Intact, Undecoded
<1> QED
  BY <1>1, <1>4, <1>5 DEF Store!StoreInit, Store!Did, Did, Hist, Bury, Intact

-------------------------------------------------------------------------------
\* What a write to the file that adds the entry e, or spoils the last line, does.
LEMMA ExtendedMaps ==
    ASSUME StoreInv, op = Idle, written < MaxMsgs, NEW e \in {Torn, written + 1},
           lines' = Extended(e), skip' = skip, op'.kind \notin {"set", "compact"}, StoreInv'
    PROVE  \/ /\ ended /\ Bury' = Bury
              /\ Hist' = (IF e = Torn THEN Hist ELSE Append(Hist, e))
              /\ (e # Torn => (Torn \in ToSet(lines') <=> Torn \in ToSet(lines)))
           \/ /\ ~ended /\ Torn \in ToSet(lines')
              /\ \/ Hist' = Hist /\ Bury' = Bury
                 \/ Hist # <<>> /\ Hist' = Front(Hist) /\ Bury' = Bury
                 \/ Bury # <<>> /\ Bury' = Front(Bury) /\ Hist' = Hist
<1>0. op.kind \notin {"set", "compact"}
  BY DEF Idle
<1>1. /\ Hist = Shown(lines, skip) /\ Bury = Skipped(lines, skip)
      /\ lines \in Seq(Entries) /\ skip \in 0..Len(lines)
  BY <1>0, IdleMaps
<1>2. Hist' = Shown(lines', skip') /\ Bury' = Skipped(lines', skip')
  <2>1. ~Rewriting'
    BY DEF Rewriting
  <2> QED  BY <2>1 DEF Hist, Bury, Visible, Shown, Skipped
<1>3. e \in Entries /\ Torn \in Entries
  BY StoreAssumption DEF StoreInv, JSONLTypeOK, Entries, StoredMsgs, Torn
<1>4. ToSet(lines) = {lines[i] : i \in 1..Len(lines)} /\ Len(lines) \in Nat
  BY <1>1, LinesOf
<1>5. DOMAIN lines' = 1..Len(lines')
  BY DEF StoreInv, JSONLTypeOK
<1>6. ToSet(lines') = {lines'[i] : i \in 1..Len(lines')}
  BY <1>5 DEF ToSet
<1>7. CASE ended
  <2>1. lines' = Append(lines, e)
    BY <1>7 DEF Extended
  <2>2. Skipped(lines', skip) = Skipped(lines, skip)
    <3> DEFINE a == lines'
    <3>1. a = Append(lines, e) /\ lines \in Seq(Entries) /\ skip \in 0..Len(lines) /\ e \in Entries
      BY <1>1, <1>3, <2>1
    <3> HIDE DEF a
    <3>2. Skipped(a, skip) = Skipped(lines, skip)
      BY <3>1, ShownAppend, Zenon
    <3> QED  BY <3>2 DEF a
  <2>3. Shown(lines', skip) = IF e = Torn THEN Shown(lines, skip) ELSE Append(Shown(lines, skip), e)
    <3> DEFINE a == lines'
    <3>1. a = Append(lines, e) /\ lines \in Seq(Entries) /\ skip \in 0..Len(lines) /\ e \in Entries
      BY <1>1, <1>3, <2>1
    <3> HIDE DEF a
    <3>2. Shown(Append(lines, e), skip) = Grown(Shown(lines, skip), e)
      BY <3>1, ShownGrows, Zenon
    <3> QED  BY <3>1, <3>2 DEF a, Grown
  <2>4. Len(lines') = Len(lines) + 1 /\ lines'[Len(lines) + 1] = e /\ \A i \in 1..Len(lines) : lines'[i] = lines[i]
    BY <1>1, <1>3, <2>1
  <2>5. e # Torn => (Torn \in ToSet(lines') <=> Torn \in ToSet(lines))
    <3> SUFFICES ASSUME e # Torn
                 PROVE  Torn \in ToSet(lines') <=> Torn \in ToSet(lines)
      OBVIOUS
    <3>1. ASSUME Torn \in ToSet(lines)
          PROVE  Torn \in ToSet(lines')
      <4>1. PICK i \in 1..Len(lines) : lines[i] = Torn
        BY <1>4, <3>1
      <4>2. i \in 1..Len(lines') /\ lines'[i] = Torn
        BY <1>4, <2>4, <4>1
      <4> QED  BY <1>6, <4>2
    <3>2. ASSUME Torn \in ToSet(lines')
          PROVE  Torn \in ToSet(lines)
      <4>1. PICK i \in 1..Len(lines') : lines'[i] = Torn
        BY <1>6, <3>2
      <4>2. i \in 1..Len(lines) /\ lines[i] = Torn
        BY <1>4, <2>4, <4>1
      <4> QED  BY <1>4, <4>2
    <3> QED  BY <3>1, <3>2
  <2> QED  BY <1>1, <1>2, <1>7, <2>2, <2>3, <2>5
<1>8. CASE ~ended
  <2>1. lines' = [lines EXCEPT ![Len(lines)] = Torn] /\ lines # <<>>
    BY <1>8 DEF Extended, StoreInv, FileInv
  <2>2. lines'[Len(lines')] = Torn /\ Len(lines') \in 1..Len(lines')
    BY <1>1, <2>1, ShownTorn
  <2>3. \/ Shown(lines', skip) = Shown(lines, skip) /\ Skipped(lines', skip) = Skipped(lines, skip)
        \/ /\ Shown(lines, skip) # <<>> /\ Shown(lines', skip) = Front(Shown(lines, skip))
           /\ Skipped(lines', skip) = Skipped(lines, skip)
        \/ /\ Skipped(lines, skip) # <<>> /\ Skipped(lines', skip) = Front(Skipped(lines, skip))
           /\ Shown(lines', skip) = Shown(lines, skip)
    BY <1>1, <2>1, ShownTorn
  <2>4. Torn \in ToSet(lines')
    BY <1>6, <2>2
  <2> QED  BY <1>1, <1>2, <1>8, <2>3, <2>4
<1> QED  BY <1>7, <1>8

\* An append adds a message; behind an unfinished line it is lost, and may take a message along.
LEMMA AppendMaps == ASSUME StoreInv, StoreInv', AppendLine PROVE Store!StoreNext
<1>0. /\ op = Idle /\ written < MaxMsgs /\ lines' = Extended(written + 1)
      /\ ended' = TRUE /\ op' = Pending("append", <<written + 1>>, <<>>)
      /\ did' = Did("add", <<written + 1>>)
      /\ skip' = skip /\ summary' = summary
  BY DEF AppendLine, metaVars
<1>1. op'.kind \notin {"set", "compact"}
  BY <1>0 DEF Pending
<1>2. written + 1 \in StoredMsgs /\ written + 1 # Torn
  BY <1>0, StoreAssumption DEF StoreInv, JSONLTypeOK, StoredMsgs, Torn
<1>3. \/ /\ ended /\ Bury' = Bury
         /\ Hist' = Append(Hist, written + 1)
         /\ (Torn \in ToSet(lines') <=> Torn \in ToSet(lines))
      \/ /\ ~ended /\ Torn \in ToSet(lines')
         /\ \/ Hist' = Hist /\ Bury' = Bury
            \/ Hist # <<>> /\ Hist' = Front(Hist) /\ Bury' = Bury
            \/ Bury # <<>> /\ Bury' = Front(Bury) /\ Hist' = Hist
  BY <1>0, <1>1, <1>2, ExtendedMaps
<1>4. CASE ended
  <2>1. Intact' = Intact
    BY <1>0, <1>3, <1>4 DEF Intact, Undecoded
  <2>2. Store!Add(written + 1)
    BY <1>0, <1>3, <1>4, <2>1 DEF Store!Add, Store!Did, Did, Hist, Bury, Intact
  <2> QED  BY <1>2, <2>2 DEF Store!StoreNext
<1>5. CASE ~ended
  <2>1. ~Intact /\ Intact' = Intact
    BY <1>3, <1>5 DEF Intact, Undecoded
  <2>2. Store!Spoil(written + 1)
    BY <1>0, <1>3, <1>5, <2>1 DEF Store!Spoil, Store!Did, Did, Hist, Bury, Intact, Front, Store!Front
  <2> QED  BY <1>2, <2>2 DEF Store!StoreNext
<1> QED  BY <1>4, <1>5

\* A half-way append tears.
LEMMA PartMaps == ASSUME StoreInv, StoreInv', AppendPart PROVE Store!StoreNext
<1>0. /\ op = Idle /\ written < MaxMsgs
      /\ ended' = FALSE /\ op' = op
      /\ did' = Did("tear", <<written + 1>>)
      /\ skip' = skip /\ summary' = summary
  BY DEF AppendPart, metaVars
<1>1. op'.kind \notin {"set", "compact"}
  BY <1>0 DEF Idle
<1>2. written + 1 \in StoredMsgs
  BY <1>0, StoreAssumption DEF StoreInv, JSONLTypeOK, StoredMsgs
<1>3. PICK e \in {Torn, written + 1} : lines' = Extended(e)
  BY DEF AppendPart
<1>4. \/ /\ ended /\ Bury' = Bury
         /\ Hist' = (IF e = Torn THEN Hist ELSE Append(Hist, e))
      \/ /\ ~ended
         /\ \/ Hist' = Hist /\ Bury' = Bury
            \/ Hist # <<>> /\ Hist' = Front(Hist) /\ Bury' = Bury
            \/ Bury # <<>> /\ Bury' = Front(Bury) /\ Hist' = Hist
  BY <1>0, <1>1, <1>3, ExtendedMaps
<1>5. ~Intact' /\ (~ended => ~Intact)
  BY <1>0 DEF Intact, Undecoded
<1>6. \/ Hist' \in {Hist, Append(Hist, written + 1)} /\ Bury' = Bury
      \/ ~Intact /\ Hist # <<>> /\ Hist' = Front(Hist) /\ Bury' = Bury
      \/ ~Intact /\ Bury # <<>> /\ Bury' = Front(Bury) /\ Hist' = Hist
  BY <1>3, <1>4, <1>5
<1>7. Store!Tear(written + 1)
  BY <1>0, <1>5, <1>6 DEF Store!Tear, Store!Did, Did, Hist, Bury, Intact, Front, Store!Front
<1> QED  BY <1>2, <1>7 DEF Store!StoreNext

\* TruncateHistory keeps the messages of the last k lines: k of them, if all can be read.
LEMMA TruncateMaps ==
    ASSUME StoreInv, NEW k \in 0..MaxKeep, Truncate(k)
    PROVE  Store!StoreNext
<1>0. /\ op = Idle /\ op' = op /\ lines' = lines /\ ended' = ended
      /\ skip' = IF k < Len(lines) - skip THEN Len(lines) - k ELSE skip
      /\ summary' = summary /\ did' = Did("truncate", <<k>>)
  BY DEF Truncate, fileVars
<1>1. /\ Hist = Shown(lines, skip) /\ Bury = Skipped(lines, skip)
      /\ Hist \in Seq(StoredMsgs) /\ Bury \in Seq(StoredMsgs)
      /\ lines \in Seq(Entries) /\ skip \in 0..Len(lines)
  BY <1>0, IdleMaps DEF Idle
<1>2. Hist' = Shown(lines', skip') /\ Bury' = Skipped(lines', skip')
  <2>1. ~Rewriting'
    BY <1>0 DEF Rewriting, Idle
  <2> QED  BY <2>1 DEF Hist, Bury, Visible, Shown, Skipped
<1>3. Intact' = Intact
  BY <1>0 DEF Intact, Undecoded
<1>4. k \in Nat /\ Len(lines) \in Nat /\ skip \in Nat /\ skip <= Len(lines) /\ Len(Hist) \in Nat
  BY <1>1, StoreAssumption
<1> DEFINE Kept(j) == /\ j <= k
                      /\ Intact => j = k \/ j = Len(Hist)
                      /\ Hist' = SubSeq(Hist, Len(Hist) - j + 1, Len(Hist))
                      /\ Bury' = Bury \o SubSeq(Hist, 1, Len(Hist) - j)
<1>5. \E j \in 0..Len(Hist) : Kept(j)
  <2>1. CASE k < Len(lines) - skip
    <3> DEFINE m == Len(lines) - k
    <3>1. m \in skip..Len(lines) /\ m \in 0..Len(lines) /\ skip' = m /\ Len(lines) \in m..Len(lines)
      BY <1>0, <1>4, <2>1
    <3>2. PICK d \in Seq(StoredMsgs) :
              /\ Shown(lines, skip) = d \o Shown(lines, m)
              /\ Skipped(lines, m) = Skipped(lines, skip) \o d
      BY <1>1, <3>1, ShownLess
    <3> DEFINE tail == SubSeq(lines, m + 1, Len(lines))
               h == Shown(lines, m)
    <3>3. /\ tail \in Seq(Entries) /\ Len(tail) = Len(lines) - m
          /\ \A i \in 1..(Len(lines) - m) : tail[i] = lines[m + i]
      BY <1>1, <3>1, TwoParts
    <3>4. Len(tail) = k
      BY <1>4, <3>3
    <3>5. h = Decode(tail)
      BY DEF Shown
    <3> HIDE DEF tail, h
    <3>6. h \in Seq(StoredMsgs) /\ Len(h) <= k /\ Len(h) \in Nat
      BY <3>3, <3>4, <3>5, DecodeShort, DecodeType
    <3>7. Hist' = h /\ Bury' = Bury \o d
      BY <1>0, <1>1, <1>2, <3>1, <3>2 DEF h
    <3>8. Hist = d \o h
      BY <1>1, <3>2 DEF h
    <3>9. /\ Len(Hist) = Len(d) + Len(h)
          /\ SubSeq(Hist, 1, Len(Hist) - Len(h)) = d
          /\ SubSeq(Hist, Len(Hist) - Len(h) + 1, Len(Hist)) = h
      BY <3>6, <3>8, ConcatParts
    <3>10. Intact => Len(h) = k
      <4> SUFFICES ASSUME Intact PROVE Len(h) = k
        OBVIOUS
      <4>1. \A i \in 1..Len(lines) : lines[i] # Torn
        <5>1. Torn \notin {lines[i] : i \in 1..Len(lines)}
          BY LinesOf DEF Intact, Undecoded
        <5> QED  BY <5>1
      <4>2. ASSUME NEW i \in 1..Len(tail)
            PROVE  tail[i] \in StoredMsgs
        <5>1. m + i \in 1..Len(lines) /\ i \in 1..(Len(lines) - m)
          BY <1>4, <3>1, <3>3
        <5>2. tail[i] = lines[m + i] /\ lines[m + i] # Torn /\ lines[m + i] \in Entries
          BY <1>1, <3>3, <4>1, <5>1
        <5> QED  BY <5>2 DEF Entries
      <4>3. tail \in Seq(StoredMsgs)
        BY <3>3, <4>2
      <4>4. Decode(tail) = tail
        BY <4>3, DecodeClean
      <4> QED  BY <3>4, <3>5, <4>4
    <3>11. Len(h) \in 0..Len(Hist)
      <4>1. Len(d) \in Nat
        OBVIOUS
      <4> QED  BY <3>6, <3>9, <4>1
    <3>12. Kept(Len(h))
      BY <3>6, <3>7, <3>9, <3>10
    <3> HIDE DEF Kept
    <3> QED  BY <3>11, <3>12
  <2>2. CASE ~(k < Len(lines) - skip)
    <3>1. skip' = skip
      BY <1>0, <2>2
    <3>2. Hist' = Hist /\ Bury' = Bury
      BY <1>0, <1>1, <1>2, <3>1
    <3> DEFINE tail == SubSeq(lines, skip + 1, Len(lines))
    <3>3. tail \in Seq(Entries) /\ Len(tail) = Len(lines) - skip
      <4>1. Len(lines) \in skip..Len(lines)
        BY <1>4
      <4> QED  BY <1>1, <4>1, TwoParts
    <3>4. Hist = Decode(tail)
      BY <1>1 DEF Shown
    <3> HIDE DEF tail
    <3>5. Len(Hist) <= k
      BY <1>4, <2>2, <3>3, <3>4, DecodeShort
    <3>6. Len(Hist) - Len(Hist) = 0 /\ 0 + 1 = 1 /\ Len(Hist) \in 0..Len(Hist)
      BY <1>4
    <3>7. SubSeq(Hist, 1, Len(Hist)) = Hist /\ SubSeq(Hist, 1, 0) = <<>>
      BY <1>1, WholePart
    <3>8. Bury \o <<>> = Bury
      BY <1>1, ConcatEmpty
    <3>9. Kept(Len(Hist))
      BY <3>2, <3>5, <3>6, <3>7, <3>8
    <3> HIDE DEF Kept
    <3> QED  BY <3>6, <3>9
  <2> QED  BY <2>1, <2>2
<1>6. Store!Truncate(k)
  BY <1>0, <1>3, <1>5 DEF Store!Truncate, Store!LastOf, Store!Did, Did, Hist, Bury, Intact
<1> QED  BY <1>6 DEF Store!StoreNext

\* A rewrite is prepared, and nothing shows it.
LEMMA PrepareMaps ==
    ASSUME StoreInv, op = Idle, lines' = lines, ended' = ended, summary' = summary, did' = did,
           op'.kind \in {"set", "compact"}, op'.before = Visible
    PROVE  UNCHANGED Store!svars
<1>1. /\ Hist = Visible /\ Bury \in Seq(StoredMsgs) /\ Hist \in Seq(StoredMsgs)
      /\ Decode(lines) = Bury \o Hist
  <2>1. op.kind \notin {"set", "compact"}
    BY DEF Idle
  <2>2. Hist = Visible
    BY <2>1 DEF Hist, Rewriting
  <2> QED  BY <2>1, <2>2, IdleMaps
<1>2. SubSeq(Decode(lines), 1, Len(Decode(lines)) - Len(Hist)) = Bury
  BY <1>1, ConcatParts
<1>3. Rewriting'
  BY DEF Rewriting
<1>4. Hist' = Visible
  BY <1>3 DEF Hist
<1>5. Bury' = SubSeq(Decode(lines), 1, Len(Decode(lines)) - Len(Visible))
  BY <1>3 DEF Bury
<1>6. Hist' = Hist /\ Bury' = Bury /\ Intact' = Intact
  BY <1>1, <1>2, <1>4, <1>5 DEF Intact, Undecoded
<1> QED  BY <1>6 DEF Store!svars, Hist, Bury, Intact

\* The rewrite is where SetHistory and Compact take effect.
LEMMA RewriteMaps == ASSUME StoreInv, Rewrite PROVE Store!StoreNext
<1>0. /\ lines' = op.content /\ ended' = TRUE /\ op' = Idle
      /\ did' = (IF op.kind = "set" THEN Did("set", op.content) ELSE Did("compact", <<>>))
      /\ skip' = skip /\ summary' = summary /\ Rewriting
  BY DEF Rewrite, metaVars, Rewriting
<1>1. /\ skip = 0 /\ op.content \in Seq(StoredMsgs) /\ CutOfBefore(op.content, op.before)
      /\ (op.kind = "compact" => op.content = op.before)
  BY <1>0 DEF StoreInv, OpInv, JSONLTypeOK
<1>2. op.content \in Seq(Entries) /\ Decode(op.content) = op.content
  BY <1>1, DecodeClean
<1>3. Hist' = op.content /\ Bury' = <<>>
  <2>1. ~Rewriting'
    BY <1>0 DEF Rewriting, Idle
  <2>2. Hist' = Shown(lines', skip') /\ Bury' = Skipped(lines', skip')
    BY <2>1 DEF Hist, Bury, Visible, Shown, Skipped
  <2>3. Shown(op.content, 0) = op.content /\ Skipped(op.content, 0) = <<>>
    BY <1>2, ShownAll
  <2> QED  BY <1>0, <1>1, <2>2, <2>3
<1>4. Intact' = TRUE
  <2>1. Torn \notin ToSet(op.content)
    <3>1. Torn \notin StoredMsgs
      BY DEF Torn, StoredMsgs
    <3>2. \A i \in DOMAIN op.content : op.content[i] \in StoredMsgs
      BY <1>1
    <3> QED  BY <3>1, <3>2 DEF ToSet
  <2> QED  BY <1>0, <2>1 DEF Intact, Undecoded
<1>5. Hist = op.before
  BY <1>0 DEF Hist
<1>6. CASE op.kind = "set"
  <2>1. op.content \in Store!Cuts(Hist)
    <3>1. PICK i \in 1..(Len(op.before) + 1), j \in 0..Len(op.before) : op.content = SubSeq(op.before, i, j)
      BY <1>1 DEF CutOfBefore
    <3>2. i \in 1..Len(Hist) + 1 /\ j \in 0..Len(Hist) /\ op.content = SubSeq(Hist, i, j)
      BY <1>5, <3>1
    <3> QED  BY <3>2 DEF Store!Cuts
  <2>2. Store!Set(op.content)
    BY <1>0, <1>3, <1>4, <1>6 DEF Store!Set, Store!Did, Did, Hist, Bury, Intact
  <2> QED  BY <2>1, <2>2 DEF Store!StoreNext, Hist
<1>7. CASE op.kind # "set"
  <2>1. op.content = op.before
    BY <1>0, <1>1, <1>7 DEF Rewriting
  <2>2. Store!Compact
    BY <1>0, <1>3, <1>4, <1>5, <1>7, <2>1 DEF Store!Compact, Store!Did, Did, Hist, Bury, Intact
  <2> QED  BY <2>2 DEF Store!StoreNext
<1> QED  BY <1>6, <1>7

\* A failure shows the whole file again if a rewrite was prepared, and changes nothing else.
LEMMA FailMaps == ASSUME StoreInv, Fail PROVE Store!StoreNext
<1>0. /\ op' = Idle /\ lines' = lines /\ ended' = ended /\ skip' = skip
      /\ summary' = summary /\ did' = Did("fail", <<>>)
  BY DEF Fail, fileVars, metaVars
<1>1. Hist' = Shown(lines, skip) /\ Bury' = Skipped(lines, skip)
  <2>1. ~Rewriting'
    BY <1>0 DEF Rewriting, Idle
  <2> QED  BY <1>0, <2>1 DEF Hist, Bury, Visible, Shown, Skipped
<1>2. Intact' = Intact
  BY <1>0 DEF Intact, Undecoded
<1>3. \/ Hist' = Bury \o Hist /\ Bury' = <<>>
      \/ Hist' = Hist /\ Bury' = Bury
  <2>1. CASE Rewriting
    <3>1. skip = 0 /\ lines \in Seq(Entries)
      BY <2>1 DEF StoreInv, OpInv, JSONLTypeOK, Entries
    <3>2. Decode(lines) = Bury \o Hist
      BY <2>1, RewritingMaps
    <3> QED  BY <1>1, <3>1, <3>2, ShownAll
  <2>2. CASE ~Rewriting
    <3>1. Hist = Shown(lines, skip) /\ Bury = Skipped(lines, skip)
      BY <2>2, IdleMaps DEF Rewriting
    <3> QED  BY <1>1, <3>1
  <2> QED  BY <2>1, <2>2
<1>4. Store!Failed
  BY <1>0, <1>2, <1>3 DEF Store!Failed, Store!Did, Did, Hist, Bury, Intact
<1> QED  BY <1>4 DEF Store!StoreNext

\* Every step of the code is a step of the abstract store, or none.
LEMMA StepMaps == StoreInv /\ StoreInv' /\ [JSONLNext]_jsonlVars => [Store!StoreNext]_(Store!svars)
<1> SUFFICES ASSUME StoreInv, StoreInv', [JSONLNext]_jsonlVars
             PROVE  Store!StoreNext \/ UNCHANGED Store!svars
  OBVIOUS
<1>1. CASE AppendLine
  BY <1>1, AppendMaps
<1>2. CASE AppendPart
  BY <1>2, PartMaps
<1>3. CASE CountLine
  <2>1. /\ op' = Idle /\ lines' = lines /\ ended' = ended /\ skip' = skip
        /\ summary' = summary /\ did' = did /\ op.kind = "append"
    BY <1>3 DEF CountLine, fileVars
  <2>2. ~Rewriting /\ ~Rewriting'
    BY <2>1 DEF Rewriting, Idle
  <2>3. Hist' = Hist /\ Bury' = Bury /\ Intact' = Intact
    BY <2>1, <2>2 DEF Hist, Bury, Visible, Intact, Undecoded
  <2> QED  BY <2>1, <2>3 DEF Store!svars, Hist, Bury, Intact
<1>4. ASSUME NEW k \in 0..MaxKeep, Truncate(k)
      PROVE  Store!StoreNext
  BY <1>4, TruncateMaps
<1>5. ASSUME NEW t \in Summaries, SetSummary(t)
      PROVE  Store!StoreNext
  <2>1. /\ op' = op /\ lines' = lines /\ ended' = ended /\ skip' = skip
        /\ summary' = t /\ did' = Did("summary", <<>>)
    BY <1>5 DEF SetSummary, fileVars
  <2>2. Hist' = Hist /\ Bury' = Bury /\ Intact' = Intact
    BY <2>1 DEF Hist, Bury, Visible, Intact, Undecoded, Rewriting
  <2>3. Store!SetSummary(t)
    BY <2>1, <2>2 DEF Store!SetSummary, Store!Did, Did, Hist, Bury, Intact
  <2> QED  BY <2>3 DEF Store!StoreNext
<1>6. ASSUME NEW h, SetHistory(h)
      PROVE  UNCHANGED Store!svars
  <2>1. /\ op = Idle /\ lines' = lines /\ ended' = ended /\ summary' = summary /\ did' = did
        /\ op' = Pending("set", h, Visible)
    BY <1>6 DEF SetHistory, fileVars
  <2>2. op'.kind \in {"set", "compact"} /\ op'.before = Visible
    BY <2>1 DEF Pending
  <2> QED  BY <2>1, <2>2, PrepareMaps
<1>7. CASE Compact
  <2>1. /\ op = Idle /\ lines' = lines /\ ended' = ended /\ summary' = summary /\ did' = did
        /\ op' = Pending("compact", Visible, Visible)
    BY <1>7 DEF Compact, fileVars
  <2>2. op'.kind \in {"set", "compact"} /\ op'.before = Visible
    BY <2>1 DEF Pending
  <2> QED  BY <2>1, <2>2, PrepareMaps
<1>8. CASE Rewrite
  BY <1>8, RewriteMaps
<1>9. CASE Fail
  BY <1>9, FailMaps
<1>10. CASE UNCHANGED jsonlVars
  <2>1. /\ op' = op /\ lines' = lines /\ ended' = ended /\ skip' = skip
        /\ summary' = summary /\ did' = did
    BY <1>10 DEF jsonlVars
  <2>2. Hist' = Hist /\ Bury' = Bury /\ Intact' = Intact
    BY <2>1 DEF Hist, Bury, Visible, Intact, Undecoded, Rewriting
  <2> QED  BY <2>1, <2>2 DEF Store!svars, Hist, Bury, Intact
<1> QED
  BY <1>1, <1>2, <1>3, <1>4, <1>5, <1>6, <1>7, <1>8, <1>9, <1>10 DEF JSONLNext

\* The two files implement memory.Store with its failures, for any number of
\* messages: every write of the code is one operation of the store, or none.
THEOREM StoreImplements == JSONLSpec => ImplementsStore
<1>1. JSONLInit => Store!StoreInit
  BY InitMaps
<1>2. StoreInv /\ StoreInv' /\ [JSONLNext]_jsonlVars => [Store!StoreNext]_(Store!svars)
  BY StepMaps
<1>3. JSONLSpec => []StoreInv
  BY StoreInvariant
<1> QED  BY <1>1, <1>2, <1>3, PTL DEF JSONLSpec, ImplementsStore, Store!StoreSpec

-------------------------------------------------------------------------------
(* The import of legacy sessions *)

MigrationShape ==
    /\ json \in [SessionKeys -> SUBSET (Chatter \cup {Old})]
    /\ jsonl \in [SessionKeys -> SUBSET (Chatter \cup {Old})]
    /\ said \in [SessionKeys -> SUBSET (Chatter \cup {Old})]
    /\ sessions \in [SessionKeys -> SUBSET (Chatter \cup {Old})]
    /\ unsaved \in [SessionKeys -> SUBSET Chatter]
    /\ todo \in Seq(SessionKeys)
    /\ ioErrors \in Nat
    /\ step = "history" \/ (backend = "migrating" /\ todo # <<>>)

\* What the import keeps: a session that has a legacy file is still what that
\* file says, and the others are in the JSONL store.
Imported ==
    /\ \A k \in SessionKeys : json[k] # NoFile => json[k] = said[k]
    /\ \A k \in SessionKeys : json[k] = NoFile => jsonl[k] = said[k]

\* Where an import is: the files still there are those it has to do, in any
\* order and each once, and the first of them has been copied when it is renamed.
InProgress ==
    /\ backend \in {"down", "migrating", "jsonl"}
    /\ backend = "jsonl" => \A k \in SessionKeys : json[k] = NoFile
    /\ backend = "migrating" =>
         /\ \A k \in SessionKeys : json[k] # NoFile => \E i \in 1..Len(todo) : todo[i] = k
         /\ \A i \in 1..Len(todo) : json[todo[i]] # NoFile
         /\ \A i, j \in 1..Len(todo) : todo[i] = todo[j] => i = j
         /\ step # "history" => jsonl[todo[1]] = json[todo[1]]

MigrationInv == MigrationShape /\ (ioErrors = 0 => Imported /\ InProgress)

-------------------------------------------------------------------------------
\* An order of the files has each of them once.
LEMMA OrderHasAll ==
  ASSUME NEW S, IsFiniteSet(S), NEW s \in SetToSeqs(S)
  PROVE  /\ s \in Seq(S)
         /\ \A x \in S : \E i \in 1..Len(s) : s[i] = x
         /\ \A i, j \in 1..Len(s) : s[i] = s[j] => i = j
         /\ \A i \in 1..Len(s) : s[i] \in S
<1> DEFINE n == Cardinality(S)
<1>1. n \in Nat
  BY FS_CardinalityType
<1>2. s \in [1..n -> S] /\ \A i, j \in 1..n : i # j => s[i] # s[j]
  BY DEF SetToSeqs
<1>3. s \in Seq(S) /\ Len(s) = n
  BY <1>1, <1>2
<1>4. s \in Injection(1..n, S)
  BY <1>2 DEF Injection, IsInjective
<1>5. Cardinality(1..n) = n
  BY <1>1, FS_Interval
<1>6. s \in Surjection(1..n, S)
  BY <1>4, <1>5, FS_Injection
<1> QED
  BY <1>2, <1>3, <1>6 DEF Surjection

\* The first file, and the others.
LEMMA FirstOf ==
  ASSUME NEW s \in Seq(SessionKeys), s # <<>>
  PROVE  /\ Head(s) = s[1] /\ Head(s) \in SessionKeys /\ 1 \in 1..Len(s)
         /\ Tail(s) \in Seq(SessionKeys) /\ Len(Tail(s)) = Len(s) - 1
         /\ \A i \in 1..Len(Tail(s)) : i + 1 \in 1..Len(s) /\ Tail(s)[i] = s[i + 1]
         /\ \A i \in 2..Len(s) : i - 1 \in 1..Len(Tail(s)) /\ Tail(s)[i - 1] = s[i]
  OBVIOUS

\* The SessionManager's sessions keep their type.
LEMMA FallBackTyped ==
  ASSUME MigrationShape, FallBack, UNCHANGED json
  PROVE  sessions' \in [SessionKeys -> SUBSET (Chatter \cup {Old})] /\ <<>> \in Seq(SessionKeys)
  BY DEF MigrationShape, FallBack, Loaded

\* Types are kept.
LEMMA MigrationShapeKept ==
  ASSUME MigrationInv, [MigrationNext]_migrationVars
  PROVE  MigrationShape'
<1> USE DEF MigrationInv, MigrationShape
<1>1. CASE StartProcess
  <2>1. LegacyFiles \in SUBSET SessionKeys /\ IsFiniteSet(LegacyFiles)
    BY MigrationAssumption, FS_Subset DEF LegacyFiles
  <2>2. todo' \in Seq(SessionKeys)
    BY <1>1, <2>1, OrderHasAll DEF StartProcess
  <2> QED
    BY <1>1, <2>2 DEF StartProcess, diskVars
<1>2. CASE EndProcess
  <2>1. Empty \in [SessionKeys -> SUBSET Chatter] /\ <<>> \in Seq(SessionKeys)
    BY DEF Empty
  <2> QED
    BY <1>2, <2>1 DEF EndProcess, diskVars
<1>3. CASE ImportHistory
  <2>1. Head(todo) \in SessionKeys /\ todo # <<>>
    BY <1>3, FirstOf DEF ImportHistory
  <2>2. CASE FallBack /\ IOError /\ UNCHANGED jsonl
    BY <1>3, <2>2, FallBackTyped DEF ImportHistory, ImportUnchanged, FallBack, IOError
  <2>3. CASE /\ jsonl' = [jsonl EXCEPT ![Head(todo)] = json[Head(todo)]] /\ step' = "summary"
             /\ UNCHANGED <<backend, todo, sessions, ioErrors>>
    BY <1>3, <2>1, <2>3 DEF ImportHistory, ImportUnchanged
  <2> QED
    BY <1>3, <2>2, <2>3 DEF ImportHistory
<1>4. CASE ImportSummary
  <2>1. CASE FallBack /\ IOError
    BY <1>4, <2>1, FallBackTyped DEF ImportSummary, ImportUnchanged, FallBack, IOError, diskVars
  <2>2. CASE step' = "rename" /\ UNCHANGED <<backend, todo, sessions, ioErrors>>
    BY <1>4, <2>2, FirstOf DEF ImportSummary, ImportUnchanged, diskVars
  <2> QED
    BY <1>4, <2>1, <2>2 DEF ImportSummary
<1>5. CASE RenameLegacy
  <2>1. Head(todo) \in SessionKeys /\ Tail(todo) \in Seq(SessionKeys)
    BY <1>5, FirstOf DEF RenameLegacy
  <2> QED
    BY <1>5, <2>1 DEF RenameLegacy, ImportUnchanged, IOError, NoFile
<1>6. CASE MigrationDone
  BY <1>6 DEF MigrationDone, ImportUnchanged, diskVars
<1>7. ASSUME NEW k \in SessionKeys, SaveSession(k)
      PROVE  MigrationShape'
  <2>1. unsaved' \in [SessionKeys -> SUBSET Chatter]
    BY <1>7 DEF SaveSession
  <2> QED
    BY <1>7, <2>1 DEF SaveSession
<1>8. ASSUME NEW k \in SessionKeys, NEW m \in Chatter, AddFullMessage(k, m)
      PROVE  MigrationShape'
  BY <1>8 DEF AddFullMessage
<1>9. CASE UNCHANGED migrationVars
  BY <1>9 DEF migrationVars, diskVars
<1> QED
  BY <1>1, <1>2, <1>3, <1>4, <1>5, <1>6, <1>7, <1>8, <1>9 DEF MigrationNext

\* What is imported and what is left to import stay as they should be.
LEMMA ImportKept ==
  ASSUME MigrationInv, [MigrationNext]_migrationVars, ioErrors' = 0
  PROVE  Imported' /\ InProgress'
<1> USE DEF MigrationInv, MigrationShape, Imported, InProgress
<1>1. ioErrors = 0 /\ ioErrors' = ioErrors
  BY DEF MigrationNext, StartProcess, EndProcess, ImportHistory, ImportSummary, RenameLegacy,
         MigrationDone, SaveSession, AddFullMessage, IOError, ImportUnchanged, migrationVars
<1>2. ~IOError
  BY <1>1 DEF IOError
<1>3. CASE StartProcess
  <2>1. LegacyFiles \in SUBSET SessionKeys /\ IsFiniteSet(LegacyFiles)
    BY MigrationAssumption, FS_Subset DEF LegacyFiles
  <2>2. /\ \A k \in SessionKeys : json[k] # NoFile => \E i \in 1..Len(todo') : todo'[i] = k
        /\ \A i \in 1..Len(todo') : json[todo'[i]] # NoFile
        /\ \A i, j \in 1..Len(todo') : todo'[i] = todo'[j] => i = j
    <3>1. todo' \in SetToSeqs(LegacyFiles)
      BY <1>3 DEF StartProcess
    <3>2. /\ \A x \in LegacyFiles : \E i \in 1..Len(todo') : todo'[i] = x
          /\ \A i, j \in 1..Len(todo') : todo'[i] = todo'[j] => i = j
          /\ \A i \in 1..Len(todo') : todo'[i] \in LegacyFiles
      BY <2>1, <3>1, OrderHasAll
    <3> QED
      BY <3>2 DEF LegacyFiles
  <2> QED
    BY <1>1, <1>3, <2>2 DEF StartProcess, diskVars
<1>4. CASE EndProcess
  BY <1>1, <1>4 DEF EndProcess, diskVars
<1>5. CASE ImportHistory
  <2>1. Head(todo) \in SessionKeys /\ Head(todo) = todo[1]
    BY <1>5, FirstOf DEF ImportHistory
  <2>2. /\ backend = "migrating" /\ jsonl' = [jsonl EXCEPT ![Head(todo)] = json[Head(todo)]]
        /\ UNCHANGED <<json, said, todo, backend>>
    BY <1>2, <1>5 DEF ImportHistory, ImportUnchanged
  <2>3. jsonl'[todo[1]] = json[todo[1]]
    BY <2>1, <2>2
  <2>4. json[todo[1]] # NoFile
    BY <1>1, <1>5, <2>1, <2>2, FirstOf DEF ImportHistory
  <2>5. \A k \in SessionKeys : json[k] = NoFile => jsonl'[k] = said[k]
    BY <1>1, <2>1, <2>2, <2>4
  <2> QED
    BY <1>1, <2>2, <2>3, <2>5
<1>6. CASE ImportSummary
  BY <1>1, <1>2, <1>6 DEF ImportSummary, ImportUnchanged, diskVars
<1>7. CASE RenameLegacy
  <2>1. /\ backend = "migrating" /\ todo # <<>> /\ step = "rename" /\ step' = "history"
        /\ json' = [json EXCEPT ![Head(todo)] = NoFile] /\ todo' = Tail(todo)
        /\ UNCHANGED <<jsonl, said, backend>>
    BY <1>2, <1>7 DEF RenameLegacy, ImportUnchanged
  <2>2. Head(todo) = todo[1] /\ todo[1] \in SessionKeys
    BY <2>1, FirstOf
  <2>3. Imported'
    BY <1>1, <2>1, <2>2 DEF NoFile
  <2>4. ASSUME NEW k \in SessionKeys, json'[k] # NoFile
        PROVE  \E i \in 1..Len(todo') : todo'[i] = k
    <3>1. k # todo[1] /\ json[k] # NoFile
      BY <2>1, <2>2, <2>4
    <3>2. PICK i \in 1..Len(todo) : todo[i] = k
      BY <1>1, <2>1, <3>1
    <3>3. i \in 2..Len(todo)
      BY <3>1, <3>2
    <3>4. i - 1 \in 1..Len(todo') /\ todo'[i - 1] = k
      BY <2>1, <3>2, <3>3, FirstOf
    <3> QED
      BY <3>4
  <2>5. \A i, j \in 1..Len(todo') : todo'[i] = todo'[j] => i = j
    BY <1>1, <2>1, FirstOf
  <2>6. ASSUME NEW i \in 1..Len(todo') PROVE json'[todo'[i]] # NoFile
    <3>1. i + 1 \in 1..Len(todo) /\ todo'[i] = todo[i + 1] /\ 1 \in 1..Len(todo) /\ i + 1 # 1
          /\ todo[i + 1] \in SessionKeys
      BY <2>1, FirstOf
    <3>2. todo[i + 1] # todo[1] /\ json[todo[i + 1]] # NoFile
      BY <1>1, <2>1, <3>1
    <3> QED
      BY <2>1, <2>2, <3>1, <3>2
  <2> QED
    BY <2>1, <2>3, <2>4, <2>5, <2>6
<1>8. CASE MigrationDone
  BY <1>1, <1>8 DEF MigrationDone, ImportUnchanged, diskVars
<1>9. ASSUME NEW k \in SessionKeys, SaveSession(k)
      PROVE  Imported' /\ InProgress'
  BY <1>1, <1>9 DEF SaveSession
<1>10. ASSUME NEW k \in SessionKeys, NEW m \in Chatter, AddFullMessage(k, m)
       PROVE  Imported' /\ InProgress'
  <2>1. /\ backend = "jsonl" /\ UNCHANGED <<json, backend>>
        /\ jsonl' = [jsonl EXCEPT ![k] = jsonl[k] \cup {m}]
        /\ said' = [said EXCEPT ![k] = said[k] \cup {m}]
    BY <1>1, <1>10 DEF AddFullMessage
  <2>2. \A i \in SessionKeys : json[i] = NoFile /\ jsonl[i] = said[i]
    BY <1>1, <2>1
  <2>3. \A i \in SessionKeys : jsonl'[i] = said'[i]
    BY <2>1, <2>2
  <2> QED
    BY <2>1, <2>2, <2>3
<1>11. CASE UNCHANGED migrationVars
  BY <1>1, <1>11 DEF migrationVars, diskVars
<1> QED
  BY <1>3, <1>4, <1>5, <1>6, <1>7, <1>8, <1>9, <1>10, <1>11 DEF MigrationNext

-------------------------------------------------------------------------------
(* The theorems *)

(* The invariant of the import. *)
THEOREM MigrationInvariant == MigrationSpec => []MigrationInv
<1>1. MigrationInit => MigrationInv
  BY DEF MigrationInit, MigrationInv, MigrationShape, Imported, InProgress, Empty, NoFile
<1>2. MigrationInv /\ [MigrationNext]_migrationVars => MigrationInv'
  BY MigrationShapeKept, ImportKept DEF MigrationInv
<1> QED
  BY <1>1, <1>2, PTL DEF MigrationSpec

(* Processes that end anywhere in an import lose nothing of a session and     *)
(* take over nothing twice, in whatever order the files are imported.         *)
THEOREM NothingLostInImport == MigrationSpec => []ImportSurvivesCrashes
<1>1. MigrationInv => ImportSurvivesCrashes
  BY DEF MigrationInv, MigrationShape, Imported, InProgress, ImportSurvivesCrashes, HistoryOf,
         NoFile
<1> QED
  BY <1>1, MigrationInvariant, PTL

\* The rest of the types of the import: the backups, the metadata, the bounds,
\* and that no file is to be imported twice.
MigrationRest ==
    /\ backup \in [SessionKeys -> SUBSET (Chatter \cup {Old})]
    /\ meta \subseteq SessionKeys
    /\ backend \in {"down", "migrating", "jsonl", "json"}
    /\ step \in {"history", "summary", "rename"}
    /\ \A i, j \in 1..Len(todo) : todo[i] = todo[j] => i = j
    /\ starts \in 0..MaxStarts /\ ioErrors \in 0..MaxIOErrors

LEMMA MigrationRestKept ==
  ASSUME MigrationInv, MigrationRest, [MigrationNext]_migrationVars
  PROVE  MigrationRest'
<1> USE MigrationAssumption DEF MigrationRest
<1>1. CASE StartProcess
  <2>1. LegacyFiles \in SUBSET SessionKeys /\ IsFiniteSet(LegacyFiles)
    BY FS_Subset DEF LegacyFiles
  <2>2. \A i, j \in 1..Len(todo') : todo'[i] = todo'[j] => i = j
    BY <1>1, <2>1, OrderHasAll DEF StartProcess
  <2>3. starts' \in 0..MaxStarts
    BY <1>1 DEF StartProcess
  <2> QED
    BY <1>1, <2>2, <2>3 DEF StartProcess, diskVars
<1>2. CASE EndProcess
  BY <1>2 DEF EndProcess, diskVars
<1>3. CASE ImportHistory
  <2>1. todo # <<>> /\ todo \in Seq(SessionKeys) /\ Head(todo) \in SessionKeys
    BY <1>3, FirstOf DEF ImportHistory, MigrationInv, MigrationShape
  <2>2. CASE IOError /\ FallBack
    BY <1>3, <2>1, <2>2 DEF ImportHistory, ImportUnchanged, IOError, FallBack
  <2>3. CASE ~(IOError /\ FallBack)
    BY <1>3, <2>1, <2>3 DEF ImportHistory, ImportUnchanged
  <2> QED  BY <2>2, <2>3
<1>4. CASE ImportSummary
  BY <1>4 DEF ImportSummary, ImportUnchanged, IOError, FallBack, diskVars
<1>5. CASE RenameLegacy
  <2>1. todo # <<>> /\ todo \in Seq(SessionKeys)
    BY <1>5 DEF RenameLegacy, MigrationInv, MigrationShape
  <2>2. Head(todo) \in SessionKeys
    BY <2>1, FirstOf
  <2>3. \A i, j \in 1..Len(Tail(todo)) : Tail(todo)[i] = Tail(todo)[j] => i = j
    <3> SUFFICES ASSUME NEW i \in 1..Len(Tail(todo)), NEW j \in 1..Len(Tail(todo)),
                        Tail(todo)[i] = Tail(todo)[j]
                 PROVE  i = j
      OBVIOUS
    <3>1. /\ i + 1 \in 1..Len(todo) /\ Tail(todo)[i] = todo[i + 1]
          /\ j + 1 \in 1..Len(todo) /\ Tail(todo)[j] = todo[j + 1]
      BY <2>1, FirstOf
    <3>2. i + 1 = j + 1
      BY <3>1
    <3> QED  BY <2>1, <3>2
  <2>4. backup' \in [SessionKeys -> SUBSET (Chatter \cup {Old})]
    BY <1>5, <2>2 DEF RenameLegacy, MigrationInv, MigrationShape
  <2>5. /\ meta' = meta /\ backend' = backend /\ step' = "history" /\ starts' = starts
        /\ ioErrors' \in 0..MaxIOErrors /\ todo' = Tail(todo)
    BY <1>5 DEF RenameLegacy, ImportUnchanged, IOError
  <2> QED
    BY <2>3, <2>4, <2>5
<1>6. CASE MigrationDone
  BY <1>6 DEF MigrationDone, ImportUnchanged, diskVars
<1>7. ASSUME NEW k \in SessionKeys, SaveSession(k) \/ \E m \in Chatter : AddFullMessage(k, m)
      PROVE  MigrationRest'
  BY <1>7 DEF SaveSession, AddFullMessage
<1>8. CASE UNCHANGED migrationVars
  BY <1>8 DEF migrationVars, diskVars
<1> QED
  BY <1>1, <1>2, <1>3, <1>4, <1>5, <1>6, <1>7, <1>8 DEF MigrationNext

\* The types of the import.
LEMMA MigrationTypes == MigrationSpec => []MigrationTypeOK
<1>1. MigrationInit => MigrationRest
  BY MigrationAssumption DEF MigrationInit, MigrationRest, Empty
<1>2. MigrationInv /\ MigrationRest /\ [MigrationNext]_migrationVars => MigrationRest'
  BY MigrationRestKept
<1>3. MigrationInv /\ MigrationRest => MigrationTypeOK
  <2> SUFFICES ASSUME MigrationInv, MigrationRest PROVE MigrationTypeOK
    OBVIOUS
  <2>1. todo \in Seq(SessionKeys) /\ DOMAIN todo = 1..Len(todo)
    BY DEF MigrationInv, MigrationShape
  <2>2. IsInjective(todo)
    BY <2>1 DEF MigrationRest, IsInjective
  <2>3. ToSet(todo) \subseteq SessionKeys
    BY <2>1 DEF ToSet
  <2> QED
    BY <2>2, <2>3 DEF MigrationInv, MigrationShape, MigrationRest, MigrationTypeOK, Histories
<1> QED
  BY <1>1, <1>2, <1>3, MigrationInvariant, PTL DEF MigrationSpec
===============================================================================
