----------------------------- MODULE NumberProofs -----------------------------
(***************************************************************************)
(* What the other proofs need of the natural numbers: least and greatest     *)
(* elements, induction for sets of numbers (the library's takes an operator, *)
(* which the provers cannot instantiate), and ranks: tuples of numbers in    *)
(* the lexicographic order, in which nothing falls for ever.                *)
(***************************************************************************)
EXTENDS Naturals, FiniteSetTheorems, NaturalsInduction, WellFoundedInduction, TLAPS

LessThan == {p \in Nat \X Nat : p[1] < p[2]}

\* The order of the numbers, as a set of pairs, is well-founded.
LEMMA LessThanWellFounded == IsWellFoundedOn(LessThan, Nat)
  BY NatLessThanWellFounded DEF OpToRel, LessThan

\* A set of numbers that is not empty has a least one.
LEMMA NatMin ==
    ASSUME NEW T, T \subseteq Nat, T # {}
    PROVE  \E x \in T : \A y \in T : x <= y
<1>1. PICK x \in T : \A y \in T : <<y, x>> \notin LessThan
  BY LessThanWellFounded, WFMin
<1>2. \A y \in T : ~(y < x)
  BY <1>1 DEF LessThan
<1> QED  BY <1>2

\* Induction over the numbers, with a set for the property.
LEMMA NumberInduction ==
    ASSUME NEW G, 0 \in G, \A n \in Nat : n \in G => n + 1 \in G
    PROVE  Nat \subseteq G
<1> SUFFICES ASSUME ~(Nat \subseteq G)
             PROVE  FALSE
  OBVIOUS
<1> DEFINE T == Nat \ G
<1>1. T \subseteq Nat /\ T # {}
  OBVIOUS
<1>2. PICK x \in T : \A y \in T : x <= y
  BY <1>1, NatMin
<1>3. x # 0 /\ x \in Nat
  OBVIOUS
<1>4. x - 1 \in Nat /\ ~(x <= x - 1) /\ (x - 1) + 1 = x
  BY <1>3
<1>5. x - 1 \in G
  BY <1>2, <1>4
<1>6. x \in G
  BY <1>4, <1>5
<1> QED  BY <1>6

\* A finite set of numbers that is not empty has a greatest one.
LEMMA NatMax ==
    ASSUME NEW S, S \subseteq Nat, IsFiniteSet(S), S # {}
    PROVE  \E m \in S : \A i \in S : i <= m
<1> DEFINE HasMax(T) == \E m \in T : \A i \in T : i <= m
           G == {n \in Nat : \A T \in SUBSET Nat :
                   IsFiniteSet(T) /\ Cardinality(T) = n /\ T # {} => HasMax(T)}
<1>1. 0 \in G
  BY FS_EmptySet
<1>2. ASSUME NEW n \in Nat, n \in G
      PROVE  n + 1 \in G
  <2> SUFFICES ASSUME NEW T \in SUBSET Nat, IsFiniteSet(T), Cardinality(T) = n + 1, T # {}
               PROVE  HasMax(T)
    OBVIOUS
  <2>1. PICK x : x \in T
    OBVIOUS
  <2> DEFINE R == T \ {x}
  <2>2. R \in SUBSET Nat /\ IsFiniteSet(R) /\ Cardinality(R) = n /\ T = R \cup {x} /\ x \in Nat
    <3>1. IsFiniteSet(R) /\ Cardinality(R) = Cardinality(T) - 1
      BY <2>1, FS_RemoveElement, Zenon
    <3>2. Cardinality(R) = n
      BY <3>1
    <3> QED  BY <2>1, <3>1, <3>2
  <2> HIDE DEF R
  <2>3. CASE R = {}
    BY <2>2, <2>3
  <2>4. CASE R # {}
    <3>1. PICK m \in R : \A i \in R : i <= m
      BY <1>2, <2>2, <2>4
    <3>2. m \in Nat
      BY <2>2
    <3>3. CASE x <= m
      BY <2>2, <3>1, <3>3
    <3>4. CASE ~(x <= m)
      <4>1. \A i \in T : i <= x
        BY <2>2, <3>1, <3>2, <3>4
      <4> QED  BY <2>1, <4>1
    <3> QED  BY <3>3, <3>4
  <2> QED  BY <2>3, <2>4
<1>3. Nat \subseteq G
  <2> HIDE DEF G
  <2> QED  BY <1>1, <1>2, NumberInduction
<1>4. Cardinality(S) \in Nat
  BY FS_CardinalityType
<1> QED  BY <1>3, <1>4

-------------------------------------------------------------------------------
(* Ranks *)

\* A rank is a tuple of n numbers; one is below another if it has the smaller
\* number where they first differ.
Ranks(n) == [1..n -> Nat]
Lower(n, r, s) == <<r, s>> \in LexProductOrdering(LessThan, Nat, n)

\* A rank cannot fall for ever.
LEMMA RanksWellFounded ==
    ASSUME NEW n \in Nat
    PROVE  IsWellFoundedOn(LexProductOrdering(LessThan, Nat, n), Ranks(n))
  BY LessThanWellFounded, WFLexProductOrdering DEF Ranks

\* The order of ranks, by the first place where they differ.
LEMMA LowerAt ==
    ASSUME NEW n \in Nat, NEW r \in Ranks(n), NEW s \in Ranks(n), NEW k \in 1..n,
           r[k] < s[k], \A i \in 1..n : i < k => r[i] = s[i]
    PROVE  Lower(n, r, s)
<1>1. <<r[k], s[k]>> \in LessThan
  BY DEF LessThan, Ranks
<1>2. \A i \in 1..(k - 1) : r[i] = s[i]
  OBVIOUS
<1>3. <<r, s>> \in [1..n -> Nat] \X [1..n -> Nat]
  BY DEF Ranks
<1>4. \E j \in 1..n : /\ \A i \in 1..(j - 1) : <<r, s>>[1][i] = <<r, s>>[2][i]
                      /\ <<<<r, s>>[1][j], <<r, s>>[2][j]>> \in LessThan
  BY <1>1, <1>2
<1> QED  BY <1>3, <1>4, Zenon DEF LexProductOrdering, Lower

\* The order of ranks of two numbers.
LEMMA LowerOfTwo ==
    ASSUME NEW r1 \in Nat, NEW r2 \in Nat,
           NEW s1 \in Nat, NEW s2 \in Nat,
           \/ r1 < s1
           \/ r1 = s1 /\ r2 < s2
    PROVE  /\ <<r1, r2>> \in Ranks(2)
           /\ Lower(2, <<r1, r2>>, <<s1, s2>>)
<1> DEFINE r == <<r1, r2>>
           s == <<s1, s2>>
<1> SUFFICES r \in Ranks(2) /\ Lower(2, r, s)
  OBVIOUS
<1>0. 2 \in Nat /\ 1 \in 1..2 /\ 2 \in 1..2
  OBVIOUS
<1>1. r \in Ranks(2) /\ s \in Ranks(2)
  BY DEF Ranks
<1>2. /\ r[1] = r1 /\ r[2] = r2
      /\ s[1] = s1 /\ s[2] = s2
  OBVIOUS
<1> HIDE DEF r, s
<1>3. CASE r1 < s1
  <2>1. \A i \in 1..2 : i < 1 => r[i] = s[i]
    BY <1>2, <1>3
  <2>2. r[1] < s[1]
    BY <1>2, <1>3
  <2> QED  BY <1>0, <1>1, <2>1, <2>2, LowerAt, Zenon
<1>4. CASE r1 = s1 /\ r2 < s2
  <2>1. \A i \in 1..2 : i < 2 => r[i] = s[i]
    BY <1>2, <1>4
  <2>2. r[2] < s[2]
    BY <1>2, <1>4
  <2> QED  BY <1>0, <1>1, <2>1, <2>2, LowerAt, Zenon
<1> QED  BY <1>3, <1>4

\* The order of ranks of three numbers.
LEMMA LowerOfThree ==
    ASSUME NEW r1 \in Nat, NEW r2 \in Nat, NEW r3 \in Nat,
           NEW s1 \in Nat, NEW s2 \in Nat, NEW s3 \in Nat,
           \/ r1 < s1
           \/ r1 = s1 /\ r2 < s2
           \/ r1 = s1 /\ r2 = s2 /\ r3 < s3
    PROVE  /\ <<r1, r2, r3>> \in Ranks(3)
           /\ Lower(3, <<r1, r2, r3>>, <<s1, s2, s3>>)
<1> DEFINE r == <<r1, r2, r3>>
           s == <<s1, s2, s3>>
<1> SUFFICES r \in Ranks(3) /\ Lower(3, r, s)
  OBVIOUS
<1>0. 3 \in Nat /\ 1 \in 1..3 /\ 2 \in 1..3 /\ 3 \in 1..3
  OBVIOUS
<1>1. r \in Ranks(3) /\ s \in Ranks(3)
  BY DEF Ranks
<1>2. /\ r[1] = r1 /\ r[2] = r2 /\ r[3] = r3
      /\ s[1] = s1 /\ s[2] = s2 /\ s[3] = s3
  OBVIOUS
<1> HIDE DEF r, s
<1>3. CASE r1 < s1
  <2>1. \A i \in 1..3 : i < 1 => r[i] = s[i]
    BY <1>2, <1>3
  <2>2. r[1] < s[1]
    BY <1>2, <1>3
  <2> QED  BY <1>0, <1>1, <2>1, <2>2, LowerAt, Zenon
<1>4. CASE r1 = s1 /\ r2 < s2
  <2>1. \A i \in 1..3 : i < 2 => r[i] = s[i]
    BY <1>2, <1>4
  <2>2. r[2] < s[2]
    BY <1>2, <1>4
  <2> QED  BY <1>0, <1>1, <2>1, <2>2, LowerAt, Zenon
<1>5. CASE r1 = s1 /\ r2 = s2 /\ r3 < s3
  <2>1. \A i \in 1..3 : i < 3 => r[i] = s[i]
    BY <1>2, <1>5
  <2>2. r[3] < s[3]
    BY <1>2, <1>5
  <2> QED  BY <1>0, <1>1, <2>1, <2>2, LowerAt, Zenon
<1> QED  BY <1>3, <1>4, <1>5

\* The order of ranks of four numbers.
LEMMA LowerOfFour ==
    ASSUME NEW r1 \in Nat, NEW r2 \in Nat, NEW r3 \in Nat, NEW r4 \in Nat,
           NEW s1 \in Nat, NEW s2 \in Nat, NEW s3 \in Nat, NEW s4 \in Nat,
           \/ r1 < s1
           \/ r1 = s1 /\ r2 < s2
           \/ r1 = s1 /\ r2 = s2 /\ r3 < s3
           \/ r1 = s1 /\ r2 = s2 /\ r3 = s3 /\ r4 < s4
    PROVE  /\ <<r1, r2, r3, r4>> \in Ranks(4)
           /\ Lower(4, <<r1, r2, r3, r4>>, <<s1, s2, s3, s4>>)
<1> DEFINE r == <<r1, r2, r3, r4>>
           s == <<s1, s2, s3, s4>>
<1> SUFFICES r \in Ranks(4) /\ Lower(4, r, s)
  OBVIOUS
<1>0. 4 \in Nat /\ 1 \in 1..4 /\ 2 \in 1..4 /\ 3 \in 1..4 /\ 4 \in 1..4
  OBVIOUS
<1>1. r \in Ranks(4) /\ s \in Ranks(4)
  BY DEF Ranks
<1>2. /\ r[1] = r1 /\ r[2] = r2 /\ r[3] = r3 /\ r[4] = r4
      /\ s[1] = s1 /\ s[2] = s2 /\ s[3] = s3 /\ s[4] = s4
  OBVIOUS
<1> HIDE DEF r, s
<1>3. CASE r1 < s1
  <2>1. \A i \in 1..4 : i < 1 => r[i] = s[i]
    BY <1>2, <1>3
  <2>2. r[1] < s[1]
    BY <1>2, <1>3
  <2> QED  BY <1>0, <1>1, <2>1, <2>2, LowerAt, Zenon
<1>4. CASE r1 = s1 /\ r2 < s2
  <2>1. \A i \in 1..4 : i < 2 => r[i] = s[i]
    BY <1>2, <1>4
  <2>2. r[2] < s[2]
    BY <1>2, <1>4
  <2> QED  BY <1>0, <1>1, <2>1, <2>2, LowerAt, Zenon
<1>5. CASE r1 = s1 /\ r2 = s2 /\ r3 < s3
  <2>1. \A i \in 1..4 : i < 3 => r[i] = s[i]
    BY <1>2, <1>5
  <2>2. r[3] < s[3]
    BY <1>2, <1>5
  <2> QED  BY <1>0, <1>1, <2>1, <2>2, LowerAt, Zenon
<1>6. CASE r1 = s1 /\ r2 = s2 /\ r3 = s3 /\ r4 < s4
  <2>1. \A i \in 1..4 : i < 4 => r[i] = s[i]
    BY <1>2, <1>6
  <2>2. r[4] < s[4]
    BY <1>2, <1>6
  <2> QED  BY <1>0, <1>1, <2>1, <2>2, LowerAt, Zenon
<1> QED  BY <1>3, <1>4, <1>5, <1>6

\* What is left of a finite set is no more than there was, and less when
\* something is gone.
LEMMA Fewer ==
    ASSUME NEW S, IsFiniteSet(S), NEW T, T \subseteq S
    PROVE  /\ Cardinality(S) \in Nat /\ Cardinality(T) \in Nat /\ Cardinality(T) <= Cardinality(S)
           /\ T # S => Cardinality(T) < Cardinality(S)
<1>1. /\ IsFiniteSet(T) /\ Cardinality(T) <= Cardinality(S)
      /\ Cardinality(S) = Cardinality(T) => S = T
  BY FS_Subset, Zenon
<1>2. Cardinality(S) \in Nat /\ Cardinality(T) \in Nat
  BY <1>1, FS_CardinalityType
<1> QED  BY <1>1, <1>2
===============================================================================
