--------------------------- MODULE Lists_proofs ---------------------------
(***************************************************************************)
(* Lemmas about the comprehensions of Lists, and the principle behind      *)
(* every induction here: a set of numbers that is not empty has a least    *)
(* one.                                                                    *)
(***************************************************************************)
EXTENDS Lists, Functions, FiniteSetTheorems, SequenceTheorems, WellFoundedInduction, TLAPS

Less == {ss \in Nat \X Nat : ss[1] < ss[2]}

LEMMA LessIsWellFounded == IsWellFoundedOn(Less, Nat)
BY NatLessThanWellFounded, Zenon DEF OpToRel, Less

\* What fails for some number fails for a least one.
LEMMA LeastNumber ==
  ASSUME NEW S \in SUBSET Nat, S # {}
  PROVE  \E x \in S : \A y \in S : x <= y
<1>1. PICK x \in S : \A y \in S : ~(<<y, x>> \in Less)
  BY WFMin, LessIsWellFounded, Zenon
<1>2. ASSUME NEW y \in S PROVE x <= y
  <2>1. x \in Nat /\ y \in Nat
    OBVIOUS
  <2>2. ~(y < x)
    BY <1>1, <2>1 DEF Less
  <2> QED BY <2>1, <2>2
<1> QED BY <1>2

\* Induction up to a bound, for what a set is about.
LEMMA UpToInduction ==
  ASSUME NEW n \in Nat, NEW S, 0 \in S, \A i \in Nat : i < n /\ i \in S => i + 1 \in S
  PROVE  \A i \in 0..n : i \in S
<1> DEFINE B == {i \in 0..n : i \notin S}
<1>1. SUFFICES ASSUME B # {} PROVE FALSE
  OBVIOUS
<1>2. B \in SUBSET Nat
  OBVIOUS
<1> HIDE DEF B
<1>3. PICK x \in B : \A y \in B : x <= y
  BY <1>1, <1>2, LeastNumber
<1> USE DEF B
<1>4. x \in 0..n /\ x # 0 /\ x - 1 \in Nat /\ x - 1 < n /\ ~(x <= x - 1) /\ x - 1 + 1 = x
  OBVIOUS
<1>5. x - 1 \in S
  BY <1>3, <1>4
<1> QED BY <1>4, <1>5

\* A part of a sequence.
LEMMA PartFacts ==
  ASSUME NEW S, NEW s \in Seq(S), NEW m \in Nat, m >= 1, NEW n \in Nat, n <= Len(s)
  PROVE  /\ SubSeq(s, m, n) \in Seq(S)
         /\ DOMAIN SubSeq(s, m, n) = 1..(n - m + 1)
         /\ \A i \in 1..(n - m + 1) :
              SubSeq(s, m, n)[i] = s[m + i - 1] /\ m + i - 1 \in m..n /\ m + i - 1 \in 1..Len(s)
<1>1. \A i \in m..n : i \in 1..Len(s) /\ s[i] \in S
  BY ElementOfSeq
<1>2. /\ SubSeq(s, m, n) \in Seq(S)
      /\ Len(SubSeq(s, m, n)) = IF m <= n THEN n - m + 1 ELSE 0
      /\ \A i \in 1..(n - m + 1) : SubSeq(s, m, n)[i] = s[m + i - 1]
  BY <1>1, SubSeqProperties
<1>3. DOMAIN SubSeq(s, m, n) = 1..Len(SubSeq(s, m, n))
  BY <1>2
<1> QED BY <1>1, <1>2, <1>3

-----------------------------------------------------------------------------
(* The k-th of a set of numbers.                                           *)

UpTo(I, i) == {j \in I : j <= i}

LEMMA UpToIsFinite ==
  ASSUME NEW I, I \subseteq Nat, IsFiniteSet(I), NEW i
  PROVE  /\ IsFiniteSet(UpTo(I, i)) /\ Cardinality(UpTo(I, i)) \in Nat
         /\ Cardinality(UpTo(I, i)) <= Cardinality(I)
<1>1. UpTo(I, i) \in SUBSET I
  BY DEF UpTo
<1> QED BY <1>1, FS_Subset, FS_CardinalityType

\* A later place has a higher rank, and every place is of some rank.
LEMMA RanksGrow ==
  ASSUME NEW I, I \subseteq Nat, IsFiniteSet(I), NEW i \in I, NEW j \in I, i < j
  PROVE  Cardinality(UpTo(I, i)) < Cardinality(UpTo(I, j))
<1>1. UpTo(I, i) \cup {j} \in SUBSET UpTo(I, j) /\ j \notin UpTo(I, i)
  <2>1. i \in Nat /\ j \in Nat
    OBVIOUS
  <2>2. \A k \in I : k \in Nat /\ (k <= i => k <= j /\ k # j)
    BY <2>1
  <2>3. UpTo(I, i) \subseteq UpTo(I, j) /\ j \notin UpTo(I, i)
    BY <2>2 DEF UpTo
  <2>4. j \in UpTo(I, j)
    BY <2>1 DEF UpTo
  <2> QED BY <2>3, <2>4
<1>2. Cardinality(UpTo(I, i) \cup {j}) = Cardinality(UpTo(I, i)) + 1
  BY <1>1, UpToIsFinite, FS_AddElement
<1>3. Cardinality(UpTo(I, i) \cup {j}) <= Cardinality(UpTo(I, j))
  BY <1>1, UpToIsFinite, FS_Subset
<1>4. Cardinality(UpTo(I, i)) \in Nat /\ Cardinality(UpTo(I, j)) \in Nat
  BY UpToIsFinite
<1> QED BY <1>2, <1>3, <1>4

LEMMA RankFacts ==
  ASSUME NEW I, I \subseteq Nat, IsFiniteSet(I)
  PROVE  /\ Cardinality(I) \in Nat
         /\ \A i \in I : Cardinality(UpTo(I, i)) \in 1..Cardinality(I)
         /\ \A i, j \in I : Cardinality(UpTo(I, i)) = Cardinality(UpTo(I, j)) => i = j
         /\ \A i, j \in I : Cardinality(UpTo(I, i)) < Cardinality(UpTo(I, j)) => i < j
<1>1. Cardinality(I) \in Nat
  BY FS_CardinalityType
<1>2. ASSUME NEW i \in I PROVE Cardinality(UpTo(I, i)) \in 1..Cardinality(I)
  <2>1. i \in UpTo(I, i)
    BY DEF UpTo
  <2>2. /\ IsFiniteSet(UpTo(I, i)) /\ Cardinality(UpTo(I, i)) \in Nat
        /\ Cardinality(UpTo(I, i)) <= Cardinality(I)
    BY UpToIsFinite
  <2>3. Cardinality(UpTo(I, i)) # 0
    BY <2>1, <2>2, FS_EmptySet
  <2> QED BY <1>1, <2>2, <2>3
<1>3. ASSUME NEW i \in I, NEW j \in I
      PROVE  /\ Cardinality(UpTo(I, i)) = Cardinality(UpTo(I, j)) => i = j
             /\ Cardinality(UpTo(I, i)) < Cardinality(UpTo(I, j)) => i < j
  <2>1. i \in Nat /\ j \in Nat /\ Cardinality(UpTo(I, i)) \in Nat /\ Cardinality(UpTo(I, j)) \in Nat
    BY UpToIsFinite
  <2>2. i < j => Cardinality(UpTo(I, i)) < Cardinality(UpTo(I, j))
    BY RanksGrow
  <2>3. j < i => Cardinality(UpTo(I, j)) < Cardinality(UpTo(I, i))
    BY RanksGrow
  <2> QED BY <2>1, <2>2, <2>3
<1> QED BY <1>1, <1>2, <1>3

LEMMA EveryRankIsTaken ==
  ASSUME NEW I, I \subseteq Nat, IsFiniteSet(I), NEW k \in 1..Cardinality(I)
  PROVE  \E i \in I : Cardinality(UpTo(I, i)) = k
<1> DEFINE rank == [i \in I |-> Cardinality(UpTo(I, i))]  T == 1..Cardinality(I)
<1>1. rank \in Injection(I, T)
  <2>1. \A i, j \in I : rank[i] = rank[j] => i = j
    BY RankFacts
  <2>2. rank \in [I -> T]
    BY RankFacts
  <2> QED BY <2>1, <2>2 DEF Injection, IsInjective
<1>2. IsFiniteSet(T) /\ Cardinality(T) = Cardinality(I)
  <2>1. Cardinality(I) \in Nat
    BY FS_CardinalityType
  <2> QED BY <2>1, FS_Interval
<1>3. rank \in Surjection(I, T)
  <2> HIDE DEF rank, T
  <2> QED BY <1>1, <1>2, FS_Injection
<1>4. \E i \in I : rank[i] = k
  BY <1>3 DEF Surjection
<1> QED BY <1>4

LEMMA NthFacts ==
  ASSUME NEW I, I \subseteq Nat, IsFiniteSet(I)
  PROVE  /\ \A k \in 1..Cardinality(I) : Nth(I, k) \in I /\ Cardinality(UpTo(I, Nth(I, k))) = k
         /\ \A i \in I : Nth(I, Cardinality(UpTo(I, i))) = i
         /\ \A k, l \in 1..Cardinality(I) : k < l => Nth(I, k) < Nth(I, l)
<1>1. ASSUME NEW k \in 1..Cardinality(I)
      PROVE  Nth(I, k) \in I /\ Cardinality(UpTo(I, Nth(I, k))) = k
  <2>1. \E i \in I : Cardinality({j \in I : j <= i}) = k
    BY EveryRankIsTaken DEF UpTo
  <2>2. Nth(I, k) \in I /\ Cardinality({j \in I : j <= Nth(I, k)}) = k
    BY <2>1 DEF Nth
  <2> QED BY <2>2 DEF UpTo
<1>2. ASSUME NEW i \in I PROVE Nth(I, Cardinality(UpTo(I, i))) = i
  <2>1. Cardinality(UpTo(I, i)) \in 1..Cardinality(I)
    BY RankFacts
  <2>2. /\ Nth(I, Cardinality(UpTo(I, i))) \in I
        /\ Cardinality(UpTo(I, Nth(I, Cardinality(UpTo(I, i))))) = Cardinality(UpTo(I, i))
    BY <1>1, <2>1
  <2> QED BY <2>2, RankFacts
<1>3. ASSUME NEW k \in 1..Cardinality(I), NEW l \in 1..Cardinality(I), k < l
      PROVE  Nth(I, k) < Nth(I, l)
  <2>1. Nth(I, k) \in I /\ Nth(I, l) \in I
    BY <1>1
  <2>2. Cardinality(UpTo(I, Nth(I, k))) = k /\ Cardinality(UpTo(I, Nth(I, l))) = l
    BY <1>1
  <2>3. \A i, j \in I : Cardinality(UpTo(I, i)) < Cardinality(UpTo(I, j)) => i < j
    BY RankFacts
  <2> QED BY <1>3, <2>1, <2>2, <2>3
<1> QED BY <1>1, <1>2, <1>3

-----------------------------------------------------------------------------
(* What is picked from a sequence.                                         *)

LEMMA PositionsAreFinite ==
  ASSUME NEW S, NEW s \in Seq(S), NEW I \in SUBSET DOMAIN s
  PROVE  I \subseteq Nat /\ I \subseteq 1..Len(s) /\ IsFiniteSet(I)
<1>1. DOMAIN s = 1..Len(s) /\ Len(s) \in Nat
  OBVIOUS
<1>2. IsFiniteSet(1..Len(s))
  BY <1>1, FS_Interval
<1> QED BY <1>1, <1>2, FS_Subset

\* It is as long as there are positions, has what is at these and nothing else, and
\* keeps the order.
LEMMA PickedFacts ==
  ASSUME NEW S, NEW s \in Seq(S), NEW I \in SUBSET DOMAIN s
  PROVE  /\ Picked(s, I) \in Seq(S) /\ Len(Picked(s, I)) = Cardinality(I)
         /\ DOMAIN Picked(s, I) = 1..Cardinality(I) /\ Cardinality(I) \in Nat
         /\ \A k \in DOMAIN Picked(s, I) : Nth(I, k) \in I /\ Picked(s, I)[k] = s[Nth(I, k)]
         /\ \A i \in I : \E k \in DOMAIN Picked(s, I) : Picked(s, I)[k] = s[i]
         /\ \A k, l \in DOMAIN Picked(s, I) : k < l => Nth(I, k) < Nth(I, l)
<1>1. I \subseteq Nat /\ IsFiniteSet(I)
  BY PositionsAreFinite
<1>2. Cardinality(I) \in Nat
  BY <1>1, FS_CardinalityType
<1>3. \A k \in 1..Cardinality(I) : Nth(I, k) \in I /\ s[Nth(I, k)] \in S
  BY <1>1, NthFacts
<1>4. Picked(s, I) \in [1..Cardinality(I) -> S]
  BY <1>3 DEF Picked
<1>5. /\ Picked(s, I) \in Seq(S) /\ Len(Picked(s, I)) = Cardinality(I)
      /\ DOMAIN Picked(s, I) = 1..Cardinality(I)
  BY <1>2, <1>4
<1>6. \A k \in 1..Cardinality(I) : Picked(s, I)[k] = s[Nth(I, k)]
  BY DEF Picked
<1>7. ASSUME NEW i \in I PROVE \E k \in 1..Cardinality(I) : Picked(s, I)[k] = s[i]
  <2>1. PICK k \in 1..Cardinality(I) : Nth(I, k) = i
    BY <1>1, NthFacts, RankFacts
  <2> QED BY <1>6, <2>1
<1>8. \A k, l \in 1..Cardinality(I) : k < l => Nth(I, k) < Nth(I, l)
  BY <1>1, NthFacts
<1> QED BY <1>2, <1>3, <1>5, <1>6, <1>7, <1>8

LEMMA AppendIsAFunction ==
  ASSUME NEW S, NEW s \in Seq(S), NEW e \in S
  PROVE  Append(s, e) = [k \in 1..(Len(s) + 1) |-> IF k = Len(s) + 1 THEN e ELSE s[k]]
<1>1. Append(s, e) \in Seq(S) /\ Len(Append(s, e)) = Len(s) + 1 /\ Len(s) \in Nat
  OBVIOUS
<1>2. Append(s, e) \in [1..(Len(s) + 1) -> S]
  <2>1. \A t \in Seq(S) : t \in [1..Len(t) -> S]
    OBVIOUS
  <2> QED BY <1>1, <2>1, Zenon
<1>3. \A k \in 1..(Len(s) + 1) : Append(s, e)[k] = IF k = Len(s) + 1 THEN e ELSE s[k]
  OBVIOUS
<1> QED BY <1>2, <1>3

\* One more element is picked or not; the rest is as before.
LEMMA PickedAppend ==
  ASSUME NEW S, NEW s \in Seq(S), NEW e \in S, NEW I \in SUBSET DOMAIN s
  PROVE  /\ Picked(Append(s, e), I) = Picked(s, I)
         /\ Picked(Append(s, e), I \cup {Len(s) + 1}) = Append(Picked(s, I), e)
<1> DEFINE n == Len(s)  t == Append(s, e)  J == I \cup {n + 1}
<1>1. /\ n \in Nat /\ I \subseteq 1..n /\ I \subseteq Nat /\ IsFiniteSet(I)
      /\ J \subseteq Nat /\ IsFiniteSet(J)
  BY PositionsAreFinite, FS_AddElement
<1>2. \A i \in I : t[i] = s[i]
  BY <1>1
<1>3. t[n + 1] = e
  OBVIOUS
<1>4. IsFiniteSet(I) /\ Cardinality(I) \in Nat /\ n + 1 \notin I
  BY <1>1, FS_CardinalityType
<1>5. Cardinality(J) = Cardinality(I) + 1
  BY <1>4, FS_AddElement
<1>6. \A i \in I : UpTo(J, i) = UpTo(I, i)
  BY <1>1 DEF UpTo
<1>7. UpTo(J, n + 1) = J
  BY <1>1 DEF UpTo
<1>8. \A k \in 1..Cardinality(I) : Nth(J, k) = Nth(I, k)
  <2> SUFFICES ASSUME NEW k \in 1..Cardinality(I) PROVE Nth(J, k) = Nth(I, k)
    OBVIOUS
  <2>1. Nth(I, k) \in I /\ Cardinality(UpTo(I, Nth(I, k))) = k
    BY <1>1, NthFacts
  <2>2. Cardinality(UpTo(J, Nth(I, k))) = k /\ Nth(I, k) \in J
    BY <1>6, <2>1
  <2>3. Nth(J, Cardinality(UpTo(J, Nth(I, k)))) = Nth(I, k)
    BY <1>1, <2>2, NthFacts
  <2> QED BY <2>2, <2>3
<1>9. Nth(J, Cardinality(I) + 1) = n + 1
  <2>1. n + 1 \in J
    OBVIOUS
  <2>2. Nth(J, Cardinality(UpTo(J, n + 1))) = n + 1
    BY <1>1, <2>1, NthFacts
  <2> QED BY <1>5, <1>7, <2>2
<1>10. Picked(t, I) = Picked(s, I)
  BY <1>1, <1>2, NthFacts DEF Picked
<1>11. Picked(t, J) = Append(Picked(s, I), e)
  <2> HIDE DEF t, J, n
  <2>1. Picked(s, I) \in Seq(S) /\ Len(Picked(s, I)) = Cardinality(I)
    BY PickedFacts
  <2>2. Picked(t, J) = [k \in 1..(Cardinality(I) + 1) |-> t[Nth(J, k)]]
    BY <1>5 DEF Picked
  <2>3. Append(Picked(s, I), e) = [k \in 1..(Cardinality(I) + 1) |->
                                     IF k = Cardinality(I) + 1 THEN e ELSE Picked(s, I)[k]]
    BY <2>1, AppendIsAFunction
  <2>4. ASSUME NEW k \in 1..(Cardinality(I) + 1)
        PROVE  t[Nth(J, k)] = IF k = Cardinality(I) + 1 THEN e ELSE Picked(s, I)[k]
    <3>1. CASE k = Cardinality(I) + 1
      BY <1>3, <1>9, <3>1
    <3>2. CASE k \in 1..Cardinality(I)
      <4>1. Nth(J, k) = Nth(I, k) /\ Nth(I, k) \in I
        BY <1>1, <1>8, <3>2, NthFacts
      <4>2. Picked(s, I)[k] = s[Nth(I, k)]
        BY <3>2 DEF Picked
      <4> QED BY <1>2, <1>4, <3>2, <4>1, <4>2
    <3> QED BY <1>4, <3>1, <3>2
  <2> QED BY <2>2, <2>3, <2>4
<1> QED BY <1>10, <1>11

\* Picking everything from a place on is the rest of the sequence.
LEMMA PickedRest ==
  ASSUME NEW S, NEW s \in Seq(S), NEW m \in 1..(Len(s) + 1)
  PROVE  Picked(s, m..Len(s)) = SubSeq(s, m, Len(s))
<1> DEFINE n == Len(s)  I == m..n
<1>1. /\ n \in Nat /\ m \in Nat /\ m <= n + 1 /\ m >= 1
      /\ I \subseteq Nat /\ IsFiniteSet(I) /\ n \in Int /\ m \in Int
  <2>1. m \in Int /\ n \in Int /\ n \in Nat /\ m \in Nat /\ m <= n + 1 /\ m >= 1
    OBVIOUS
  <2> HIDE DEF n
  <2>2. IsFiniteSet(m..n)
    BY <2>1, FS_Interval
  <2> QED BY <2>1, <2>2
<1>2. Cardinality(I) = n - m + 1
  <2> HIDE DEF n
  <2>1. Cardinality(m..n) = IF m > n THEN 0 ELSE n - m + 1
    BY <1>1, FS_Interval
  <2> QED BY <1>1, <2>1
<1>3. ASSUME NEW k \in 1..(n - m + 1) PROVE Nth(I, k) = m + k - 1
  <2>1. m + k - 1 \in I
    BY <1>1
  <2>2. UpTo(I, m + k - 1) = m..(m + k - 1)
    BY <1>1 DEF UpTo
  <2>3. Cardinality(m..(m + k - 1)) = k
    BY <1>1, FS_Interval
  <2>4. Nth(I, Cardinality(UpTo(I, m + k - 1))) = m + k - 1
    BY <1>1, <2>1, NthFacts
  <2> QED BY <2>2, <2>3, <2>4
<1>4. Picked(s, I) = [k \in 1..(n - m + 1) |-> s[m + k - 1]]
  BY <1>2, <1>3 DEF Picked
<1>5. SubSeq(s, m, n) = [k \in 1..(n - m + 1) |-> s[m + k - 1]]
  BY <1>1
<1> QED BY <1>4, <1>5

\* Going through a sequence and its picked part side by side.
LEMMA PickedStep ==
  ASSUME NEW S, NEW s \in Seq(S), NEW I \in SUBSET DOMAIN s, NEW i \in Nat, i < Len(s)
  PROVE  /\ Cardinality(UpTo(I, i)) \in 0..Cardinality(I)
         /\ i + 1 \in I => /\ Cardinality(UpTo(I, i + 1)) = Cardinality(UpTo(I, i)) + 1
                           /\ Cardinality(UpTo(I, i + 1)) \in DOMAIN Picked(s, I)
                           /\ Picked(s, I)[Cardinality(UpTo(I, i + 1))] = s[i + 1]
         /\ i + 1 \notin I => UpTo(I, i + 1) = UpTo(I, i)
<1>1. I \subseteq Nat /\ IsFiniteSet(I)
  BY PositionsAreFinite
<1>2. /\ Cardinality(UpTo(I, i)) \in Nat /\ Cardinality(UpTo(I, i)) <= Cardinality(I)
      /\ IsFiniteSet(UpTo(I, i)) /\ Cardinality(I) \in Nat
  BY <1>1, UpToIsFinite, FS_CardinalityType
<1>3. ASSUME i + 1 \in I
      PROVE  /\ Cardinality(UpTo(I, i + 1)) = Cardinality(UpTo(I, i)) + 1
             /\ Cardinality(UpTo(I, i + 1)) \in DOMAIN Picked(s, I)
             /\ Picked(s, I)[Cardinality(UpTo(I, i + 1))] = s[i + 1]
  <2>1. UpTo(I, i + 1) = UpTo(I, i) \cup {i + 1} /\ i + 1 \notin UpTo(I, i)
    BY <1>1, <1>3 DEF UpTo
  <2>2. Cardinality(UpTo(I, i + 1)) = Cardinality(UpTo(I, i)) + 1
    BY <1>2, <2>1, FS_AddElement
  <2>3. Cardinality(UpTo(I, i + 1)) \in 1..Cardinality(I)
    BY <1>1, <1>3, RankFacts
  <2>4. Nth(I, Cardinality(UpTo(I, i + 1))) = i + 1
    BY <1>1, <1>3, NthFacts
  <2>5. /\ DOMAIN Picked(s, I) = 1..Cardinality(I)
        /\ \A k \in DOMAIN Picked(s, I) : Picked(s, I)[k] = s[Nth(I, k)]
    BY PickedFacts
  <2> QED BY <2>2, <2>3, <2>4, <2>5
<1>4. ASSUME i + 1 \notin I PROVE UpTo(I, i + 1) = UpTo(I, i)
  BY <1>1, <1>4 DEF UpTo
<1> QED BY <1>2, <1>3, <1>4

LEMMA PickedEnds ==
  ASSUME NEW S, NEW s \in Seq(S), NEW I \in SUBSET DOMAIN s
  PROVE  Cardinality(UpTo(I, 0)) = 0 /\ UpTo(I, Len(s)) = I
<1>1. I \subseteq 1..Len(s) /\ Len(s) \in Nat
  BY PositionsAreFinite
<1>2. UpTo(I, 0) = {} /\ UpTo(I, Len(s)) = I
  BY <1>1 DEF UpTo
<1> QED BY <1>2, FS_EmptySet

=============================================================================
