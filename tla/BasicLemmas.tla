---------------------------- MODULE BasicLemmas ----------------------------
(***************************************************************************)
(* Facts about finite sets, bounded sets of numbers and sequences that the *)
(* proofs of this project share.                                           *)
(***************************************************************************)
EXTENDS Integers, FiniteSets, SequencesExt, FiniteSetTheorems, SequenceTheorems,
        WellFoundedInduction, TLAPS

\* A non-empty set of numbers between 1 and n has a largest member.
LEMMA MaxOfBounded ==
  ASSUME NEW n \in Nat, NEW S \in SUBSET (1..n), S # {}
  PROVE  Max(S) \in S /\ \A i \in S : i <= Max(S)
<1>. DEFINE T == {n - i : i \in S}
<1>1. T \subseteq Nat /\ T # {}
  <2>1. ASSUME NEW i \in S PROVE n - i \in Nat
    <3>1. i \in 1..n
      OBVIOUS
    <3>. QED
      BY <3>1
  <2>. QED
    BY <2>1
<1>2. PICK t \in T : \A u \in T : ~(<<u, t>> \in OpToRel(<, Nat))
  BY <1>1, NatLessThanWellFounded, WFMin
<1>3. \A u \in T : ~(u < t)
  BY <1>1, <1>2 DEF OpToRel
<1>4. (n - t) \in S /\ \A i \in S : n - t >= i
  BY <1>3
<1>. QED
  BY <1>4 DEF Max

\* A non-empty set of natural numbers has a smallest member.
LEMMA MinOfNaturals ==
  ASSUME NEW S \in SUBSET Nat, S # {}
  PROVE  Min(S) \in S /\ \A i \in S : Min(S) <= i
<1>1. PICK m \in S : \A i \in S : ~(<<i, m>> \in OpToRel(<, Nat))
  BY NatLessThanWellFounded, WFMin
<1>2. ASSUME NEW i \in S PROVE m =< i
  <2>1. i \in Nat /\ m \in Nat
    OBVIOUS
  <2>2. ~(i < m)
    BY <1>1, <2>1 DEF OpToRel
  <2>. QED
    BY <2>1, <2>2
<1>. QED
  BY <1>2 DEF Min

\* A set that differs from a finite one in at most one member.
LEMMA CountMoves ==
  ASSUME NEW A, NEW B, NEW r, IsFiniteSet(A), \A q : q # r => (q \in A <=> q \in B)
  PROVE  /\ IsFiniteSet(B) /\ Cardinality(A) \in Nat /\ Cardinality(B) \in Nat
         /\ r \in A => Cardinality(A) >= 1
         /\ r \in A /\ r \in B => Cardinality(B) = Cardinality(A)
         /\ r \notin A /\ r \notin B => Cardinality(B) = Cardinality(A)
         /\ r \in A /\ r \notin B => Cardinality(B) = Cardinality(A) - 1
         /\ r \notin A /\ r \in B => Cardinality(B) = Cardinality(A) + 1
<1>1. CASE (r \in A <=> r \in B)
  <2>1. A = B
    BY <1>1
  <2>2. Cardinality(A) \in Nat /\ (r \in A => Cardinality(A) # 0)
    BY FS_CardinalityType, FS_EmptySet
  <2>. QED
    BY <1>1, <2>1, <2>2
<1>2. CASE r \in A /\ r \notin B
  <2>1. B = A \ {r}
    BY <1>2
  <2>2. IsFiniteSet(B) /\ Cardinality(B) = Cardinality(A) - 1
    BY <1>2, <2>1, FS_RemoveElement
  <2>3. Cardinality(A) \in Nat /\ Cardinality(B) \in Nat
    BY <2>2, FS_CardinalityType
  <2>. QED
    BY <1>2, <2>2, <2>3
<1>3. CASE r \notin A /\ r \in B
  <2>1. B = A \cup {r}
    BY <1>3
  <2>2. IsFiniteSet(B) /\ Cardinality(B) = Cardinality(A) + 1
    BY <1>3, <2>1, FS_AddElement
  <2>3. Cardinality(A) \in Nat
    BY FS_CardinalityType
  <2>. QED
    BY <1>3, <2>2, <2>3
<1>. QED
  BY <1>1, <1>2, <1>3

\* RemoveFirst closes the gap that the first occurrence leaves.
LEMMA RemoveFirstAt ==
  ASSUME NEW S, NEW q \in Seq(S), NEW k \in 1..Len(q), \A i \in 1..(k - 1) : q[i] # q[k]
  PROVE  /\ RemoveFirst(q, q[k]) \in Seq(S)
         /\ Len(RemoveFirst(q, q[k])) = Len(q) - 1
         /\ \A i \in 1..(Len(q) - 1) :
              RemoveFirst(q, q[k])[i] = IF i < k THEN q[i] ELSE q[i + 1]
<1>. DEFINE I == {i \in 1..Len(q) : q[i] = q[k]}
            before == SubSeq(q, 1, k - 1)
            after  == SubSeq(q, k + 1, Len(q))
<1>1. Len(q) \in Nat /\ k \in 1..Len(q) /\ \A i \in 1..Len(q) : q[i] \in S
  BY LenProperties, ElementOfSeq
<1>2. Min(I) = k
  <2>1. I \in SUBSET Nat /\ k \in I
    BY <1>1
  <2>. HIDE DEF I
  <2>2. Min(I) \in I /\ Min(I) <= k
    BY <2>1, MinOfNaturals
  <2>. QED
    BY <1>1, <2>2 DEF I
<1>3. RemoveFirst(q, q[k]) = before \o after
  BY <1>1, <1>2 DEF RemoveFirst, RemoveAt, SelectInSeq
<1>4. /\ before \in Seq(S) /\ Len(before) = k - 1
      /\ \A i \in 1..(k - 1) : before[i] = q[i]
  <2>1. k - 1 \in Int /\ 1 \in Int /\ \A i \in 1..(k - 1) : q[i] \in S
    BY <1>1
  <2>. QED
    BY <1>1, <2>1, SubSeqProperties
<1>5. /\ after \in Seq(S) /\ Len(after) = Len(q) - k
      /\ \A i \in 1..(Len(q) - k) : after[i] = q[k + i]
  <2>1. k + 1 \in Int /\ Len(q) \in Int /\ \A i \in (k + 1)..Len(q) : q[i] \in S
    BY <1>1
  <2>. QED
    BY <1>1, <2>1, SubSeqProperties
<1>. HIDE DEF before, after
<1>6. /\ before \o after \in Seq(S) /\ Len(before \o after) = Len(q) - 1
      /\ \A i \in 1..(Len(q) - 1) :
           (before \o after)[i] = IF i <= k - 1 THEN before[i] ELSE after[i - (k - 1)]
  <2>1. /\ before \o after \in Seq(S)
        /\ Len(before \o after) = Len(before) + Len(after)
        /\ \A i \in 1..(Len(before) + Len(after)) : (before \o after)[i] =
             IF i <= Len(before) THEN before[i] ELSE after[i - Len(before)]
    BY <1>4, <1>5, ConcatProperties
  <2>2. Len(before) + Len(after) = Len(q) - 1
    BY <1>1, <1>4, <1>5
  <2>. QED
    BY <1>4, <2>1, <2>2
<1>7. ASSUME NEW i \in 1..(Len(q) - 1)
      PROVE  (before \o after)[i] = IF i < k THEN q[i] ELSE q[i + 1]
  <2>1. CASE i < k
    BY <1>1, <1>4, <1>6, <2>1
  <2>2. CASE ~(i < k)
    <3>1. i - (k - 1) \in 1..(Len(q) - k) /\ k + (i - (k - 1)) = i + 1 /\ ~(i <= k - 1)
      BY <1>1, <2>2
    <3>. QED
      BY <1>5, <1>6, <2>2, <3>1
  <2>. QED
    BY <2>1, <2>2
<1>. QED
  BY <1>3, <1>6, <1>7

\* What is not there is not removed; what is there has a first occurrence.
LEMMA RemoveFirstCases ==
  ASSUME NEW S, NEW q \in Seq(S), NEW r
  PROVE  \/ ~Contains(q, r) /\ RemoveFirst(q, r) = q
         \/ \E k \in 1..Len(q) : q[k] = r /\ \A i \in 1..(k - 1) : q[i] # q[k]
<1>1. CASE Contains(q, r)
  <2>. DEFINE I == {i \in 1..Len(q) : q[i] = r}
  <2>1. I \in SUBSET Nat /\ I # {} /\ Len(q) \in Nat
    BY <1>1, LenProperties DEF Contains
  <2>2. PICK k \in I : \A i \in I : k <= i
    <3>. HIDE DEF I
    <3>. QED
      BY <2>1, MinOfNaturals
  <2>3. k \in 1..Len(q) /\ q[k] = r /\ \A i \in 1..Len(q) : q[i] = r => k <= i
    BY <2>2
  <2>. HIDE DEF I
  <2>4. \A i \in 1..(k - 1) : i \in 1..Len(q) /\ ~(k <= i)
    BY <2>1, <2>3
  <2>. QED
    BY <2>3, <2>4
<1>2. CASE ~Contains(q, r)
  BY <1>2 DEF RemoveFirst, Contains
<1>. QED
  BY <1>1, <1>2

\* Removing an element leaves a sequence over the same set.
LEMMA RemoveFirstType ==
  ASSUME NEW S, NEW q \in Seq(S), NEW r
  PROVE  RemoveFirst(q, r) \in Seq(S)
BY RemoveFirstCases, RemoveFirstAt

Distinct(q) == \A i, j \in 1..Len(q) : q[i] = q[j] => i = j

\* In a queue without repetitions, removing takes out the element and nothing
\* else.
LEMMA RemoveFromQueue ==
  ASSUME NEW S, NEW q \in Seq(S), Distinct(q), NEW r
  PROVE  /\ Distinct(RemoveFirst(q, r))
         /\ \A x : Contains(RemoveFirst(q, r), x) <=> Contains(q, x) /\ x # r
<1>1. CASE ~Contains(q, r) /\ RemoveFirst(q, r) = q
  BY <1>1
<1>2. ASSUME NEW k \in 1..Len(q), q[k] = r, \A i \in 1..(k - 1) : q[i] # q[k]
      PROVE  /\ Distinct(RemoveFirst(q, r))
             /\ \A x : Contains(RemoveFirst(q, r), x) <=> Contains(q, x) /\ x # r
  <2>. DEFINE w == RemoveFirst(q, r)
  <2>1. /\ Len(q) \in Nat /\ Len(w) = Len(q) - 1
        /\ \A i \in 1..(Len(q) - 1) : w[i] = IF i < k THEN q[i] ELSE q[i + 1]
    BY <1>2, RemoveFirstAt, LenProperties
  <2>. HIDE DEF w
  <2>2. Distinct(w)
    BY <2>1 DEF Distinct
  <2>3. ASSUME NEW x, NEW i \in 1..Len(w), w[i] = x
        PROVE  Contains(q, x) /\ x # r
    BY <1>2, <2>1, <2>3 DEF Distinct, Contains
  <2>4. ASSUME NEW i \in 1..Len(q), q[i] # r
        PROVE  \E j \in 1..Len(w) : w[j] = q[i]
    <3>1. CASE i < k
      <4>1. i \in 1..Len(w) /\ w[i] = q[i]
        BY <1>2, <2>1, <3>1
      <4>. QED
        BY <4>1
    <3>2. CASE i > k
      <4>1. i - 1 \in 1..Len(w) /\ w[i - 1] = q[i]
        BY <1>2, <2>1, <3>2
      <4>. QED
        BY <4>1
    <3>. QED
      BY <1>2, <2>1, <2>4, <3>1, <3>2
  <2>5. \A x : Contains(w, x) <=> Contains(q, x) /\ x # r
    BY <2>3, <2>4 DEF Contains
  <2>. QED
    BY <2>2, <2>5 DEF w
<1>. QED
  BY <1>1, <1>2, RemoveFirstCases

\* The first in line leaves, or one behind it.
LEMMA RemoveHead ==
  ASSUME NEW S, NEW q \in Seq(S), NEW r \in S
  PROVE  RemoveFirst(<<r>> \o q, r) = q
<1>. DEFINE w == <<r>> \o q
<1>1. /\ w \in Seq(S) /\ Len(w) = Len(q) + 1 /\ Len(q) \in Nat /\ w[1] = r
      /\ \A i \in 1..Len(q) : w[i + 1] = q[i]
  OBVIOUS
<1>. HIDE DEF w
<1>2. /\ RemoveFirst(w, r) \in Seq(S) /\ Len(RemoveFirst(w, r)) = Len(q)
      /\ \A i \in 1..Len(q) : RemoveFirst(w, r)[i] = q[i]
  <2>1. 1 \in 1..Len(w) /\ (\A i \in 1..(1 - 1) : w[i] # w[1]) /\ w[1] = r
    BY <1>1
  <2>2. /\ RemoveFirst(w, w[1]) \in Seq(S)
        /\ Len(RemoveFirst(w, w[1])) = Len(w) - 1
        /\ \A i \in 1..(Len(w) - 1) : RemoveFirst(w, w[1])[i] = IF i < 1 THEN w[i] ELSE w[i + 1]
    BY <1>1, <2>1, RemoveFirstAt
  <2>. QED
    BY <1>1, <2>1, <2>2
<1>3. RemoveFirst(w, r) = q
  BY <1>2, SeqEqual
<1>. QED
  BY <1>3 DEF w

LEMMA RemoveBehind ==
  ASSUME NEW S, NEW q \in Seq(S), NEW o \in S, NEW r, r # o
  PROVE  RemoveFirst(<<o>> \o q, r) = <<o>> \o RemoveFirst(q, r)
<1>. DEFINE w == <<o>> \o q
<1>1. /\ w \in Seq(S) /\ Len(w) = Len(q) + 1 /\ Len(q) \in Nat /\ w[1] = o
      /\ \A i \in 1..Len(q) : w[i + 1] = q[i]
      /\ \A i \in 2..Len(w) : w[i] = q[i - 1]
  OBVIOUS
<1>2. CASE ~Contains(q, r) /\ RemoveFirst(q, r) = q
  <2>. HIDE DEF w
  <2>1. ~Contains(w, r)
    <3>. SUFFICES ASSUME NEW i \in 1..Len(w), w[i] = r PROVE FALSE
      BY DEF Contains
    <3>1. i # 1 => i - 1 \in 1..Len(q) /\ w[i] = q[i - 1]
      BY <1>1
    <3>. QED
      BY <1>1, <1>2, <3>1 DEF Contains
  <2>2. RemoveFirst(w, r) = w
    BY <2>1 DEF RemoveFirst, Contains
  <2>. QED
    BY <1>2, <2>2 DEF w
<1>3. ASSUME NEW k \in 1..Len(q), q[k] = r, \A i \in 1..(k - 1) : q[i] # q[k]
      PROVE  RemoveFirst(w, r) = <<o>> \o RemoveFirst(q, r)
  <2>. DEFINE u == RemoveFirst(q, r)
  <2>1. /\ u \in Seq(S) /\ Len(u) = Len(q) - 1
        /\ \A i \in 1..(Len(q) - 1) : u[i] = IF i < k THEN q[i] ELSE q[i + 1]
    BY <1>3, RemoveFirstAt
  <2>. HIDE DEF w, u
  <2>2. k + 1 \in 1..Len(w) /\ w[k + 1] = r /\ \A i \in 1..((k + 1) - 1) : w[i] # w[k + 1]
    <3>1. k + 1 \in 1..Len(w) /\ w[k + 1] = r
      BY <1>1, <1>3
    <3>2. ASSUME NEW i \in 1..((k + 1) - 1)
          PROVE  w[i] # r
      <4>1. CASE i = 1
        BY <1>1, <4>1
      <4>2. CASE i # 1
        <5>1. i - 1 \in 1..(k - 1) /\ w[i] = q[i - 1]
          BY <1>1, <4>2
        <5>. QED
          BY <1>3, <5>1
      <4>. QED
        BY <4>1, <4>2
    <3>. QED
      BY <3>1, <3>2
  <2>3. /\ RemoveFirst(w, r) \in Seq(S) /\ Len(RemoveFirst(w, r)) = Len(q)
        /\ \A i \in 1..Len(q) : RemoveFirst(w, r)[i] = IF i < k + 1 THEN w[i] ELSE w[i + 1]
    <3>1. /\ RemoveFirst(w, w[k + 1]) \in Seq(S)
          /\ Len(RemoveFirst(w, w[k + 1])) = Len(w) - 1
          /\ \A i \in 1..(Len(w) - 1) : RemoveFirst(w, w[k + 1])[i] = IF i < k + 1 THEN w[i] ELSE w[i + 1]
      BY <1>1, <2>2, RemoveFirstAt
    <3>. QED
      BY <1>1, <2>2, <3>1
  <2>4. /\ <<o>> \o u \in Seq(S) /\ Len(<<o>> \o u) = Len(q) /\ (<<o>> \o u)[1] = o
        /\ \A i \in 2..Len(q) : (<<o>> \o u)[i] = u[i - 1]
    BY <1>1, <2>1
  <2>5. ASSUME NEW i \in 1..Len(q)
        PROVE  RemoveFirst(w, r)[i] = (<<o>> \o u)[i]
    <3>1. CASE i = 1
      BY <1>1, <2>3, <2>4, <3>1
    <3>2. CASE i # 1 /\ i < k + 1
      <4>1. i \in 2..Len(q) /\ i - 1 \in 1..(Len(q) - 1) /\ i - 1 < k /\ i \in 2..Len(w)
        BY <1>1, <3>2
      <4>. QED
        BY <1>1, <2>1, <2>3, <2>4, <3>2, <4>1
    <3>3. CASE i # 1 /\ ~(i < k + 1)
      <4>1. i \in 2..Len(q) /\ i - 1 \in 1..(Len(q) - 1) /\ ~(i - 1 < k) /\ (i - 1) + 1 = i
        BY <1>1, <3>3
      <4>. QED
        BY <1>1, <2>1, <2>3, <2>4, <3>3, <4>1
    <3>. QED
      BY <3>1, <3>2, <3>3
  <2>. HIDE DEF w
  <2>6. RemoveFirst(w, r) = <<o>> \o u
    BY <2>3, <2>4, <2>5, SeqEqual
  <2>. QED
    BY <2>6 DEF u
<1>. QED
  BY <1>2, <1>3, RemoveFirstCases DEF w
=============================================================================
