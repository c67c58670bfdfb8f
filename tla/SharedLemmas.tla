---------------------------- MODULE SharedLemmas ----------------------------
(***************************************************************************)
(* Facts about numbers and sequences that the proofs of several components *)
(* need.  Induction is over the set of the numbers that have a property: a *)
(* set of numbers that is not empty has a least element, and it follows    *)
(* from that for any set, without an operator as a parameter.              *)
(***************************************************************************)
EXTENDS Integers, Sequences, SequenceTheorems, WellFoundedInduction, TLAPS

\* A set of numbers that is not empty has a least one.
LEMMA LeastNumber ==
    ASSUME NEW P, P \subseteq Nat, P # {}
    PROVE  \E i \in P : \A j \in P : i <= j
<1>1. PICK i \in P : \A j \in P : ~(<<j, i>> \in OpToRel(<, Nat))
  BY WFMin, NatLessThanWellFounded, Zenon
<1>2. \A j \in P : ~(j < i)
  BY <1>1 DEF OpToRel
<1> QED
  BY <1>2

\* Induction, on the set of the numbers with a property.
LEMMA NatSetInduction ==
    ASSUME NEW P, 0 \in P, \A n \in Nat : n \in P => n + 1 \in P
    PROVE  Nat \subseteq P
<1> SUFFICES ASSUME Nat \ P # {} PROVE FALSE
  OBVIOUS
<1> DEFINE Q == Nat \ P
<1>1. PICK i \in Q : \A j \in Q : ~(<<j, i>> \in OpToRel(<, Nat))
  <2>1. Q \subseteq Nat /\ Q # {}
    OBVIOUS
  <2> HIDE DEF Q
  <2> QED
    BY <2>1, WFMin, NatLessThanWellFounded, Zenon
<1>2. i \in Nat /\ i # 0
  OBVIOUS
<1>3. i - 1 \in Nat /\ i - 1 < i /\ (i - 1) + 1 = i
  BY <1>2
<1>4. i - 1 \in P
  BY <1>1, <1>3 DEF OpToRel
<1> QED
  BY <1>3, <1>4

\* e is p followed by q.
Joined(e, p, q) ==
    /\ Len(e) = Len(p) + Len(q)
    /\ \A i \in 1..Len(p) : e[i] = p[i]
    /\ \A i \in 1..Len(q) : e[Len(p) + i] = q[i]

\* x is q from position m + 1 to n.
Part(x, q, m, n) == Len(x) = n - m /\ \A i \in 1..n - m : x[i] = q[m + i]

\* A concatenation joins.
LEMMA ConcatJoins ==
    ASSUME NEW S, NEW p \in Seq(S), NEW q \in Seq(S)
    PROVE  p \o q \in Seq(S) /\ Joined(p \o q, p, q)
<1> DEFINE a == Len(p)
           b == Len(q)
           e == p \o q
<1>1. /\ e \in Seq(S) /\ Len(e) = a + b
      /\ \A i \in 1..a + b : e[i] = IF i <= a THEN p[i] ELSE q[i - a]
  BY ConcatProperties
<1>2. a \in Nat /\ b \in Nat
  BY LenProperties
<1> HIDE DEF a, b, e
<1>3. \A i \in 1..a : e[i] = p[i]
  BY <1>1, <1>2
<1>4. ASSUME NEW k \in 1..b PROVE e[a + k] = q[k]
  <2>1. a + k \in 1..a + b /\ ~(a + k <= a) /\ (a + k) - a = k
    BY <1>2
  <2> QED
    BY <1>1, <2>1
<1> QED
  BY <1>1, <1>3, <1>4 DEF a, b, e, Joined

\* A subsequence is a part.
LEMMA SubSeqParts ==
    ASSUME NEW S, NEW q \in Seq(S), NEW m \in Nat, NEW n \in Nat, m <= n, n <= Len(q)
    PROVE  SubSeq(q, m + 1, n) \in Seq(S) /\ Part(SubSeq(q, m + 1, n), q, m, n)
<1> DEFINE x == SubSeq(q, m + 1, n)
<1>1. \A i \in m + 1..n : q[i] \in S
  <2>1. Len(q) \in Nat /\ \A i \in 1..Len(q) : q[i] \in S
    BY ElementOfSeq, LenProperties
  <2>2. \A i \in m + 1..n : i \in 1..Len(q)
    BY <2>1
  <2> QED
    BY <2>1, <2>2
<1>2. /\ x \in Seq(S)
      /\ Len(x) = IF m + 1 <= n THEN n - (m + 1) + 1 ELSE 0
      /\ \A i \in 1..n - (m + 1) + 1 : x[i] = q[(m + 1) + i - 1]
  <2>1. m + 1 \in Int /\ n \in Int
    OBVIOUS
  <2> QED
    BY <1>1, <2>1, SubSeqProperties
<1> HIDE DEF x
<1>3. Len(x) = n - m
  BY <1>2
<1>4. ASSUME NEW k \in 1..n - m PROVE x[k] = q[m + k]
  <2>1. k \in 1..n - (m + 1) + 1 /\ (m + 1) + k - 1 = m + k
    OBVIOUS
  <2> QED
    BY <1>2, <2>1
<1> QED
  BY <1>2, <1>3, <1>4 DEF x, Part

\* A function on an initial segment of the numbers is a sequence.
LEMMA SegmentIsSequence ==
    ASSUME NEW S, NEW n \in Nat, NEW f \in [1..n -> S]
    PROVE  f \in Seq(S) /\ Len(f) = n
  BY LenProperties

\* A sequence of one element.
LEMMA OneElement ==
    ASSUME NEW S, NEW x \in S
    PROVE  <<x>> \in Seq(S) /\ Len(<<x>>) = 1 /\ <<x>>[1] = x
  OBVIOUS
=============================================================================
