---------------------------- MODULE NumberLemmas ----------------------------
(***************************************************************************)
(* Sets of natural numbers have a least element, and bounded ones a         *)
(* greatest; and what holds of 0 and is handed on holds up to n.  The       *)
(* proofs about recursive definitions, and about a CHOOSE of the last of a  *)
(* list, rest on these.                                                     *)
(***************************************************************************)
EXTENDS Naturals, TLAPS, WellFoundedInduction

LEMMA LeastNumber ==
    ASSUME NEW T \in SUBSET Nat, T # {}
    PROVE  \E x \in T : \A y \in T : x <= y
  <1> DEFINE R == OpToRel(<, Nat)
  <1>1. IsWellFoundedOn(R, Nat)
    BY NatLessThanWellFounded
  <1>2. \A x, y \in Nat : x < y => <<x, y>> \in R
    BY DEF OpToRel
  <1> HIDE DEF R
  <1>3. PICK x \in T : \A y \in T : ~(<<y, x>> \in R)
    BY <1>1, WFMin, Zenon
  <1>4. \A y \in T : ~(y < x)
    <2> TAKE y \in T
    <2>1. y \in Nat /\ x \in Nat
      OBVIOUS
    <2>2. y < x => <<y, x>> \in R
      BY <1>2, <2>1, Zenon
    <2> QED BY <1>3, <2>2
  <1>5. \A y \in T : y \in Nat /\ x \in Nat
    OBVIOUS
  <1> QED BY <1>4, <1>5

\* A property of the numbers up to n, as the set of those that have it.
LEMMA UpTo ==
    ASSUME NEW n \in Nat, NEW G, 0 \in G,
           \A i \in 1..n : i - 1 \in G => i \in G
    PROVE  \A i \in 0..n : i \in G
  <1> SUFFICES ASSUME NEW k \in 0..n, k \notin G PROVE FALSE
    OBVIOUS
  <1> DEFINE T == {i \in 0..n : i \notin G}
  <1>1. T \in SUBSET Nat /\ T # {}
    OBVIOUS
  <1>2. PICK x \in T : \A y \in T : x <= y
    BY <1>1, LeastNumber
  <1>3. x \in 1..n /\ x \notin G
    OBVIOUS
  <1>4. x - 1 \in 0..n /\ ~(x <= x - 1)
    BY <1>3
  <1>5. x - 1 \notin T
    BY <1>2, <1>4
  <1> QED BY <1>3, <1>4, <1>5

LEMMA GreatestNumber ==
    ASSUME NEW n \in Nat, NEW T \in SUBSET (0..n), T # {}
    PROVE  \E x \in T : \A y \in T : y <= x
  <1> DEFINE M == {n - y : y \in T}
  <1>1. M \in SUBSET Nat /\ M # {}
    OBVIOUS
  <1>2. PICK m \in M : \A z \in M : m <= z
    BY <1>1, LeastNumber
  <1>3. PICK x \in T : m = n - x
    OBVIOUS
  <1>4. \A y \in T : y <= x
    <2> TAKE y \in T
    <2>1. n - x <= n - y
      BY <1>2, <1>3
    <2> QED BY <2>1
  <1> QED BY <1>4

\* Numbers that increase from place to place and have as many places as values
\* are their own places.
LEMMA IncreasingIsIdentity ==
    ASSUME NEW n \in Nat, NEW f \in [1..n -> 1..n],
           \A i, j \in 1..n : i < j => f[i] < f[j]
    PROVE  \A i \in 1..n : f[i] = i
  <1>0. \A i \in 1..n : f[i] \in 1..n
    OBVIOUS
  <1>1. \A i \in 1..n : i <= f[i]
    <2> DEFINE G == {i \in 0..n : i = 0 \/ i <= f[i]}
    <2>1. 0 \in G
      OBVIOUS
    <2>2. ASSUME NEW i \in 1..n, i - 1 \in G PROVE i \in G
      <3>1. CASE i = 1
        BY <3>1, <1>0
      <3>2. CASE i # 1
        <4>1. i - 1 \in 1..n /\ i - 1 < i /\ i - 1 <= f[i - 1]
          BY <2>2, <3>2
        <4>2. f[i - 1] < f[i]
          BY <4>1
        <4>3. f[i] \in 1..n /\ f[i - 1] \in 1..n
          BY <4>1, <1>0
        <4>4. i <= f[i]
          BY <4>1, <4>2, <4>3
        <4> QED BY <4>4
      <3> QED BY <3>1, <3>2
    <2> HIDE DEF G
    <2>3. \A i \in 0..n : i \in G
      BY <2>1, <2>2, UpTo
    <2> QED BY <2>3 DEF G
  <1>2. ASSUME NEW k \in 1..n, k < f[k] PROVE FALSE
    <2> DEFINE T == {i \in 1..n : i < f[i]}
    <2>1. T \in SUBSET (0..n) /\ T # {}
      BY <1>2
    <2> HIDE DEF T
    <2>2. PICK x \in T : \A y \in T : y <= x
      BY <2>1, GreatestNumber
    <2>3. x \in 1..n /\ x < f[x] /\ f[x] \in 1..n
      BY <1>0 DEF T
    <2>4. x + 1 \in 1..n
      BY <2>3
    <2>5. f[x] < f[x + 1] /\ f[x + 1] \in 1..n
      BY <2>3, <2>4, <1>0
    <2>6. x + 1 < f[x + 1]
      BY <2>3, <2>5
    <2>7. x + 1 \in T
      BY <2>4, <2>6 DEF T
    <2> QED BY <2>2, <2>3, <2>7
  <1> QED BY <1>0, <1>1, <1>2
=============================================================================
