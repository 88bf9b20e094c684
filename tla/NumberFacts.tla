---------------------------- MODULE NumberFacts ----------------------------
(* Facts about sets of numbers that several proofs rest on.                *)
EXTENDS Naturals, FiniteSetTheorems, WellFoundedInduction, TLAPS

\* The least-number principle, from the order of the finite intervals.
LEMMA LeastNumber ==
    ASSUME NEW N \in SUBSET Nat, N # {}
    PROVE  \E m \in N : \A n \in N : m <= n
<1> DEFINE Below(n) == 0 .. n
           T == {Below(n) : n \in N}
<1>1. T \subseteq FiniteSubsetsOf(Nat) /\ T # {}
  <2>1. \A n \in N : Below(n) \in SUBSET Nat
    OBVIOUS
  <2>2. \A n \in N : IsFiniteSet(Below(n))
    BY FS_Interval
  <2>3. QED BY <2>1, <2>2 DEF FiniteSubsetsOf
<1>2. PICK x \in T : \A y \in T : ~(<<y, x>> \in StrictSubsetOrdering(Nat))
  <2> HIDE DEF T
  <2>1. IsWellFoundedOn(StrictSubsetOrdering(Nat), FiniteSubsetsOf(Nat))
    BY FS_StrictSubsetOrderingWellFounded
  <2>2. QED BY <1>1, <2>1, WFMin
<1>3. PICK m \in N : x = Below(m)
    OBVIOUS
<1>4. ASSUME NEW n \in N, n < m PROVE FALSE
  <2>1. Below(n) \in T /\ Below(n) \subseteq x /\ x \subseteq Nat /\ m \in x /\ m \notin Below(n)
    BY <1>3, <1>4
  <2>2. <<Below(n), x>> \in StrictSubsetOrdering(Nat)
    BY <2>1 DEF StrictSubsetOrdering
  <2>3. QED BY <1>2, <2>1, <2>2
<1>5. \A n \in N : m <= n
    BY <1>4
<1>6. QED BY <1>5

\* Induction: the numbers a set misses would have a least one.
LEMMA Induction ==
    ASSUME NEW S, 0 \in S, \A n \in Nat : n \in S => n + 1 \in S
    PROVE  \A n \in Nat : n \in S
<1> SUFFICES ASSUME Nat \ S # {} PROVE FALSE
    OBVIOUS
<1>1. PICK m \in Nat \ S : \A n \in Nat \ S : m <= n
    BY LeastNumber
<1>2. m - 1 \in Nat /\ m - 1 \notin S
    <2>1. m # 0
        OBVIOUS
    <2>2. m - 1 \in Nat /\ (m - 1) + 1 = m
        BY <2>1
    <2>3. QED BY <2>2
<1>3. QED BY <1>1, <1>2

\* A bounded set of numbers has a greatest one.
LEMMA GreatestNumber ==
    ASSUME NEW k \in Nat, NEW N \in SUBSET (0 .. k), N # {}
    PROVE  \E m \in N : \A n \in N : n <= m
<1> DEFINE D == {k - n : n \in N}
<1>1. D \in SUBSET Nat /\ D # {}
  <2>1. \A n \in N : k - n \in Nat
    OBVIOUS
  <2>2. QED BY <2>1
<1>2. PICK d \in D : \A e \in D : d <= e
  <2> HIDE DEF D
  <2>1. QED BY <1>1, LeastNumber
<1>3. PICK m \in N : d = k - m
    OBVIOUS
<1>4. \A n \in N : k - m <= k - n
    BY <1>2, <1>3
<1>5. \A n \in N : n <= m
    BY <1>4
<1>6. QED BY <1>5
=============================================================================
