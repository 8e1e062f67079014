--------------------------- MODULE FiniteSetLemmas ---------------------------
(***************************************************************************)
(* Smallest and largest elements of finite sets, which stand in for        *)
(* induction over their size: inclusion between finite sets is well        *)
(* founded, so a family of them that is not empty has a minimal member.    *)
(***************************************************************************)
EXTENDS Integers, FiniteSetTheorems, WellFoundedInduction, TLAPS

\* A family of subsets of a finite set has a minimal member.
LEMMA MinimalSet ==
    ASSUME NEW S, IsFiniteSet(S),
           NEW F, F # {}, \A T \in F : T \subseteq S
    PROVE  \E T \in F : \A U \in F : U \subseteq T => U = T
PROOF
<1>1. IsWellFoundedOn(StrictSubsetOrdering(S), SUBSET S)
  BY FS_StrictSubsetOrderingWellFounded, FS_FiniteSubsetsOfFinite
<1>2. F \subseteq SUBSET S
  OBVIOUS
<1>3. PICK T \in F : \A U \in F : ~(<<U, T>> \in StrictSubsetOrdering(S))
  BY <1>1, <1>2, WFMin, Zenon
<1>4. ASSUME NEW U \in F, U \subseteq T PROVE U = T
  <2>1. ~(<<U, T>> \in StrictSubsetOrdering(S))
    BY <1>3
  <2> QED BY <2>1, <1>4 DEF StrictSubsetOrdering
<1> QED BY <1>3, <1>4

\* A set of numbers that is finite and not empty has a largest one.
LEMMA LargestNumber ==
    ASSUME NEW S \in SUBSET Nat, IsFiniteSet(S), S # {}
    PROVE  \E m \in S : \A n \in S : n <= m
PROOF
<1> DEFINE From(m) == {n \in S : m <= n}
           F == {From(m) : m \in S}
<1>1. ASSUME NEW m \in S, NEW n \in S, m <= n PROVE From(n) \subseteq From(m)
  <2> SUFFICES ASSUME NEW k \in S, n <= k PROVE m <= k
    OBVIOUS
  <2>1. k \in Nat /\ m \in Nat /\ n \in Nat
    OBVIOUS
  <2> QED BY <1>1, <2>1
<1>2. \A m \in S : m \in From(m)
  OBVIOUS
<1>3. \A m, n \in S : n \in From(m) => m <= n
  OBVIOUS
<1>4. \A m \in S : From(m) \subseteq S
  OBVIOUS
<1> HIDE DEF From
<1>5. F # {} /\ \A T \in F : T \subseteq S
  BY <1>4
<1> HIDE DEF F
<1>6. PICK T \in F : \A U \in F : U \subseteq T => U = T
  BY <1>5, MinimalSet, SMT
<1>7. PICK m \in S : T = From(m)
  BY DEF F
<1>8. ASSUME NEW n \in S, m <= n PROVE n <= m
  <2>1. From(n) \subseteq From(m) /\ From(n) \in F
    BY <1>1, <1>8 DEF F
  <2>2. From(n) = From(m)
    BY <1>6, <1>7, <2>1
  <2> QED BY <1>2, <1>3, <2>2
<1> QED BY <1>8

\* A value that is largest for some element of a finite set.
LEMMA LargestValue ==
    ASSUME NEW S, IsFiniteSet(S), S # {}, NEW f \in [S -> Nat]
    PROVE  \E x \in S : \A y \in S : f[y] <= f[x]
PROOF
<1> DEFINE V == {f[x] : x \in S}
<1>1. V \in SUBSET Nat /\ V # {}
  OBVIOUS
<1>2. IsFiniteSet(V)
  <2>1. f \in Surjection(S, V)
    BY DEF Surjection
  <2> QED BY <2>1, FS_Surjection
<1>3. PICK m \in V : \A n \in V : n <= m
  BY <1>1, <1>2, LargestNumber
<1> QED BY <1>3
=============================================================================
