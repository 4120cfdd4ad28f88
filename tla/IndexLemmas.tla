---------------------------- MODULE IndexLemmas ----------------------------
(***************************************************************************)
(* A loop over a list that stops at the first hit needs that there is one: *)
(* every set of naturals that is not empty has a least member.             *)
(***************************************************************************)
EXTENDS Naturals, FiniteSetTheorems, WellFoundedInduction, TLAPS

\* The members of S up to one of them are finitely many, and the strict subsets of
\* a finite set are well-founded, so one of the sets "before n" is minimal.
LEMMA LeastExists ==
    ASSUME NEW S \in SUBSET Nat, S # {}
    PROVE  \E n \in S : \A m \in S : n <= m
<1>1. PICK top \in S : TRUE
  OBVIOUS
<1>2. top \in Nat /\ \A n \in S : n \in Nat
  BY <1>1
<1> DEFINE I == {n \in S : n <= top}
           Before(n) == {m \in I : m < n}
           T == {Before(n) : n \in I}
<1>3. IsFiniteSet(I)
  <2>1. IsFiniteSet(0..top)
    BY <1>2, FS_Interval
  <2>2. \A n \in I : n \in 0..top
    BY <1>2
  <2>3. I \in SUBSET (0..top)
    BY <2>2
  <2> HIDE DEF I
  <2> QED
    BY <2>1, <2>3, FS_Subset
<1>4. IsWellFoundedOn(StrictSubsetOrdering(I), SUBSET I)
  BY <1>3, FS_StrictSubsetOrderingWellFounded, FS_FiniteSubsetsOfFinite
<1>5. T \subseteq SUBSET I /\ T # {}
  <2>1. top \in I
    BY <1>1, <1>2
  <2>2. Before(top) \in T
    BY <2>1
  <2>3. \A n \in I : Before(n) \in SUBSET I
    OBVIOUS
  <2> QED
    BY <2>2, <2>3
<1>6. PICK X \in T : \A Y \in T : ~(<<Y, X>> \in StrictSubsetOrdering(I))
  <2> HIDE DEF T
  <2> QED
    BY <1>4, <1>5, WFMin
<1>7. PICK n \in I : X = Before(n)
  BY <1>6
<1>8. SUFFICES ASSUME NEW m \in S, ~(n <= m)
               PROVE  FALSE
  BY <1>7
<1>9. n \in Nat /\ n <= top /\ m \in Nat /\ m < n /\ top \in Nat
  BY <1>2, <1>7, <1>8
<1>10. m \in I
  BY <1>9
<1>11. \A k \in I : k \in Nat
  BY <1>2
<1>12. Before(m) \subseteq Before(n) /\ m \in Before(n) /\ m \notin Before(m)
  <2>1. \A k \in I : k < m => k < n
    BY <1>9, <1>11
  <2>2. m < n /\ ~(m < m)
    BY <1>9
  <2> HIDE DEF I
  <2> QED
    BY <1>10, <2>1, <2>2
<1>13. <<Before(m), Before(n)>> \in StrictSubsetOrdering(I)
  BY <1>12 DEF StrictSubsetOrdering
<1> QED
  BY <1>6, <1>7, <1>10, <1>13
=============================================================================
