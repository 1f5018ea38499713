---------------------------- MODULE ExtremaProofs ----------------------------
(***************************************************************************)
(* The least and the greatest member of a set of numbers, as Min and Max   *)
(* of FiniteSetsExt choose them: what the proofs about the components need *)
(* of the two.                                                             *)
(***************************************************************************)
EXTENDS Integers, FiniteSets, FiniteSetsExt, TLAPS, FiniteSetTheorems, WellFoundedInduction

\* Some numbers have a least one, which Min gives.
LEMMA LeastOf ==
  ASSUME NEW S \in SUBSET Nat, S # {}
  PROVE  Min(S) \in S /\ \A n \in S : Min(S) <= n
  <1>1. PICK x : x \in S
    OBVIOUS
  <1> DEFINE Below == {0 .. y : y \in {z \in S : z <= x}}
             R == StrictSubsetOrdering(0 .. x)
  <1>2. x \in Nat /\ IsFiniteSet(0 .. x)
    BY <1>1, FS_Interval
  <1>3. Below \subseteq SUBSET (0 .. x) /\ 0 .. x \in Below
    BY <1>1, <1>2
  <1>4. IsWellFoundedOn(R, FiniteSubsetsOf(0 .. x)) /\ Below \subseteq FiniteSubsetsOf(0 .. x)
    BY <1>2, <1>3, FS_StrictSubsetOrderingWellFounded, FS_FiniteSubsetsOfFinite
  <1>5. PICK B \in Below : \A C \in Below : ~(<<C, B>> \in R)
    <2> HIDE DEF Below, R
    <2> QED
      BY <1>3, <1>4, WFMin
  <1>6. PICK m \in S : m <= x /\ B = 0 .. m
    BY <1>5
  <1>7. \A y \in S : m <= y
    <2> SUFFICES ASSUME NEW y \in S, y < m PROVE FALSE
      OBVIOUS
    <2>1. 0 .. y \in Below
      BY <1>1, <1>6
    <2>2. 0 .. y \subseteq B /\ m \in B /\ m \notin 0 .. y
      BY <1>6
    <2> HIDE DEF Below
    <2>3. <<0 .. y, B>> \in R
      BY <1>3, <1>5, <2>1, <2>2 DEF StrictSubsetOrdering
    <2> QED
      BY <1>5, <2>1, <2>3
  <1> QED
    BY <1>7 DEF Min

\* Finitely many numbers have a greatest one, which Max gives.
LEMMA GreatestOf ==
  ASSUME NEW S \in SUBSET Nat, IsFiniteSet(S), S # {}
  PROVE  Max(S) \in S /\ \A n \in S : n <= Max(S)
  <1> DEFINE HasLast(T) == \E m \in T : \A n \in T : n <= m
             Bad == {T \in SUBSET S : T # {} /\ ~HasLast(T)}
             R == StrictSubsetOrdering(S)
  <1>1. IsWellFoundedOn(R, FiniteSubsetsOf(S)) /\ Bad \subseteq FiniteSubsetsOf(S)
    BY FS_StrictSubsetOrderingWellFounded, FS_FiniteSubsetsOfFinite
  <1>2. Bad = {}
    <2> SUFFICES ASSUME Bad # {} PROVE FALSE
      OBVIOUS
    <2>1. PICK T \in Bad : \A C \in Bad : ~(<<C, T>> \in R)
      <3> HIDE DEF Bad, R
      <3> QED
        BY <1>1, WFMin
    <2>2. PICK x : x \in T
      BY <2>1
    <2> DEFINE U == T \ {x}
    <2>3. <<U, T>> \in R
      BY <2>1, <2>2 DEF StrictSubsetOrdering
    <2>4. U \notin Bad /\ U \in SUBSET S
      BY <2>1, <2>3
    <2>5. CASE U = {}
      <3>1. T = {x} /\ x \in Nat
        BY <2>1, <2>2, <2>5
      <3> QED
        BY <2>1, <3>1
    <2>6. CASE U # {}
      <3>1. PICK m \in U : \A n \in U : n <= m
        BY <2>4, <2>6
      <3>2. m \in Nat /\ x \in Nat /\ T \subseteq Nat
        BY <2>1, <2>2, <2>4
      <3>3. CASE x <= m
        BY <2>1, <2>2, <3>1, <3>2, <3>3
      <3>4. CASE ~(x <= m)
        <4>1. \A n \in T : n <= x
          BY <3>1, <3>2, <3>4
        <4> QED
          BY <2>1, <2>2, <4>1
      <3> QED
        BY <3>3, <3>4
    <2> QED
      BY <2>5, <2>6
  <1>3. PICK m \in S : \A n \in S : m >= n
    BY <1>2
  <1>4. Max(S) \in S /\ \A n \in S : Max(S) >= n
    BY <1>3 DEF Max
  <1> QED
    BY <1>4

\* Induction over the numbers, for the set of those for which a fact holds.
LEMMA Climb ==
  ASSUME NEW B, 0 \in B, \A n \in Nat : n \in B => n + 1 \in B
  PROVE  Nat \subseteq B
  <1> SUFFICES ASSUME Nat \ B # {} PROVE FALSE
    OBVIOUS
  <1> DEFINE m == Min(Nat \ B)
  <1>1. m \in Nat \ B /\ \A n \in Nat \ B : m <= n
    BY LeastOf
  <1> HIDE DEF m
  <1>2. m - 1 \in Nat /\ m - 1 \notin Nat \ B
    BY <1>1
  <1> QED
    BY <1>1, <1>2

\* The members of I below n: what a loop over I in increasing order has done when
\* it comes to n.
Below(I, n) == {i \in I : i < n}

\* The last member below n + 1 is n, and without it there are those below n.
LEMMA BelowStep ==
  ASSUME NEW I \in SUBSET Nat, NEW n \in Nat
  PROVE  /\ n \in I => /\ Below(I, n + 1) # {}
                       /\ Max(Below(I, n + 1)) = n
                       /\ Below(I, n + 1) \ {n} = Below(I, n)
         /\ n \notin I => Below(I, n + 1) = Below(I, n)
         /\ Below(I, 0) = {} /\ Below(I, n) \in SUBSET I
         /\ n \notin Below(I, n)
         /\ n \in I => Below(I, n + 1) = Below(I, n) \cup {n}
  <1>1. \A i \in I : i \in Nat /\ (i < n + 1 <=> i < n \/ i = n)
    OBVIOUS
  <1>2. ASSUME n \in I PROVE n \in Below(I, n + 1) /\ \A i \in Below(I, n + 1) : n >= i
    BY <1>1, <1>2 DEF Below
  <1>3. ASSUME n \in I PROVE Max(Below(I, n + 1)) = n
    <2> DEFINE T == Below(I, n + 1)
    <2>1. T \subseteq Nat /\ n \in T /\ \A i \in T : n >= i
      BY <1>2, <1>3 DEF Below
    <2> HIDE DEF T
    <2>2. \A x \in T : (\A y \in T : x >= y) => x = n
      BY <2>1
    <2> QED
      BY <2>1, <2>2 DEF Max, T
  <1>4. ASSUME n \in I PROVE Below(I, n + 1) # {}
    BY <1>2, <1>4
  <1>5. n \notin Below(I, n) /\ Below(I, n) \in SUBSET I
    BY DEF Below
  <1>6. Below(I, 0) = {}
    <2>1. \A i \in I : ~(i < 0)
      OBVIOUS
    <2> QED
      BY <2>1 DEF Below
  <1>7. ASSUME n \in I
        PROVE  /\ Below(I, n + 1) = Below(I, n) \cup {n}
               /\ Below(I, n + 1) \ {n} = Below(I, n)
    <2>1. Below(I, n + 1) = Below(I, n) \cup {n}
      BY <1>1, <1>7 DEF Below
    <2> QED
      BY <1>5, <2>1
  <1>8. ASSUME n \notin I PROVE Below(I, n + 1) = Below(I, n)
    BY <1>1, <1>8 DEF Below
  <1> QED
    BY <1>3, <1>4, <1>5, <1>6, <1>7, <1>8

\* A finite set of numbers is below some number.
LEMMA BelowAll ==
  ASSUME NEW I \in SUBSET Nat, IsFiniteSet(I)
  PROVE  \E n \in Nat : Below(I, n) = I
  <1>1. CASE I = {}
    <2>1. Below(I, 0) = I
      BY <1>1 DEF Below
    <2> QED
      BY <2>1
  <1>2. CASE I # {}
    <2> DEFINE m == Max(I)
    <2>1. m \in I /\ \A i \in I : i <= m
      BY <1>2, GreatestOf
    <2> HIDE DEF m
    <2>2. m + 1 \in Nat /\ \A i \in I : i < m + 1
      BY <2>1
    <2>3. Below(I, m + 1) = I
      BY <2>2 DEF Below
    <2> QED
      BY <2>2, <2>3
  <1> QED
    BY <1>1, <1>2
=============================================================================
