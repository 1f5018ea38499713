------------------------- MODULE SparseArrayProofs -------------------------
(***************************************************************************)
(* Proofs about SparseArray.  IInv: the slots have a shape that every call *)
(* keeps, and while the array is sound no id has two slots, every entry is *)
(* within reach of its home, and the bit set, the count and the least and  *)
(* greatest id are those of the entries.  A rehash is the hard step: its   *)
(* loops are runs over the indices, proved by induction on how far they    *)
(* have come.  What the calls do to the set of entries is the refinement.  *)
(***************************************************************************)
EXTENDS SparseArray, TLAPS, FiniteSetTheorems, ExtremaProofs

-----------------------------------------------------------------------------
(* Loops as runs *)

\* What is collected before the first turn of 'collect_collision_info.
Fresh == [info |-> <<>>, retry |-> 0]

\* The loop 'collect_collision_info as a run f: f[n] is what it has collected when the
\* entries below n had their turns, and the entries I are those below some N.
LEMMA CollectRuns ==
  ASSUME NEW d, NEW h, NEW I \in SUBSET Nat, IsFiniteSet(I)
  PROVE  \E f : \E N \in Nat :
           /\ Below(I, N) = I
           /\ f[0] = Fresh
           /\ \A n \in Nat :
                f[n + 1] = IF n \in I THEN Collected(f[n], h, d[n].id) ELSE f[n]
           /\ CollectAll(d, I, h) = f[N]
  <1> DEFINE Step(a, i) == Collected(a, h, d[i].id)
             After(g, s) == IF s = {} THEN Fresh ELSE Step(g[s \ {Max(s)}], Max(s))
             Small(k) == {s \in SUBSET I : Cardinality(s) <= k}
             Runs(g, k) == /\ g = [s \in SUBSET I |-> g[s]]
                           /\ \A s \in Small(k) : g[s] = After(g, s)
             B == {k \in Nat : \E g : Runs(g, k)}
  <1>1. \A s \in SUBSET I :
          IsFiniteSet(s) /\ Cardinality(s) \in Nat /\ Cardinality(s) <= Cardinality(I)
    BY FS_Subset, FS_CardinalityType
  <1>2. 0 \in B
    <2> DEFINE g == [s \in SUBSET I |-> Fresh]
    <2>1. \A s \in Small(0) : s = {}
      BY <1>1, FS_EmptySet
    <2>2. Runs(g, 0)
      <3> HIDE DEF Fresh
      <3> QED
        BY <2>1
    <2> HIDE DEF Runs, g
    <2> QED
      BY <2>2
  <1>3. ASSUME NEW k \in Nat, k \in B PROVE k + 1 \in B
    <2>1. PICK g : Runs(g, k)
      BY <1>3
    <2> DEFINE e == [s \in SUBSET I |-> After(g, s)]
    <2>2. ASSUME NEW s \in Small(k + 1), s # {}
          PROVE  s \ {Max(s)} \in Small(k)
      <3>1. s \in SUBSET Nat /\ IsFiniteSet(s)
        BY <1>1
      <3>2. Max(s) \in s
        BY <2>2, <3>1, GreatestOf
      <3>3. Cardinality(s \ {Max(s)}) = Cardinality(s) - 1
        BY <3>1, <3>2, FS_RemoveElement
      <3> DEFINE t == s \ {Max(s)}
      <3>4. Cardinality(t) = Cardinality(s) - 1 /\ t \in SUBSET I
        BY <3>3
      <3> HIDE DEF t
      <3>5. Cardinality(t) <= k
        BY <1>1, <3>4
      <3>6. t \in Small(k)
        BY <3>4, <3>5
      <3> QED
        BY <3>6 DEF t
    <2>3. \A s \in Small(k) : e[s] = g[s]
      BY <2>1
    <2> HIDE DEF Small, Step
    <2>4. \A s \in Small(k + 1) : e[s] = After(e, s)
      BY <2>2, <2>3 DEF Small
    <2>5. Runs(e, k + 1)
      BY <2>4
    <2> HIDE DEF Runs, e
    <2> QED
      BY <2>5
  <1>4. Cardinality(I) \in B
    <2> HIDE DEF B
    <2> QED
      BY <1>1, <1>2, <1>3, Climb
  <1>5. \E g : g = [s \in SUBSET I |-> After(g, s)]
    <2>1. PICK g : Runs(g, Cardinality(I))
      BY <1>4
    <2>2. \A s \in SUBSET I : g[s] = After(g, s)
      BY <1>1, <2>1
    <2> HIDE DEF After
    <2> QED
      BY <2>1, <2>2
  <1>6. \E g : g = [s \in SUBSET I |-> After(g, s)] /\ CollectAll(d, I, h) = g[I]
    BY <1>5 DEF CollectAll, Loop, MapThenFoldSet, Fresh
  <1>7. PICK g : g = [s \in SUBSET I |-> After(g, s)] /\ CollectAll(d, I, h) = g[I]
    BY <1>6
  <1> DEFINE f == [n \in Nat |-> g[Below(I, n)]]
  <1>8. f[0] = Fresh
    <2>1. Below(I, 0) = {} /\ f[0] = g[Below(I, 0)]
      BY BelowStep
    <2>2. g[{}] = After(g, {})
      <3> HIDE DEF After
      <3> QED
        BY <1>7
    <2> QED
      BY <2>1, <2>2
  <1>9. ASSUME NEW n \in Nat
        PROVE  f[n + 1] = IF n \in I THEN Step(f[n], n) ELSE f[n]
    <2>1. f[n] = g[Below(I, n)] /\ f[n + 1] = g[Below(I, n + 1)]
      OBVIOUS
    <2>2. CASE n \notin I
      BY <2>1, <2>2, BelowStep
    <2>3. CASE n \in I
      <3>1. /\ Below(I, n + 1) # {} /\ Max(Below(I, n + 1)) = n
            /\ Below(I, n + 1) \ {n} = Below(I, n) /\ Below(I, n + 1) \in SUBSET I
        BY <2>3, BelowStep
      <3>2. g[Below(I, n + 1)] = After(g, Below(I, n + 1))
        <4> HIDE DEF After
        <4> QED
          BY <1>7, <3>1
      <3> HIDE DEF Step
      <3> QED
        BY <2>1, <2>3, <3>1, <3>2
    <2> QED
      BY <2>2, <2>3
  <1>10. PICK N \in Nat : Below(I, N) = I
    BY BelowAll
  <1>11. CollectAll(d, I, h) = f[N]
    BY <1>7, <1>10
  <1> HIDE DEF f, Fresh
  <1> QED
    BY <1>8, <1>9, <1>10, <1>11

\* The slots d before the loop over the indices has moved any.
Unmoved(d) == [data |-> d, stuck |-> FALSE]

\* The loop over the indices as a run.
LEMMA VisitRuns ==
  ASSUME NEW lay, NEW d, NEW I \in SUBSET Nat, IsFiniteSet(I)
  PROVE  \E f : \E N \in Nat :
           /\ Below(I, N) = I
           /\ f[0] = Unmoved(d)
           /\ \A n \in Nat :
                f[n + 1] = IF n \in I THEN Visit(lay, f[n], n) ELSE f[n]
           /\ VisitAll(lay, d, I) = f[N]
  <1> DEFINE Step(a, i) == Visit(lay, a, i)
             After(g, s) == IF s = {} THEN Unmoved(d) ELSE Step(g[s \ {Max(s)}], Max(s))
             Small(k) == {s \in SUBSET I : Cardinality(s) <= k}
             Runs(g, k) == /\ g = [s \in SUBSET I |-> g[s]]
                           /\ \A s \in Small(k) : g[s] = After(g, s)
             B == {k \in Nat : \E g : Runs(g, k)}
  <1>1. \A s \in SUBSET I :
          IsFiniteSet(s) /\ Cardinality(s) \in Nat /\ Cardinality(s) <= Cardinality(I)
    BY FS_Subset, FS_CardinalityType
  <1>2. 0 \in B
    <2> DEFINE g == [s \in SUBSET I |-> Unmoved(d)]
    <2>1. \A s \in Small(0) : s = {}
      BY <1>1, FS_EmptySet
    <2>2. Runs(g, 0)
      <3> HIDE DEF Small
      <3> QED
        BY <2>1
    <2> HIDE DEF Runs, g
    <2> QED
      BY <2>2
  <1>3. ASSUME NEW k \in Nat, k \in B PROVE k + 1 \in B
    <2>1. PICK g : Runs(g, k)
      BY <1>3
    <2> DEFINE e == [s \in SUBSET I |-> After(g, s)]
    <2>2. ASSUME NEW s \in Small(k + 1), s # {}
          PROVE  s \ {Max(s)} \in Small(k)
      <3>1. s \in SUBSET Nat /\ IsFiniteSet(s)
        BY <1>1
      <3>2. Max(s) \in s
        BY <2>2, <3>1, GreatestOf
      <3>3. Cardinality(s \ {Max(s)}) = Cardinality(s) - 1
        BY <3>1, <3>2, FS_RemoveElement
      <3> DEFINE t == s \ {Max(s)}
      <3>4. Cardinality(t) = Cardinality(s) - 1 /\ t \in SUBSET I
        BY <3>3
      <3> HIDE DEF t
      <3>5. Cardinality(t) <= k
        BY <1>1, <3>4
      <3>6. t \in Small(k)
        BY <3>4, <3>5
      <3> QED
        BY <3>6 DEF t
    <2>3. \A s \in Small(k) : e[s] = g[s]
      BY <2>1
    <2> HIDE DEF Small, Step
    <2>4. \A s \in Small(k + 1) : e[s] = After(e, s)
      BY <2>2, <2>3 DEF Small
    <2>5. Runs(e, k + 1)
      BY <2>4
    <2> HIDE DEF Runs, e
    <2> QED
      BY <2>5
  <1>4. Cardinality(I) \in B
    <2> HIDE DEF B
    <2> QED
      BY <1>1, <1>2, <1>3, Climb
  <1>5. \E g : g = [s \in SUBSET I |-> After(g, s)]
    <2>1. PICK g : Runs(g, Cardinality(I))
      BY <1>4
    <2>2. \A s \in SUBSET I : g[s] = After(g, s)
      BY <1>1, <2>1
    <2> HIDE DEF After
    <2> QED
      BY <2>1, <2>2
  <1>6. \E g : g = [s \in SUBSET I |-> After(g, s)] /\ VisitAll(lay, d, I) = g[I]
    BY <1>5 DEF VisitAll, Loop, MapThenFoldSet, Unmoved
  <1>7. PICK g : g = [s \in SUBSET I |-> After(g, s)] /\ VisitAll(lay, d, I) = g[I]
    BY <1>6
  <1> DEFINE f == [n \in Nat |-> g[Below(I, n)]]
  <1>8. f[0] = Unmoved(d)
    <2>1. Below(I, 0) = {} /\ f[0] = g[Below(I, 0)]
      BY BelowStep
    <2>2. g[{}] = After(g, {})
      <3> HIDE DEF After
      <3> QED
        BY <1>7
    <2> QED
      BY <2>1, <2>2
  <1>9. ASSUME NEW n \in Nat
        PROVE  f[n + 1] = IF n \in I THEN Step(f[n], n) ELSE f[n]
    <2>1. f[n] = g[Below(I, n)] /\ f[n + 1] = g[Below(I, n + 1)]
      OBVIOUS
    <2>2. CASE n \notin I
      BY <2>1, <2>2, BelowStep
    <2>3. CASE n \in I
      <3>1. /\ Below(I, n + 1) # {} /\ Max(Below(I, n + 1)) = n
            /\ Below(I, n + 1) \ {n} = Below(I, n) /\ Below(I, n + 1) \in SUBSET I
        BY <2>3, BelowStep
      <3>2. g[Below(I, n + 1)] = After(g, Below(I, n + 1))
        <4> HIDE DEF After
        <4> QED
          BY <1>7, <3>1
      <3> HIDE DEF Step
      <3> QED
        BY <2>1, <2>3, <3>1, <3>2
    <2> QED
      BY <2>2, <2>3
  <1>10. PICK N \in Nat : Below(I, N) = I
    BY BelowAll
  <1>11. VisitAll(lay, d, I) = f[N]
    BY <1>7, <1>10
  <1> HIDE DEF f
  <1> QED
    BY <1>8, <1>9, <1>10, <1>11

\* As many turns as there are entries.
Turns(d) == 1 .. Cardinality(DOMAIN d)

\* The loop 'swap_index for one index as a run.
LEMMA SettleRuns ==
  ASSUME NEW lay, NEW d, NEW i \in Nat, NEW I \in SUBSET Nat, IsFiniteSet(I)
  PROVE  \E f : \E N \in Nat :
           /\ Below(I, N) = I
           /\ f[0] = d
           /\ \A n \in Nat :
                f[n + 1] = IF n \in I THEN Turn(lay, f[n], i) ELSE f[n]
           /\ I = Turns(d) => Settle(lay, d, i) = f[N]
  <1> DEFINE Step(a, n) == Turn(lay, a, i)
             After(g, s) == IF s = {} THEN d ELSE Step(g[s \ {Max(s)}], Max(s))
             Small(m) == {s \in SUBSET I : Cardinality(s) <= m}
             Runs(g, m) == /\ g = [s \in SUBSET I |-> g[s]]
                           /\ \A s \in Small(m) : g[s] = After(g, s)
             B == {m \in Nat : \E g : Runs(g, m)}
  <1>1. \A s \in SUBSET I :
          IsFiniteSet(s) /\ Cardinality(s) \in Nat /\ Cardinality(s) <= Cardinality(I)
    BY FS_Subset, FS_CardinalityType
  <1>2. 0 \in B
    <2> DEFINE g == [s \in SUBSET I |-> d]
    <2>1. \A s \in Small(0) : s = {}
      BY <1>1, FS_EmptySet
    <2>2. Runs(g, 0)
            <3> QED
        BY <2>1
    <2> HIDE DEF Runs, g
    <2> QED
      BY <2>2
  <1>3. ASSUME NEW m \in Nat, m \in B PROVE m + 1 \in B
    <2>1. PICK g : Runs(g, m)
      BY <1>3
    <2> DEFINE e == [s \in SUBSET I |-> After(g, s)]
    <2>2. ASSUME NEW s \in Small(m + 1), s # {}
          PROVE  s \ {Max(s)} \in Small(m)
      <3>1. s \in SUBSET Nat /\ IsFiniteSet(s)
        BY <1>1
      <3>2. Max(s) \in s
        BY <2>2, <3>1, GreatestOf
      <3>3. Cardinality(s \ {Max(s)}) = Cardinality(s) - 1
        BY <3>1, <3>2, FS_RemoveElement
      <3> DEFINE t == s \ {Max(s)}
      <3>4. Cardinality(t) = Cardinality(s) - 1 /\ t \in SUBSET I
        BY <3>3
      <3> HIDE DEF t
      <3>5. Cardinality(t) <= m
        BY <1>1, <3>4
      <3>6. t \in Small(m)
        BY <3>4, <3>5
      <3> QED
        BY <3>6 DEF t
    <2>3. \A s \in Small(m) : e[s] = g[s]
      BY <2>1
    <2> HIDE DEF Small, Step
    <2>4. \A s \in Small(m + 1) : e[s] = After(e, s)
      BY <2>2, <2>3 DEF Small
    <2>5. Runs(e, m + 1)
      BY <2>4
    <2> HIDE DEF Runs, e
    <2> QED
      BY <2>5
  <1>4. Cardinality(I) \in B
    <2> HIDE DEF B
    <2> QED
      BY <1>1, <1>2, <1>3, Climb
  <1>5. \E g : g = [s \in SUBSET I |-> After(g, s)]
    <2>1. PICK g : Runs(g, Cardinality(I))
      BY <1>4
    <2>2. \A s \in SUBSET I : g[s] = After(g, s)
      BY <1>1, <2>1
    <2> HIDE DEF After
    <2> QED
      BY <2>1, <2>2
  <1>6. \E g :
        /\ g = [s \in SUBSET I |-> After(g, s)] 
        /\ I = Turns(d) => Settle(lay, d, i) = g[I]
    BY <1>5 DEF Turns, Settle, Loop, MapThenFoldSet
  <1>7. PICK g :
        /\ g = [s \in SUBSET I |-> After(g, s)] 
        /\ I = Turns(d) => Settle(lay, d, i) = g[I]
    BY <1>6
  <1> DEFINE f == [n \in Nat |-> g[Below(I, n)]]
  <1>8. f[0] = d
    <2>1. Below(I, 0) = {} /\ f[0] = g[Below(I, 0)]
      BY BelowStep
    <2>2. g[{}] = After(g, {})
      <3> HIDE DEF After
      <3> QED
        BY <1>7
    <2> QED
      BY <2>1, <2>2
  <1>9. ASSUME NEW n \in Nat
        PROVE  f[n + 1] = IF n \in I THEN Step(f[n], n) ELSE f[n]
    <2>1. f[n] = g[Below(I, n)] /\ f[n + 1] = g[Below(I, n + 1)]
      OBVIOUS
    <2>2. CASE n \notin I
      BY <2>1, <2>2, BelowStep
    <2>3. CASE n \in I
      <3>1. /\ Below(I, n + 1) # {} /\ Max(Below(I, n + 1)) = n
            /\ Below(I, n + 1) \ {n} = Below(I, n) /\ Below(I, n + 1) \in SUBSET I
        BY <2>3, BelowStep
      <3>2. g[Below(I, n + 1)] = After(g, Below(I, n + 1))
        <4> HIDE DEF After
        <4> QED
          BY <1>7, <3>1
      <3> HIDE DEF Step
      <3> QED
        BY <2>1, <2>3, <3>1, <3>2
    <2> QED
      BY <2>2, <2>3
  <1>10. PICK N \in Nat : Below(I, N) = I
    BY BelowAll
  <1>11. I = Turns(d) => Settle(lay, d, i) = f[N]
    BY <1>7, <1>10
  <1> HIDE DEF f
  <1> QED
    BY <1>8, <1>9, <1>10, <1>11

-----------------------------------------------------------------------------
(* One turn of 'collect_collision_info *)

\* What is needed of the remainder.
LEMMA ModFacts ==
  ASSUME NEW a \in Nat, NEW h \in Nat, h # 0
  PROVE  HomeIn(a, h) \in 0 .. h - 1 /\ (a < h => HomeIn(a, h) = a)
  BY DEF HomeIn

\* The greater and the lesser of two numbers.
LEMMA GreatestOfTwo ==
  ASSUME NEW a \in Nat, NEW b \in Nat
  PROVE  Max({a, b}) \in {a, b} /\ Max({a, b}) >= a /\ Max({a, b}) >= b
  <1>1. \E x \in {a, b} : \A y \in {a, b} : x >= y
    OBVIOUS
  <1> QED
    BY <1>1 DEF Max

\* The lesser of two numbers.
LEMMA LeastOfTwo ==
  ASSUME NEW a \in Nat, NEW b \in Nat
  PROVE  Min({a, b}) \in {a, b} /\ Min({a, b}) <= a /\ Min({a, b}) <= b
  <1>1. \E x \in {a, b} : \A y \in {a, b} : x <= y
    OBVIOUS
  <1> QED
    BY <1>1 DEF Min

\* The next hash to try is greater than the last.
LEMMA NextPrimeGreater ==
  ASSUME NEW n \in Nat, NEW least
  PROVE  NextPrime(n, least) \in Nat /\ NextPrime(n, least) > n
  <1> DEFINE q == n \div 10
  <1>1. q \in Nat
    OBVIOUS
  <1> HIDE DEF q
  <1> DEFINE m == Max({q, 1})
  <1>2. m \in Nat /\ m >= 1
    BY <1>1, GreatestOfTwo
  <1> HIDE DEF m
  <1> DEFINE step == Min({m, 200})
  <1>3. step \in Nat /\ step >= 1
    BY <1>2, LeastOfTwo
  <1> HIDE DEF step
  <1> DEFINE found == {p \in PRIME_U16 : p >= n + step /\ p >= least}
  <1>4. found \in SUBSET Nat
    <2>1. PRIME_U16 \subseteq 2 .. PrimeLimit
      BY Zenon DEF PRIME_U16
    <2>2. 2 .. PrimeLimit \subseteq Nat
      OBVIOUS
    <2> QED
      BY <2>1, <2>2, Zenon
  <1>5. NextPrime(n, least) = IF found = {} THEN n + 1 ELSE Min(found)
    BY DEF NextPrime, step, m, q
  <1>6. CASE found = {}
    BY <1>5, <1>6
  <1>7. CASE found # {}
    <2>1. Min(found) \in found
      <3> HIDE DEF found
      <3> QED
        BY <1>4, <1>7, LeastOf
    <2> DEFINE p == Min(found)
    <2>2. p \in Nat /\ p >= n + step
      BY <1>4, <2>1
    <2> HIDE DEF p
    <2>3. p > n
      BY <1>3, <2>2
    <2> QED
      BY <1>5, <1>7, <2>2, <2>3 DEF p
  <1> QED
    BY <1>6, <1>7

\* An id is a number, not 0.
LEMMA IdIs ==
  ASSUME NEW id \in Ids
  PROVE  id \in Nat /\ id # 0 /\ id < U16_MAX
  <1>1. id \in 1 .. U16_MAX - 1
    BY SparseAssumption
  <1>2. U16_MAX \in Nat
    BY DEF U16_MAX
  <1> QED
    BY <1>1, <1>2

\* The home slot of an id.
LEMMA HomeIs ==
  ASSUME NEW id \in Ids, NEW h \in Nat, h # 0
  PROVE  /\ HomeIn(id, h) \in Nat /\ HomeIn(id, h) < h
         /\ id < h => HomeIn(id, h) = id
  <1>1. HomeIn(id, h) \in 0 .. h - 1 /\ (id < h => HomeIn(id, h) = id)
    BY IdIs, ModFacts
  <1> QED
    BY <1>1

\* One place of collisions_info filled, and what the others hold.
LEMMA PutId ==
  ASSUME NEW d, NEW i \in Nat, NEW e \in Ids
  PROVE  /\ DOMAIN Put(d, i, e) = DOMAIN d \cup {i}
         /\ Put(d, i, e)[i] = e
         /\ \A j \in DOMAIN d : j # i => Put(d, i, e)[j] = d[j]
  BY DEF Put

\* Slots with an entry put are slots.
LEMMA PutIsFunction ==
  ASSUME NEW d, NEW i, NEW e
  PROVE  Put(d, i, e) = [j \in DOMAIN Put(d, i, e) |-> Put(d, i, e)[j]]
  BY DEF Put

\* collisions_info as far as it is filled: the ids S, each in reach of its home.
IsLaid(info, h, S) ==
  /\ info = [p \in DOMAIN info |-> info[p]]
  /\ DOMAIN info \subseteq 1 .. h + 3
  /\ \A p \in DOMAIN info : info[p] \in S
  /\ \A id \in S : \E p \in DOMAIN info : info[p] = id
  /\ \A p \in DOMAIN info :
       /\ HomeIn(info[p], h) <= p
       /\ p < HomeIn(info[p], h) + MAX_COLLISION_PACK_DISTANCE

\* For ids that differ: each has one place, its home is occupied, and one below the
\* hash is at home.
Tidy(info, h) ==
  /\ \A p, q \in DOMAIN info : info[p] = info[q] => p = q
  /\ \A p \in DOMAIN info : HomeIn(info[p], h) \in DOMAIN info
  /\ \A p \in DOMAIN info : info[p] < h => p = info[p]

\* An id whose home slot is free takes it.
LEMMA CollectFree ==
  ASSUME NEW h \in Nat, h # 0, NEW info, NEW S \in SUBSET Ids, IsLaid(info, h, S),
         NEW id \in Ids, HomeIn(id, h) # 0, HomeIn(id, h) \notin DOMAIN info
  PROVE  /\ Collect(info, h, id).retry = 0
         /\ IsLaid(Collect(info, h, id).info, h, S \cup {id})
         /\ Tidy(info, h) /\ id \notin S => Tidy(Collect(info, h, id).info, h)
  <1> DEFINE home == HomeIn(id, h)
             new == Put(info, home, id)
  <1>1. /\ home \in Nat /\ home # 0 /\ home < h /\ (id < h => home = id)
        /\ home \notin DOMAIN info
    BY HomeIs
  <1>2. Collect(info, h, id) = [info |-> new, retry |-> 0]
    BY DEF Collect
  <1> HIDE DEF home
  <1>3. /\ DOMAIN new = DOMAIN info \cup {home} /\ new[home] = id
        /\ \A p \in DOMAIN info : new[p] = info[p]
    BY <1>1 DEF Put
  <1>0. new = [p \in DOMAIN new |-> new[p]]
    BY PutIsFunction
  <1> HIDE DEF new
  <1>4. IsLaid(new, h, S \cup {id})
    <2>1. DOMAIN new \subseteq 1 .. h + 3
      BY <1>1, <1>3 DEF IsLaid
    <2>2. \A p \in DOMAIN new : new[p] \in S \cup {id}
      BY <1>3 DEF IsLaid
    <2>3. \A x \in S \cup {id} : \E p \in DOMAIN new : new[p] = x
      BY <1>3 DEF IsLaid
    <2>4. home = HomeIn(new[home], h) /\ home < home + MAX_COLLISION_PACK_DISTANCE
      BY <1>1, <1>3 DEF home, MAX_COLLISION_PACK_DISTANCE
    <2>5. \A p \in DOMAIN new :
            HomeIn(new[p], h) <= p /\ p < HomeIn(new[p], h) + MAX_COLLISION_PACK_DISTANCE
      BY <1>1, <1>3, <2>4 DEF IsLaid
    <2> QED
      BY <1>0, <2>1, <2>2, <2>3, <2>5 DEF IsLaid
  <1>5. ASSUME Tidy(info, h), id \notin S PROVE Tidy(new, h)
    <2>1. \A p \in DOMAIN info : info[p] # id
      BY <1>5 DEF IsLaid
    <2>2. \A p, q \in DOMAIN new : new[p] = new[q] => p = q
      BY <1>3, <1>5, <2>1 DEF Tidy
    <2>3. \A p \in DOMAIN new : HomeIn(new[p], h) \in DOMAIN new
      BY <1>3, <1>5 DEF Tidy, home
    <2>4. \A p \in DOMAIN new : new[p] < h => p = new[p]
      BY <1>1, <1>3, <1>5 DEF Tidy
    <2> QED
      BY <2>2, <2>3, <2>4 DEF Tidy
  <1> QED
    BY <1>2, <1>4, <1>5

\* An id whose home is occupied takes it or is packed, and one of the two is packed.
LEMMA CollectOccupied ==
  ASSUME NEW h \in Nat, h # 0, NEW info, NEW S \in SUBSET Ids, IsLaid(info, h, S),
         NEW id \in Ids, HomeIn(id, h) # 0, HomeIn(id, h) \in DOMAIN info
  PROVE  LET c == Collect(info, h, id)
         IN /\ c.retry \in {0, h + MAX_COLLISION_PACK_DISTANCE}
            /\ c.retry = 0 => IsLaid(c.info, h, S \cup {id})
            /\ c.retry = 0 /\ Tidy(info, h) /\ id \notin S => Tidy(c.info, h)
  <1> DEFINE home == HomeIn(id, h)
             occ == info[home]
             evicts == id < h \/ HomeIn(occ, h) # home
             packed == IF evicts THEN occ ELSE id
             first == IF evicts THEN id ELSE occ
             settled == IF evicts THEN Put(info, home, id) ELSE info
             pack == HomeIn(packed, h)
             holes == (pack + 1 .. pack + MAX_COLLISION_PACK_DISTANCE - 1) \ DOMAIN settled
             new == Put(settled, Min(holes), packed)
  <1>1. Collect(info, h, id) =
          IF holes = {} THEN [info |-> info, retry |-> h + MAX_COLLISION_PACK_DISTANCE]
          ELSE [info |-> new, retry |-> 0]
    BY DEF Collect
  <1>2. /\ home \in Nat /\ home # 0 /\ home < h /\ (id < h => home = id)
        /\ home \in DOMAIN info /\ occ \in S
    BY HomeIs DEF IsLaid
  <1>3. packed \in Ids /\ first \in Ids
    BY <1>2
  <1>4. /\ DOMAIN settled = DOMAIN info /\ settled[home] = first
        /\ \A p \in DOMAIN info : p # home => settled[p] = info[p]
    <2>1. CASE evicts
      <3> HIDE DEF home
      <3> QED
        BY <1>2, <2>1 DEF Put
    <2>2. CASE ~evicts
      <3> HIDE DEF home
      <3> QED
        BY <1>2, <2>2
    <2> QED
      BY <2>1, <2>2
  <1>5. CASE holes = {}
    <2> HIDE DEF holes, new
    <2>1. Collect(info, h, id) = [info |-> info, retry |-> h + MAX_COLLISION_PACK_DISTANCE]
      BY <1>1, <1>5
    <2>2. h + MAX_COLLISION_PACK_DISTANCE # 0
      BY DEF MAX_COLLISION_PACK_DISTANCE
    <2> QED
      BY <2>1, <2>2
  <1>6. CASE holes # {}
    <2>1. pack \in Nat /\ pack < h
      BY <1>3, HomeIs
    <2> HIDE DEF packed, settled, first, home, occ
    <2> DEFINE hole == Min(holes)
    <2>2. hole \in holes
      <3>1. holes \in SUBSET Nat
        BY <2>1 DEF MAX_COLLISION_PACK_DISTANCE
      <3> HIDE DEF holes
      <3> QED
        BY <1>6, <3>1, LeastOf
    <2>3. /\ hole \in Nat /\ hole \notin DOMAIN info /\ hole <= h + 3 /\ hole > pack
          /\ hole < pack + MAX_COLLISION_PACK_DISTANCE
      <3> HIDE DEF hole, pack
      <3> QED
        BY <1>4, <2>1, <2>2 DEF MAX_COLLISION_PACK_DISTANCE
    <2> HIDE DEF hole
    <2>4. /\ DOMAIN new = DOMAIN info \cup {hole}
          /\ new[hole] = packed /\ new[home] = first
          /\ \A p \in DOMAIN info : p # home => new[p] = info[p]
      <3> HIDE DEF evicts, pack
      <3>1. new = Put(settled, hole, packed)
        BY DEF hole
      <3> HIDE DEF new, holes
      <3> QED
        BY <1>2, <1>3, <1>4, <2>3, <3>1 DEF Put
    <2>5. new = [p \in DOMAIN new |-> new[p]]
      BY PutIsFunction
    <2>6. Collect(info, h, id) = [info |-> new, retry |-> 0]
      BY <1>1, <1>6
    <2> HIDE DEF new, holes
    <2>7. /\ (first = id /\ packed = occ) \/ (first = occ /\ packed = id)
          /\ first = id => id < h \/ HomeIn(occ, h) # home \/ occ = id
          /\ packed = id => id >= h \/ occ = id
      BY <1>2, IdIs DEF first, packed
    <2> HIDE DEF evicts
    <2>8. IsLaid(new, h, S \cup {id})
      <3>1. DOMAIN new \subseteq 1 .. h + 3
        BY <2>1, <2>3, <2>4 DEF IsLaid
      <3>2. \A p \in DOMAIN new : new[p] \in S \cup {id}
        BY <1>2, <2>4, <2>7 DEF IsLaid
      <3>3. \A x \in S \cup {id} : \E p \in DOMAIN new : new[p] = x
        BY <1>2, <2>4, <2>7 DEF IsLaid, occ
      <3>4. /\ HomeIn(first, h) <= home
            /\ home < HomeIn(first, h) + MAX_COLLISION_PACK_DISTANCE
        <4>1. HomeIn(id, h) <= home /\ home < HomeIn(id, h) + MAX_COLLISION_PACK_DISTANCE
          BY <1>2 DEF home, MAX_COLLISION_PACK_DISTANCE
        <4>2. HomeIn(occ, h) <= home /\ home < HomeIn(occ, h) + MAX_COLLISION_PACK_DISTANCE
          BY <1>2 DEF IsLaid, occ
        <4> QED
          BY <2>7, <4>1, <4>2
      <3>5. /\ HomeIn(packed, h) <= hole
            /\ hole < HomeIn(packed, h) + MAX_COLLISION_PACK_DISTANCE
        BY <2>1, <2>3
      <3>6. \A p \in DOMAIN new :
              /\ HomeIn(new[p], h) <= p
              /\ p < HomeIn(new[p], h) + MAX_COLLISION_PACK_DISTANCE
        BY <2>4, <3>4, <3>5 DEF IsLaid
      <3> QED
        BY <2>5, <3>1, <3>2, <3>3, <3>6 DEF IsLaid
    <2>9. ASSUME Tidy(info, h), id \notin S PROVE Tidy(new, h)
      <3>1. occ # id /\ \A p \in DOMAIN info : info[p] # id
        BY <1>2, <2>9 DEF IsLaid
      <3>2. \A p, q \in DOMAIN new : new[p] = new[q] => p = q
        BY <1>2, <2>3, <2>4, <2>7, <2>9, <3>1 DEF Tidy, occ
      <3>3. HomeIn(id, h) \in DOMAIN new /\ HomeIn(occ, h) \in DOMAIN new
        BY <1>2, <2>4, <2>9 DEF Tidy, home, occ
      <3>4. \A p \in DOMAIN new : HomeIn(new[p], h) \in DOMAIN new
        BY <2>4, <2>7, <2>9, <3>3 DEF Tidy
      <3>5. first < h => home = first
        BY <1>2, <2>7, <2>9 DEF Tidy, occ
      <3>6. ~(packed < h)
        <4>1. CASE packed = id
          BY <2>7, <3>1, <4>1, IdIs
        <4>2. CASE packed = occ /\ first = id /\ occ < h
          <5>1. occ = home /\ HomeIn(occ, h) = home
            BY <1>2, <2>9, <4>2, HomeIs DEF Tidy, occ
          <5>2. id < h
            BY <2>7, <3>1, <4>2, <5>1
          <5> QED
            BY <1>2, <3>1, <5>1, <5>2
        <4> QED
          BY <2>7, <4>1, <4>2
      <3>7. \A p \in DOMAIN new : new[p] < h => p = new[p]
        BY <2>4, <2>9, <3>5, <3>6 DEF Tidy
      <3> QED
        BY <3>2, <3>4, <3>7 DEF Tidy
    <2> QED
      BY <2>6, <2>8, <2>9
  <1> QED
    BY <1>5, <1>6

\* One id entered into collisions_info.
LEMMA CollectOne ==
  ASSUME NEW h \in Nat, h # 0, NEW info, NEW S \in SUBSET Ids, IsLaid(info, h, S),
         NEW id \in Ids
  PROVE  LET c == Collect(info, h, id)
         IN /\ c.retry \in {0, h, h + MAX_COLLISION_PACK_DISTANCE}
            /\ c.retry = 0 => IsLaid(c.info, h, S \cup {id})
            /\ c.retry = 0 /\ Tidy(info, h) /\ id \notin S => Tidy(c.info, h)
            /\ Tidy(info, h) /\ id \notin S /\ (\A x \in S \cup {id} : x < h) => c.retry = 0
  <1> DEFINE c == Collect(info, h, id)
  <1>1. CASE HomeIn(id, h) = 0
    <2>1. c.retry = h
      BY <1>1 DEF Collect
    <2>2. ~(id < h)
      BY <1>1, HomeIs, IdIs
    <2> HIDE DEF c
    <2>3. ~(\A x \in S \cup {id} : x < h)
      BY <2>2
    <2>4. c.retry # 0
      BY <2>1
    <2> QED
      BY <2>1, <2>3, <2>4 DEF c
  <1>2. CASE HomeIn(id, h) # 0 /\ HomeIn(id, h) \notin DOMAIN info
    BY <1>2, CollectFree
  <1>3. CASE HomeIn(id, h) # 0 /\ HomeIn(id, h) \in DOMAIN info
    <2>1. ASSUME Tidy(info, h), id \notin S, \A x \in S \cup {id} : x < h PROVE FALSE
      <3>1. HomeIn(id, h) = id
        BY <2>1, HomeIs
      <3>2. info[id] \in S
        BY <1>3, <3>1 DEF IsLaid
      <3>3. info[id] < h
        BY <2>1, <3>2
      <3>4. id = info[id]
        BY <1>3, <2>1, <3>1, <3>3 DEF Tidy
      <3> QED
        BY <2>1, <3>2, <3>4
    <2>2. /\ c.retry \in {0, h + MAX_COLLISION_PACK_DISTANCE}
          /\ c.retry = 0 => IsLaid(c.info, h, S \cup {id})
          /\ c.retry = 0 /\ Tidy(info, h) /\ id \notin S => Tidy(c.info, h)
      BY <1>3, CollectOccupied
    <2> HIDE DEF c
    <2> QED
      BY <2>1, <2>2 DEF c
  <1> QED
    BY <1>1, <1>2, <1>3

\* The ids of the entries at J.
IdsAt(d, J) == {d[i].id : i \in J}

\* What the loop 'collect_collision_info has reached after the entries at J.
Collects(a, d, J, h) ==
  /\ a.retry \in {0, h, h + MAX_COLLISION_PACK_DISTANCE}
  /\ a.retry = 0 => IsLaid(a.info, h, IdsAt(d, J))
  /\ a.retry = 0 /\ ~Twice(d, J) => Tidy(a.info, h)
  /\ ~Twice(d, J) /\ (\A x \in IdsAt(d, J) : x < h) => a.retry = 0

\* Nothing is collected before the first turn.
LEMMA CollectsNone ==
  ASSUME NEW d, NEW h \in Nat
  PROVE  Collects(Fresh, d, {}, h)
  <1> DEFINE none == <<>>
  <1>1. Fresh.retry = 0 /\ Fresh.info = none
    BY DEF Fresh
  <1>2. DOMAIN none = {} /\ none = [p \in DOMAIN none |-> none[p]]
    OBVIOUS
  <1>3. IdsAt(d, {}) = {}
    BY DEF IdsAt
  <1> HIDE DEF none
  <1>4. IsLaid(none, h, {}) /\ Tidy(none, h)
    BY <1>2 DEF IsLaid, Tidy
  <1> QED
    BY <1>1, <1>3, <1>4 DEF Collects

\* A turn collects one more id, unless one has asked for another hash.
LEMMA CollectsOneMore ==
  ASSUME NEW d, NEW h \in Nat, h # 0, NEW J, NEW i, i \notin J,
         \A j \in J \cup {i} : d[j].id \in Ids,
         NEW a, Collects(a, d, J, h)
  PROVE  Collects(Collected(a, h, d[i].id), d, J \cup {i}, h)
  <1> DEFINE id == d[i].id
             S == IdsAt(d, J)
             c == Collect(a.info, h, id)
  <1>1. id \in Ids /\ S \in SUBSET Ids /\ IdsAt(d, J \cup {i}) = S \cup {id}
    BY DEF IdsAt
  <1>2. ~Twice(d, J \cup {i}) => ~Twice(d, J) /\ id \notin S
    BY DEF Twice, IdsAt
  <1> HIDE DEF id, S
  <1>3. CASE a.retry # 0
    BY <1>1, <1>2, <1>3 DEF Collects, Collected, id, S
  <1>4. CASE a.retry = 0
    <2>1. Collected(a, h, id) = c
      BY <1>4 DEF Collected
    <2>2. IsLaid(a.info, h, S) /\ (~Twice(d, J) => Tidy(a.info, h))
      BY <1>4 DEF Collects, S
    <2>3. /\ c.retry \in {0, h, h + MAX_COLLISION_PACK_DISTANCE}
          /\ c.retry = 0 => IsLaid(c.info, h, S \cup {id})
          /\ c.retry = 0 /\ Tidy(a.info, h) /\ id \notin S => Tidy(c.info, h)
          /\ Tidy(a.info, h) /\ id \notin S /\ (\A x \in S \cup {id} : x < h) => c.retry = 0
      BY <1>1, <2>2, CollectOne
    <2> HIDE DEF c
    <2>4. Collects(c, d, J \cup {i}, h)
      BY <1>1, <1>2, <2>2, <2>3 DEF Collects
    <2> QED
      BY <2>1, <2>4 DEF id
  <1> QED
    BY <1>3, <1>4

\* What the whole loop collects.
LEMMA CollectsAll ==
  ASSUME NEW d, NEW h \in Nat, h # 0, NEW I \in SUBSET Nat, IsFiniteSet(I),
         \A j \in I : d[j].id \in Ids
  PROVE  Collects(CollectAll(d, I, h), d, I, h)
  <1>1. PICK f : \E N \in Nat :
           /\ Below(I, N) = I
           /\ f[0] = Fresh
           /\ \A n \in Nat :
                f[n + 1] = IF n \in I THEN Collected(f[n], h, d[n].id) ELSE f[n]
           /\ CollectAll(d, I, h) = f[N]
    BY CollectRuns
  <1> DEFINE B == {n \in Nat : Collects(f[n], d, Below(I, n), h)}
  <1>2. 0 \in B
    <2>1. f[0] = Fresh /\ Below(I, 0) = {}
      BY <1>1, BelowStep
    <2> QED
      BY <2>1, CollectsNone
  <1>3. ASSUME NEW n \in Nat, n \in B PROVE n + 1 \in B
    <2>1. f[n + 1] = IF n \in I THEN Collected(f[n], h, d[n].id) ELSE f[n]
      BY <1>1
    <2>2. CASE n \notin I
      <3>1. f[n + 1] = f[n] /\ Below(I, n + 1) = Below(I, n)
        BY <2>1, <2>2, BelowStep
      <3> QED
        BY <1>3, <3>1
    <2>3. CASE n \in I
      <3>1. f[n + 1] = Collected(f[n], h, d[n].id)
        BY <2>1, <2>3
      <3>2. /\ n \notin Below(I, n) /\ Below(I, n + 1) = Below(I, n) \cup {n}
            /\ Below(I, n) \in SUBSET I
        BY <2>3, BelowStep
      <3>3. Collects(f[n], d, Below(I, n), h)
        BY <1>3
      <3> DEFINE J == Below(I, n)
      <3>4. n \notin J /\ \A j \in J \cup {n} : d[j].id \in Ids
        BY <2>3, <3>2
      <3> HIDE DEF J
      <3>5. Collects(Collected(f[n], h, d[n].id), d, J \cup {n}, h)
        BY <3>3, <3>4, CollectsOneMore DEF J
      <3> QED
        BY <3>1, <3>2, <3>5 DEF J
    <2> QED
      BY <2>2, <2>3
  <1>4. Nat \subseteq B
    <2> HIDE DEF B
    <2> QED
      BY <1>2, <1>3, Climb
  <1> QED
    BY <1>1, <1>4

-----------------------------------------------------------------------------
(* The layout *)

\* MAX_HASH is a u16, and so is the length of the array for it.
LEMMA MaxHashIs ==
  /\ MAX_HASH \in Nat /\ MAX_HASH >= 2 /\ MAX_HASH < U16_MAX /\ U16_MAX \in Nat
  /\ MAX_HASH + 5 < U16_MAX
  <1>1. MAX_HASH \in Nat /\ MAX_HASH >= 2 /\ MAX_HASH + 5 < U16_MAX
    BY SparseAssumption DEF MAX_COLLISION_PACK_DISTANCE
  <1>2. U16_MAX \in Nat
    BY DEF U16_MAX
  <1> QED
    BY <1>1, <1>2

\* The hash an attempt is made with, and what it collects.
LEMMA AttemptIs ==
  ASSUME NEW d, NEW I \in SUBSET Nat, IsFiniteSet(I), \A j \in I : d[j].id \in Ids,
         NEW n \in Nat, NEW least
  PROVE  LET lay == Attempt(d, I, n, least)
         IN /\ lay.hash \in Nat /\ lay.hash # 0 /\ lay.hash <= U16_MAX
            /\ lay.hash > n \/ lay.disabled
            /\ lay.disabled \in BOOLEAN
            /\ n >= MAX_HASH => lay.disabled
            /\ ~lay.disabled => lay.hash <= MAX_HASH
            /\ lay.disabled => \A j \in I : d[j].id < lay.hash
            /\ \E a : /\ Collects(a, d, I, lay.hash)
                      /\ lay.info = a.info /\ lay.retry = a.retry
  <1> DEFINE prime == NextPrime(n, least)
             disabled == prime > MAX_HASH
             ids == {d[i].id : i \in I} \cup {MAX_HASH}
             top == Max(ids)
             h == IF disabled THEN top + 1 ELSE prime
             all == CollectAll(d, I, h)
             lay == Attempt(d, I, n, least)
  <1>1. prime \in Nat /\ prime > n
    BY NextPrimeGreater
  <1>2. MAX_HASH \in Nat /\ MAX_HASH >= 2 /\ MAX_HASH < U16_MAX /\ U16_MAX \in Nat
    BY MaxHashIs
  <1>3. top \in Nat /\ top < U16_MAX /\ top >= MAX_HASH /\ \A j \in I : d[j].id <= top
    <2>1. \A x \in ids : x \in Nat /\ x < U16_MAX
      BY <1>2, IdIs
    <2>2. MAX_HASH \in ids /\ ids \in SUBSET Nat /\ \A j \in I : d[j].id \in ids
      BY <2>1
    <2> HIDE DEF ids
    <2>3. IsFiniteSet(ids)
      BY <1>2, <2>1, <2>2, FS_BoundedSetOfNaturals
    <2> QED
      BY <2>1, <2>2, <2>3, GreatestOf
  <1>4. /\ lay.hash = h /\ lay.disabled = disabled
        /\ lay.info = all.info /\ lay.retry = all.retry
    BY DEF Attempt
  <1> HIDE DEF lay, prime, top
  <1>5. h \in Nat /\ h # 0 /\ h <= U16_MAX
    BY <1>1, <1>2, <1>3
  <1>6. (n >= MAX_HASH => disabled) /\ (~disabled => h <= MAX_HASH) /\ (h > n \/ disabled)
    BY <1>1, <1>2
  <1>7. disabled => \A j \in I : d[j].id < h
    <2>1. \A j \in I : d[j].id \in Nat
      BY IdIs
    <2> QED
      BY <1>3, <2>1
  <1> HIDE DEF h
  <1>8. Collects(all, d, I, h)
    BY <1>5, CollectsAll
  <1> HIDE DEF all
  <1>9. \E a : Collects(a, d, I, lay.hash) /\ lay.info = a.info /\ lay.retry = a.retry
    BY <1>4, <1>8
  <1>10. lay.hash \in Nat /\ lay.hash # 0 /\ lay.hash <= U16_MAX
    BY <1>4, <1>5
  <1>11. lay.disabled \in BOOLEAN
    BY <1>4
  <1>12. /\ n >= MAX_HASH => lay.disabled
         /\ ~lay.disabled => lay.hash <= MAX_HASH
         /\ lay.hash > n \/ lay.disabled
    BY <1>4, <1>6
  <1>13. lay.disabled => \A j \in I : d[j].id < lay.hash
    BY <1>4, <1>7
  <1> QED
    BY <1>9, <1>10, <1>11, <1>12, <1>13 DEF lay

\* The layouts with which the loop 'hash_lookup ends.
Ends(lay) == lay.retry = 0 \/ lay.disabled

\* An attempt that does not end the loop is followed by one for a greater hash.
LEMMA AttemptGrows ==
  ASSUME NEW d, NEW I \in SUBSET Nat, IsFiniteSet(I), \A j \in I : d[j].id \in Ids,
         NEW n \in Nat, NEW least, ~Ends(Attempt(d, I, n, least))
  PROVE  /\ Attempt(d, I, n, least).retry \in Nat
         /\ Attempt(d, I, n, least).retry > n
         /\ n < MAX_HASH
  <1> DEFINE lay == Attempt(d, I, n, least)
  <1>1. /\ lay.hash \in Nat /\ (lay.hash > n \/ lay.disabled)
        /\ n >= MAX_HASH => lay.disabled
        /\ \E a : Collects(a, d, I, lay.hash) /\ lay.retry = a.retry
    BY AttemptIs
  <1> HIDE DEF lay
  <1>2. lay.retry \in {0, lay.hash, lay.hash + MAX_COLLISION_PACK_DISTANCE}
    BY <1>1 DEF Collects
  <1>3. lay.retry # 0 /\ ~lay.disabled
    BY DEF Ends, lay
  <1>4. lay.retry \in Nat /\ lay.retry > n
    BY <1>1, <1>2, <1>3 DEF MAX_COLLISION_PACK_DISTANCE
  <1>5. n < MAX_HASH
    BY <1>1, <1>3, SparseAssumption
  <1> QED
    BY <1>4, <1>5 DEF lay

\* The loop 'hash_lookup ends, with an attempt that ends it.
LEMMA LayoutIs ==
  ASSUME NEW d, NEW I \in SUBSET Nat, IsFiniteSet(I), \A j \in I : d[j].id \in Ids,
         NEW from \in Nat, NEW least
  PROVE  \E n \in Nat : /\ n >= from
                        /\ Layout(d, I, from, least) = Attempt(d, I, n, least)
                        /\ Ends(Attempt(d, I, n, least))
  <1> DEFINE Try(n) == Attempt(d, I, n, least)
             Then(f, n) == IF Ends(Try(n)) THEN Try(n) ELSE f[Try(n).retry]
             Runs(f, k) == /\ f = [n \in Nat |-> f[n]]
                           /\ \A n \in Nat : n + k >= MAX_HASH => f[n] = Then(f, n)
             B == {k \in Nat : \E f : Runs(f, k)}
  <1>1. \A n \in Nat : ~Ends(Try(n)) =>
          Try(n).retry \in Nat /\ Try(n).retry > n /\ n < MAX_HASH
    BY AttemptGrows
  <1>2. MAX_HASH \in Nat
    BY MaxHashIs
  <1> HIDE DEF Try
  <1>3. 0 \in B
    <2> DEFINE f == [n \in Nat |-> Try(n)]
    <2>1. Runs(f, 0)
      BY <1>1, <1>2
    <2> HIDE DEF Runs, f
    <2> QED
      BY <2>1
  <1>4. ASSUME NEW k \in Nat, k \in B PROVE k + 1 \in B
    <2>1. PICK f : Runs(f, k)
      BY <1>4
    <2> DEFINE g == [n \in Nat |-> Then(f, n)]
    <2>2. \A n \in Nat : n + k >= MAX_HASH => g[n] = f[n]
      BY <2>1
    <2>3. ASSUME NEW n \in Nat, n + (k + 1) >= MAX_HASH
          PROVE  g[n] = Then(g, n)
      <3>1. CASE Ends(Try(n))
        BY <3>1
      <3>2. CASE ~Ends(Try(n))
        <4>1. g[n] = f[Try(n).retry]
          BY <3>2
        <4>2. Try(n).retry \in Nat /\ Try(n).retry + k >= MAX_HASH
          BY <1>1, <1>2, <2>3, <3>2
        <4>3. g[Try(n).retry] = f[Try(n).retry]
          BY <2>2, <4>2
        <4> QED
          BY <3>2, <4>1, <4>3
      <3> QED
        BY <3>1, <3>2
    <2>4. Runs(g, k + 1)
      BY <2>3
    <2> HIDE DEF Runs, g
    <2> QED
      BY <2>4
  <1>5. \E f : f = [n \in Nat |-> Then(f, n)]
    <2>1. MAX_HASH \in B
      <3> HIDE DEF B
      <3> QED
        BY <1>2, <1>3, <1>4, Climb
    <2>2. PICK f : Runs(f, MAX_HASH)
      BY <2>1
    <2>3. \A n \in Nat : f[n] = Then(f, n)
      BY <1>2, <2>2
    <2> HIDE DEF Then
    <2> QED
      BY <2>2, <2>3
  <1>6. \E f : f = [n \in Nat |-> Then(f, n)] /\ Layout(d, I, from, least) = f[from]
    BY <1>5 DEF Layout, Ends, Try
  <1>7. PICK f : f = [n \in Nat |-> Then(f, n)] /\ Layout(d, I, from, least) = f[from]
    BY <1>6
  <1> DEFINE Lasts(n) == \E m \in Nat : m >= n /\ Ends(Try(m)) /\ f[n] = Try(m)
             C == {k \in Nat : \A n \in Nat : n + k >= MAX_HASH => Lasts(n)}
  <1>8. \A n \in Nat : f[n] = Then(f, n)
    <2> HIDE DEF Then
    <2> QED
      BY <1>7
  <1>9. \A n \in Nat : Ends(Try(n)) => Lasts(n)
    BY <1>8
  <1>10. 0 \in C
    <2> HIDE DEF Lasts
    <2> QED
      BY <1>1, <1>2, <1>9
  <1>11. ASSUME NEW k \in Nat, k \in C PROVE k + 1 \in C
    <2> SUFFICES ASSUME NEW n \in Nat, n + (k + 1) >= MAX_HASH, ~Ends(Try(n)) PROVE Lasts(n)
      <3> HIDE DEF Lasts
      <3> QED
        BY <1>9
    <2>1. f[n] = f[Try(n).retry]
      BY <1>8
    <2>2. Try(n).retry \in Nat /\ Try(n).retry > n /\ Try(n).retry + k >= MAX_HASH
      BY <1>1, <1>2
    <2>3. Lasts(Try(n).retry)
      <3> HIDE DEF Lasts
      <3> QED
        BY <1>11, <2>2
    <2>4. PICK m \in Nat : m >= Try(n).retry /\ Ends(Try(m)) /\ f[Try(n).retry] = Try(m)
      BY <2>3
    <2> QED
      BY <2>1, <2>2, <2>4
  <1>12. Lasts(from)
    <2>1. MAX_HASH \in C
      <3> HIDE DEF C
      <3> QED
        BY <1>2, <1>10, <1>11, Climb
    <2> HIDE DEF Lasts
    <2> QED
      BY <1>2, <2>1
  <1> QED
    BY <1>7, <1>12 DEF Try

-----------------------------------------------------------------------------
(* Moving entries *)

\* Slots as the array has them: finitely many, each with an entry.
IsSlots(d) ==
  /\ d = [i \in DOMAIN d |-> d[i]]
  /\ DOMAIN d \in SUBSET Nat
  /\ IsFiniteSet(DOMAIN d)
  /\ \A i \in DOMAIN d : d[i] \in Entries

\* The entries of d, without their slots.
EntriesOf(d) == {d[i] : i \in DOMAIN d}

\* The entries of d in other slots, each in one.
Rearranges(e, d) ==
  /\ IsSlots(e)
  /\ EntriesOf(e) = EntriesOf(d)
  /\ Cardinality(DOMAIN e) = Cardinality(DOMAIN d)
  /\ Twice(e, DOMAIN e) => Twice(d, DOMAIN d)

\* An entry is its id and its value.
LEMMA EntryIs ==
  ASSUME NEW e \in Entries
  PROVE  e.id \in Ids /\ e.val \in Vals /\ e = Entry(e.id, e.val)
  BY DEF Entries, Entry

\* Two slots swapped, the first of them occupied.
LEMMA SwapIs ==
  ASSUME NEW d, IsSlots(d), NEW i \in DOMAIN d, NEW t \in Nat, t # i
  PROVE  LET e == SwapSlots(d, i, t)
         IN /\ e = [k \in DOMAIN e |-> e[k]]
            /\ t \in DOMAIN e /\ e[t] = d[i]
            /\ i \in DOMAIN e <=> t \in DOMAIN d
            /\ t \in DOMAIN d => e[i] = d[t]
            /\ \A k \in Nat \ {i, t} : k \in DOMAIN e <=> k \in DOMAIN d
            /\ \A k \in Nat \ {i, t} : k \in DOMAIN d => e[k] = d[k]
            /\ DOMAIN e = IF t \in DOMAIN d THEN DOMAIN d ELSE (DOMAIN d \ {i}) \cup {t}
  <1> DEFINE other(k) == IF k = i THEN t ELSE IF k = t THEN i ELSE k
             D == {other(l) : l \in DOMAIN d}
             e == SwapSlots(d, i, t)
  <1>1. DOMAIN d \in SUBSET Nat /\ i \in Nat
    BY DEF IsSlots
  <1>2. e = [k \in D |-> d[other(k)]]
    BY DEF SwapSlots
  <1>3. DOMAIN e = D /\ \A k \in D : e[k] = d[other(k)]
    BY <1>2
  <1>4. t \in D /\ (i \in D <=> t \in DOMAIN d)
    BY <1>1
  <1>5. \A k \in Nat \ {i, t} : k \in D <=> k \in DOMAIN d
    BY <1>1
  <1>6. D = IF t \in DOMAIN d THEN DOMAIN d ELSE (DOMAIN d \ {i}) \cup {t}
    BY <1>1
  <1>7. other(t) = i /\ other(i) = t /\ \A k \in Nat \ {i, t} : other(k) = k
    OBVIOUS
  <1> HIDE DEF D, other, e
  <1>8. e = [k \in DOMAIN e |-> e[k]]
    BY <1>2
  <1> QED
    BY <1>3, <1>4, <1>5, <1>6, <1>7, <1>8 DEF e

\* A swap rearranges the slots.
LEMMA SwapRearranges ==
  ASSUME NEW d, IsSlots(d), NEW i \in DOMAIN d, NEW t \in Nat, t # i
  PROVE  Rearranges(SwapSlots(d, i, t), d)
  <1> DEFINE e == SwapSlots(d, i, t)
  <1>2. /\ e = [k \in DOMAIN e |-> e[k]]
        /\ t \in DOMAIN e /\ e[t] = d[i]
        /\ i \in DOMAIN e <=> t \in DOMAIN d
        /\ t \in DOMAIN d => e[i] = d[t]
        /\ \A k \in Nat \ {i, t} : k \in DOMAIN e <=> k \in DOMAIN d
        /\ \A k \in Nat \ {i, t} : k \in DOMAIN d => e[k] = d[k]
        /\ DOMAIN e = IF t \in DOMAIN d THEN DOMAIN d ELSE (DOMAIN d \ {i}) \cup {t}
    BY SwapIs
  <1> HIDE DEF e
  <1>3. /\ DOMAIN d \in SUBSET Nat /\ i \in Nat /\ IsFiniteSet(DOMAIN d)
        /\ \A k \in DOMAIN d : d[k] \in Entries
    BY DEF IsSlots
  <1>4. DOMAIN e \in SUBSET Nat
    BY <1>2, <1>3
  <1>5. EntriesOf(e) = EntriesOf(d)
    <2>1. ASSUME NEW k \in DOMAIN e PROVE \E l \in DOMAIN d : e[k] = d[l]
      <3>1. k = t \/ k = i \/ k \in Nat \ {i, t}
        BY <1>4
      <3> QED
        BY <1>2, <3>1
    <2>2. ASSUME NEW k \in DOMAIN d PROVE \E l \in DOMAIN e : d[k] = e[l]
      <3>1. k = t \/ k = i \/ k \in Nat \ {i, t}
        BY <1>3
      <3> QED
        BY <1>2, <3>1
    <2> QED
      BY <2>1, <2>2 DEF EntriesOf
  <1>6. IsFiniteSet(DOMAIN e) /\ Cardinality(DOMAIN e) = Cardinality(DOMAIN d)
    <2>1. CASE t \in DOMAIN d
      BY <1>2, <1>3, <2>1
    <2>2. CASE t \notin DOMAIN d
      <3> DEFINE D == DOMAIN d \ {i}
      <3>1. IsFiniteSet(D) /\ Cardinality(D) = Cardinality(DOMAIN d) - 1
        BY <1>3, FS_RemoveElement
      <3>2. t \notin D /\ DOMAIN e = D \cup {t}
        BY <1>2, <2>2
      <3> HIDE DEF D
      <3>3. IsFiniteSet(DOMAIN e) /\ Cardinality(DOMAIN e) = Cardinality(D) + 1
        BY <3>1, <3>2, FS_AddElement
      <3>4. Cardinality(DOMAIN d) \in Nat
        BY <1>3, FS_CardinalityType
      <3> QED
        BY <3>1, <3>3, <3>4
    <2> QED
      BY <2>1, <2>2
  <1>7. ASSUME Twice(e, DOMAIN e) PROVE Twice(d, DOMAIN d)
    <2>1. PICK k \in DOMAIN e, l \in DOMAIN e : k # l /\ e[k].id = e[l].id
      BY <1>7 DEF Twice
    <2> DEFINE other(m) == IF m = i THEN t ELSE IF m = t THEN i ELSE m
    <2>2. \A m \in DOMAIN e : other(m) \in DOMAIN d /\ e[m] = d[other(m)]
      <3> SUFFICES ASSUME NEW m \in DOMAIN e
                   PROVE  other(m) \in DOMAIN d /\ e[m] = d[other(m)]
        OBVIOUS
      <3>1. m = t \/ m = i \/ m \in Nat \ {i, t}
        BY <1>4
      <3> QED
        BY <1>2, <3>1
    <2>3. other(k) # other(l)
      BY <2>1
    <2> HIDE DEF other
    <2> QED
      BY <2>1, <2>2, <2>3 DEF Twice
  <1>8. \A k \in DOMAIN e : e[k] \in Entries
    <2>1. EntriesOf(d) \subseteq Entries
      BY <1>3 DEF EntriesOf
    <2>2. \A k \in DOMAIN e : e[k] \in EntriesOf(e)
      BY DEF EntriesOf
    <2> QED
      BY <1>5, <2>1, <2>2
  <1>9. IsSlots(e)
    BY <1>2, <1>4, <1>6, <1>8 DEF IsSlots
  <1> QED
    BY <1>5, <1>6, <1>7, <1>9 DEF Rearranges, e

\* A laid out hash: collisions_info has a place for each of the ids S.
Lays(lay, S) ==
  /\ S \subseteq Ids
  /\ lay.hash \in Nat /\ lay.hash # 0
  /\ IsLaid(lay.info, lay.hash, S)

\* Slot t is one where 'swap_index leaves the entry of id.
Takes(lay, id, t) ==
  /\ t \in DOMAIN lay.info /\ lay.info[t] = id
  /\ HomeIn(id, lay.hash) <= t /\ t < HomeIn(id, lay.hash) + MAX_COLLISION_PACK_DISTANCE

\* Where an entry is put it stays.
LEMMA TargetIs ==
  ASSUME NEW lay, NEW S, Lays(lay, S), NEW id \in S, NEW i \in Nat
  PROVE  LET t == Target(lay, id, i)
         IN /\ t \in Nat /\ t <= lay.hash + 3 /\ t # 0
            /\ Takes(lay, id, t)
            /\ t # i => Target(lay, id, t) = t
  <1> DEFINE home == HomeIn(id, lay.hash)
             at == {p \in home .. home + MAX_COLLISION_PACK_DISTANCE - 1 :
                      p \in DOMAIN lay.info /\ lay.info[p] = id}
             near == IF id < lay.hash /\ i \in at THEN i ELSE Min(at)
  <1>1. home \in Nat
    BY HomeIs DEF Lays
  <1>2. /\ DOMAIN lay.info \subseteq 1 .. lay.hash + 3
        /\ \E p \in DOMAIN lay.info : lay.info[p] = id
        /\ \A p \in DOMAIN lay.info :
             /\ HomeIn(lay.info[p], lay.hash) <= p
             /\ p < HomeIn(lay.info[p], lay.hash) + MAX_COLLISION_PACK_DISTANCE
        /\ lay.hash \in Nat
    BY DEF Lays, IsLaid
  <1>3. at # {} /\ at \in SUBSET Nat
    <2>1. PICK p \in DOMAIN lay.info : lay.info[p] = id
      BY <1>2
    <2>2. p \in Nat /\ home <= p /\ p < home + MAX_COLLISION_PACK_DISTANCE
      BY <1>2, <2>1
    <2>3. p \in home .. home + MAX_COLLISION_PACK_DISTANCE - 1
      BY <1>1, <2>2 DEF MAX_COLLISION_PACK_DISTANCE
    <2>4. at \in SUBSET Nat
      BY <1>1 DEF MAX_COLLISION_PACK_DISTANCE
    <2> QED
      BY <2>1, <2>3, <2>4
  <1>4. \A p \in at : Takes(lay, id, p) /\ p \in Nat /\ p <= lay.hash + 3 /\ p # 0
    BY <1>1, <1>2 DEF Takes, MAX_COLLISION_PACK_DISTANCE
  <1>5. Target(lay, id, i) = near
    BY DEF Target
  <1>6. \A k \in Nat : Target(lay, id, k) = IF id < lay.hash /\ k \in at THEN k ELSE Min(at)
    BY DEF Target
  <1> HIDE DEF at
  <1>7. Min(at) \in at
    BY <1>3, LeastOf
  <1>8. near \in at
    BY <1>7
  <1>9. near # i => Target(lay, id, near) = near
    BY <1>3, <1>6, <1>7
  <1> HIDE DEF near
  <1> QED
    BY <1>4, <1>5, <1>8, <1>9

-----------------------------------------------------------------------------
(* The swap loop for one index *)

\* Slots with entries of the ids S.
Holds(d, S) == IsSlots(d) /\ \A i \in DOMAIN d : d[i].id \in S

\* Moving entries adds no id,
LEMMA RearrangedHolds ==
  ASSUME NEW d, NEW e, NEW S, Rearranges(e, d), Holds(d, S)
  PROVE  Holds(e, S)
  <1>1. \A x \in EntriesOf(d) : x.id \in S
    BY DEF EntriesOf, Holds
  <1>2. \A i \in DOMAIN e : e[i] \in EntriesOf(d)
    BY DEF EntriesOf, Rearranges
  <1> QED
    BY <1>1, <1>2 DEF Holds, Rearranges

\* can be done twice
LEMMA RearrangesBoth ==
  ASSUME NEW d, NEW e, NEW g, Rearranges(e, d), Rearranges(g, e)
  PROVE  Rearranges(g, d)
  BY DEF Rearranges

\* and includes moving none.
LEMMA RearrangesSelf ==
  ASSUME NEW d, IsSlots(d)
  PROVE  Rearranges(d, d)
  BY DEF Rearranges

\* The entries but that at i that are where 'swap_index leaves them.
SettledBut(lay, d, i) == {j \in DOMAIN d \ {i} : Settled(lay, d, j)}

\* What a swap of the loop 'swap_index does to an entry that is not yet in its place.
LEMMA SwapSettles ==
  ASSUME NEW lay, NEW S, Lays(lay, S), NEW d, Holds(d, S), NEW i \in Nat,
         ~Settled(lay, d, i)
  PROVE  LET e == Turn(lay, d, i)
         IN /\ Rearranges(e, d)
            /\ \A j \in Nat \ {i} : Settled(lay, d, j) => Settled(lay, e, j)
            /\ ~Twice(d, DOMAIN d) =>
                 \E t \in Nat : /\ t \notin SettledBut(lay, d, i)
                                /\ SettledBut(lay, d, i) \cup {t} \subseteq SettledBut(lay, e, i)
  <1>1. i \in DOMAIN d /\ IsSlots(d) /\ d[i].id \in S
    BY DEF Settled, Holds
  <1>2. PICK t \in Nat : /\ t = Target(lay, d[i].id, i) /\ t # i
                         /\ Takes(lay, d[i].id, t) /\ Target(lay, d[i].id, t) = t
    BY <1>1, TargetIs DEF Settled
  <1> DEFINE e == SwapSlots(d, i, t)
  <1>3. Turn(lay, d, i) = e
    BY <1>2 DEF Turn
  <1>4. Rearranges(e, d)
    BY <1>1, <1>2, SwapRearranges
  <1>5. /\ t \in DOMAIN e /\ e[t] = d[i]
        /\ \A k \in Nat \ {i, t} : k \in DOMAIN e <=> k \in DOMAIN d
        /\ \A k \in Nat \ {i, t} : k \in DOMAIN d => e[k] = d[k]
    <2>1. /\ e = [k \in DOMAIN e |-> e[k]]
          /\ t \in DOMAIN e /\ e[t] = d[i]
          /\ i \in DOMAIN e <=> t \in DOMAIN d
          /\ t \in DOMAIN d => e[i] = d[t]
          /\ \A k \in Nat \ {i, t} : k \in DOMAIN e <=> k \in DOMAIN d
          /\ \A k \in Nat \ {i, t} : k \in DOMAIN d => e[k] = d[k]
          /\ DOMAIN e = IF t \in DOMAIN d THEN DOMAIN d ELSE (DOMAIN d \ {i}) \cup {t}
      <3>1. i \in DOMAIN d /\ IsSlots(d) /\ t # i
        BY <1>1, <1>2
      <3> QED
        BY <3>1, SwapIs
    <2> HIDE DEF e
    <2> QED
      BY <2>1
  <1> HIDE DEF e
  <1>6. Settled(lay, e, t)
    BY <1>2, <1>5 DEF Settled
  <1>7. ASSUME NEW j \in Nat \ {i}, Settled(lay, d, j) PROVE Settled(lay, e, j)
    <2>1. CASE j = t
      BY <1>6, <2>1
    <2>2. CASE j # t
      <3>1. j \in Nat \ {i, t}
        BY <2>2
      <3> QED
        BY <1>5, <1>7, <3>1 DEF Settled
    <2> QED
      BY <2>1, <2>2
  <1>8. ASSUME ~Twice(d, DOMAIN d)
        PROVE  t \notin SettledBut(lay, d, i)
    <2> SUFFICES ASSUME t \in DOMAIN d, Settled(lay, d, t) PROVE FALSE
      BY DEF SettledBut
    <2>1. d[t].id \in S /\ Target(lay, d[t].id, t) = t
      BY DEF Holds, Settled
    <2>2. Takes(lay, d[t].id, t)
      BY <2>1, TargetIs
    <2>3. d[t].id = d[i].id
      BY <1>2, <2>2 DEF Takes
    <2> QED
      BY <1>1, <1>2, <1>8, <2>3 DEF Twice
  <1>9. SettledBut(lay, d, i) \cup {t} \subseteq SettledBut(lay, e, i)
    <2>1. t \in SettledBut(lay, e, i)
      BY <1>2, <1>5, <1>6 DEF SettledBut
    <2>2. ASSUME NEW j \in SettledBut(lay, d, i) PROVE j \in SettledBut(lay, e, i)
      <3>1. j \in DOMAIN d /\ j # i /\ Settled(lay, d, j) /\ j \in Nat
        BY <1>1 DEF SettledBut, IsSlots
      <3>2. j \in DOMAIN e
        BY <1>5, <3>1
      <3> QED
        BY <1>7, <3>1, <3>2 DEF SettledBut
    <2> QED
      BY <2>1, <2>2
  <1>10. ~Twice(d, DOMAIN d) =>
          \E u \in Nat : /\ u \notin SettledBut(lay, d, i)
                         /\ SettledBut(lay, d, i) \cup {u} \subseteq SettledBut(lay, e, i)
    BY <1>2, <1>8, <1>9
  <1> QED
    BY <1>3, <1>4, <1>7, <1>10

\* A loop 'swap_index that has made n of its turns for slot i.
Settles(lay, d, i, e, n) ==
  /\ Rearranges(e, d)
  /\ \A j \in Nat \ {i} : Settled(lay, d, j) => Settled(lay, e, j)
  /\ \/ Twice(d, DOMAIN d) \/ Settled(lay, e, i)
     \/ \E T \in SUBSET SettledBut(lay, e, i) : IsFiniteSet(T) /\ Cardinality(T) = n

\* A turn settles one more entry, or its index is settled already.
LEMMA SettlesOneMore ==
  ASSUME NEW lay, NEW S, Lays(lay, S), NEW d, Holds(d, S), NEW i \in Nat,
         NEW n \in Nat, NEW e, Settles(lay, d, i, e, n)
  PROVE  Settles(lay, d, i, Turn(lay, e, i), n + 1)
  <1> DEFINE g == Turn(lay, e, i)
  <1>1. CASE Settled(lay, e, i)
    <2>1. g = e
      BY <1>1 DEF Turn
    <2> HIDE DEF g
    <2> QED
      BY <1>1, <2>1 DEF Settles, g
  <1>2. CASE ~Settled(lay, e, i)
    <2>1. Rearranges(e, d) /\ Holds(e, S)
      BY RearrangedHolds DEF Settles
    <2>2. /\ Rearranges(g, e)
          /\ \A j \in Nat \ {i} : Settled(lay, e, j) => Settled(lay, g, j)
          /\ ~Twice(e, DOMAIN e) =>
               \E t \in Nat : /\ t \notin SettledBut(lay, e, i)
                              /\ SettledBut(lay, e, i) \cup {t} \subseteq SettledBut(lay, g, i)
      BY <1>2, <2>1, SwapSettles
    <2> HIDE DEF g
    <2>3. Rearranges(g, d)
      BY <2>1, <2>2, RearrangesBoth
    <2>4. \A j \in Nat \ {i} : Settled(lay, d, j) => Settled(lay, g, j)
      BY <2>2 DEF Settles
    <2>5. ASSUME ~Twice(d, DOMAIN d)
          PROVE  \E T \in SUBSET SettledBut(lay, g, i) : IsFiniteSet(T) /\ Cardinality(T) = n + 1
      <3>1. ~Twice(e, DOMAIN e)
        BY <2>1, <2>5 DEF Rearranges
      <3>2. PICK t \in Nat : /\ t \notin SettledBut(lay, e, i)
                             /\ SettledBut(lay, e, i) \cup {t} \subseteq SettledBut(lay, g, i)
        BY <2>2, <3>1
      <3>3. PICK T \in SUBSET SettledBut(lay, e, i) : IsFiniteSet(T) /\ Cardinality(T) = n
        BY <1>2, <2>5 DEF Settles
      <3>4. t \notin T /\ T \cup {t} \in SUBSET SettledBut(lay, g, i)
        BY <3>2, <3>3
      <3>5. IsFiniteSet(T \cup {t}) /\ Cardinality(T \cup {t}) = n + 1
        BY <3>3, <3>4, FS_AddElement
      <3> QED
        BY <3>4, <3>5
    <2> QED
      BY <2>3, <2>4, <2>5 DEF Settles, g
  <1> QED
    BY <1>1, <1>2

\* The whole loop 'swap_index for slot i: it ends unless an id has two entries.
LEMMA SettleIs ==
  ASSUME NEW lay, NEW S, Lays(lay, S), NEW d, Holds(d, S), NEW i \in Nat
  PROVE  LET e == Settle(lay, d, i)
         IN /\ Rearranges(e, d)
            /\ \A j \in Nat \ {i} : Settled(lay, d, j) => Settled(lay, e, j)
            /\ Twice(d, DOMAIN d) \/ Settled(lay, e, i)
  <1> DEFINE C == Cardinality(DOMAIN d)
             e == Settle(lay, d, i)
  <1>1. IsSlots(d) /\ C \in Nat
    BY FS_CardinalityType DEF Holds, IsSlots
  <1> HIDE DEF C
  <1>2. PICK I \in SUBSET Nat : /\ IsFiniteSet(I) /\ Cardinality(I) = C
                               /\ I = Turns(d)
    <2>1. 1 .. C \in SUBSET Nat /\ IsFiniteSet(1 .. C) /\ Cardinality(1 .. C) = C
      BY <1>1, FS_Interval
    <2> QED
      BY <2>1 DEF C, Turns
  <1>3. PICK f : \E N \in Nat :
           /\ Below(I, N) = I
           /\ f[0] = d
           /\ \A n \in Nat :
                f[n + 1] = IF n \in I THEN Turn(lay, f[n], i) ELSE f[n]
           /\ I = Turns(d) => Settle(lay, d, i) = f[N]
    <2>1. IsFiniteSet(I)
      BY <1>2
    <2> HIDE DEF e
    <2> QED
      BY <2>1, SettleRuns
  <1> HIDE DEF e
  <1> DEFINE done(n) == Cardinality(Below(I, n))
             B == {n \in Nat : done(n) \in Nat /\ Settles(lay, d, i, f[n], done(n))}
  <1>4. 0 \in B
    <2>1. f[0] = d /\ Below(I, 0) = {}
      BY <1>2, <1>3, BelowStep
    <2>2. done(0) = 0
      BY <2>1, FS_EmptySet
    <2>3. Rearranges(d, d)
      BY <1>1, RearrangesSelf
    <2>4. {} \in SUBSET SettledBut(lay, d, i) /\ IsFiniteSet({}) /\ Cardinality({}) = 0
      BY FS_EmptySet
    <2>5. Settles(lay, d, i, d, 0)
      BY <2>3, <2>4 DEF Settles
    <2> QED
      BY <2>1, <2>2, <2>5
  <1>5. ASSUME NEW n \in Nat, n \in B PROVE n + 1 \in B
    <2>1. f[n + 1] = IF n \in I THEN Turn(lay, f[n], i) ELSE f[n]
      BY <1>3
    <2>2. CASE n \notin I
      <3>1. f[n + 1] = f[n] /\ Below(I, n + 1) = Below(I, n)
        BY <1>2, <2>1, <2>2, BelowStep
      <3> QED
        BY <1>5, <3>1
    <2>3. CASE n \in I
      <3>1. f[n + 1] = Turn(lay, f[n], i)
        BY <2>1, <2>3
      <3>2. /\ n \notin Below(I, n) /\ Below(I, n + 1) = Below(I, n) \cup {n}
            /\ Below(I, n) \in SUBSET I
        BY <1>2, <2>3, BelowStep
      <3>3. IsFiniteSet(Below(I, n))
        BY <1>2, <3>2, FS_Subset
      <3>4. done(n + 1) = done(n) + 1
        BY <3>2, <3>3, FS_AddElement
      <3>5. PICK k \in Nat : k = done(n) /\ Settles(lay, d, i, f[n], k)
        BY <1>5
      <3>6. Settles(lay, d, i, Turn(lay, f[n], i), k + 1)
        BY <3>5, SettlesOneMore
      <3> QED
        BY <3>1, <3>4, <3>5, <3>6
    <2> QED
      BY <2>2, <2>3
  <1>6. Nat \subseteq B
    <2> HIDE DEF B
    <2> QED
      BY <1>4, <1>5, Climb
  <1>7. Settles(lay, d, i, e, C)
    BY <1>2, <1>3, <1>6 DEF e
  <1>8. ASSUME ~Twice(d, DOMAIN d), ~Settled(lay, e, i) PROVE FALSE
    <2>1. PICK T \in SUBSET SettledBut(lay, e, i) : IsFiniteSet(T) /\ Cardinality(T) = C
      BY <1>7, <1>8 DEF Settles
    <2>2. IsFiniteSet(DOMAIN e) /\ Cardinality(DOMAIN e) = C
      BY <1>7 DEF Settles, Rearranges, IsSlots, C
    <2>3. T \in SUBSET DOMAIN e /\ i \notin T /\ i \in DOMAIN e
      BY <1>8 DEF SettledBut, Settled
    <2>4. T = DOMAIN e
      BY <2>1, <2>2, <2>3, FS_Subset
    <2> QED
      BY <2>3, <2>4
  <1> QED
    BY <1>7, <1>8 DEF Settles, e

-----------------------------------------------------------------------------
(* The swap loop for all *)

\* The loop over the slots that has come to slot n.
Visits(lay, d, a, n) ==
  /\ a.stuck \in BOOLEAN
  /\ Rearranges(a.data, d)
  /\ ~a.stuck => \A j \in Nat : j \notin DOMAIN d \/ j < n => Settled(lay, a.data, j)
  /\ ~Twice(d, DOMAIN d) => ~a.stuck

\* A visit of an index settles it and leaves the settled ones alone, or is stuck.
LEMMA VisitsOneMore ==
  ASSUME NEW lay, NEW S, Lays(lay, S), NEW d, Holds(d, S), NEW n \in Nat, n \in DOMAIN d,
         NEW a, Visits(lay, d, a, n)
  PROVE  Visits(lay, d, Visit(lay, a, n), n + 1)
  <1> DEFINE e == Settle(lay, a.data, n)
             b == Visit(lay, a, n)
  <1>1. a.stuck \in BOOLEAN /\ Rearranges(a.data, d) /\ Holds(a.data, S)
    BY RearrangedHolds DEF Visits
  <1>2. CASE a.stuck
    <2>1. b = a
      BY <1>2 DEF Visit
    <2> HIDE DEF b
    <2> QED
      BY <1>2, <2>1 DEF Visits, b
  <1>3. CASE ~a.stuck
    <2>1. b = [data |-> e, stuck |-> ~Settled(lay, e, n)]
      BY <1>3 DEF Visit
    <2>2. b.data = e /\ b.stuck = ~Settled(lay, e, n) /\ b.stuck \in BOOLEAN
      BY <2>1
    <2>3. /\ Rearranges(e, a.data)
          /\ \A j \in Nat \ {n} : Settled(lay, a.data, j) => Settled(lay, e, j)
          /\ Twice(a.data, DOMAIN a.data) \/ Settled(lay, e, n)
      BY <1>1, SettleIs
    <2> HIDE DEF b, e
    <2>4. Rearranges(e, d)
      BY <1>1, <2>3, RearrangesBoth
    <2>5. ASSUME NEW j \in Nat, j \notin DOMAIN d \/ j < n + 1, Settled(lay, e, n)
          PROVE  Settled(lay, e, j)
      <3>1. CASE j = n
        BY <2>5, <3>1
      <3>2. CASE j # n
        <4>1. j \notin DOMAIN d \/ j < n
          BY <2>5, <3>2
        <4>2. Settled(lay, a.data, j)
          BY <1>3, <4>1 DEF Visits
        <4> QED
          BY <2>3, <3>2, <4>2
      <3> QED
        BY <3>1, <3>2
    <2>6. ASSUME ~Twice(d, DOMAIN d) PROVE Settled(lay, e, n)
      BY <1>1, <2>3, <2>6 DEF Rearranges
    <2>7. Visits(lay, d, b, n + 1)
      BY <2>2, <2>4, <2>5, <2>6 DEF Visits
    <2> QED
      BY <2>7 DEF b
  <1> QED
    BY <1>1, <1>2, <1>3

\* What the whole of 'swap_index leaves.
LEMMA VisitAllIs ==
  ASSUME NEW lay, NEW S, Lays(lay, S), NEW d, Holds(d, S)
  PROVE  LET a == VisitAll(lay, d, DOMAIN d)
         IN /\ a.stuck \in BOOLEAN
            /\ Rearranges(a.data, d)
            /\ ~a.stuck => \A j \in DOMAIN a.data : Settled(lay, a.data, j)
            /\ ~Twice(d, DOMAIN d) => ~a.stuck
  <1>1. PICK I \in SUBSET Nat : I = DOMAIN d /\ IsFiniteSet(I)
    BY DEF Holds, IsSlots
  <1>2. PICK f : \E N \in Nat :
           /\ Below(I, N) = I
           /\ f[0] = Unmoved(d)
           /\ \A n \in Nat :
                f[n + 1] = IF n \in I THEN Visit(lay, f[n], n) ELSE f[n]
           /\ VisitAll(lay, d, I) = f[N]
    <2>1. IsFiniteSet(I)
      BY <1>1
    <2> QED
      BY <2>1, VisitRuns
  <1> DEFINE B == {n \in Nat : Visits(lay, d, f[n], n)}
  <1>3. 0 \in B
    <2>1. Unmoved(d).data = d /\ Unmoved(d).stuck = FALSE
      BY DEF Unmoved
    <2>2. Rearranges(d, d)
      BY RearrangesSelf DEF Holds
    <2>3. \A j \in Nat : j \notin DOMAIN d \/ j < 0 => Settled(lay, d, j)
      BY DEF Settled
    <2>4. Visits(lay, d, Unmoved(d), 0)
      BY <2>1, <2>2, <2>3 DEF Visits
    <2> QED
      BY <1>2, <2>4
  <1>4. ASSUME NEW n \in Nat, n \in B PROVE n + 1 \in B
    <2>1. f[n + 1] = IF n \in I THEN Visit(lay, f[n], n) ELSE f[n]
      BY <1>2
    <2>2. CASE n \notin I
      <3>1. f[n + 1] = f[n]
        BY <2>1, <2>2
      <3>2. n \notin DOMAIN d
        BY <1>1, <2>2
      <3>3. \A j \in Nat : j < n + 1 => j < n \/ j \notin DOMAIN d
        BY <3>2
      <3>4. Visits(lay, d, f[n], n)
        BY <1>4
      <3>5. Visits(lay, d, f[n], n + 1)
        BY <3>3, <3>4 DEF Visits
      <3> QED
        BY <3>1, <3>5
    <2>3. CASE n \in I
      <3>1. f[n + 1] = Visit(lay, f[n], n) /\ n \in DOMAIN d
        BY <1>1, <2>1, <2>3
      <3>2. Visits(lay, d, f[n], n)
        BY <1>4
      <3>3. Visits(lay, d, Visit(lay, f[n], n), n + 1)
        BY <3>1, <3>2, VisitsOneMore
      <3> QED
        BY <3>1, <3>3
    <2> QED
      BY <2>2, <2>3
  <1>5. Nat \subseteq B
    <2> HIDE DEF B
    <2> QED
      BY <1>3, <1>4, Climb
  <1>6. PICK N \in Nat : Below(I, N) = I /\ VisitAll(lay, d, DOMAIN d) = f[N]
    BY <1>1, <1>2
  <1> DEFINE a == VisitAll(lay, d, DOMAIN d)
  <1>7. Visits(lay, d, a, N)
    BY <1>5, <1>6
  <1> HIDE DEF a
  <1>8. \A j \in Nat : j \notin DOMAIN d \/ j < N
    BY <1>1, <1>6 DEF Below
  <1>9. ASSUME ~a.stuck, NEW j \in DOMAIN a.data PROVE Settled(lay, a.data, j)
    <2>1. DOMAIN a.data \in SUBSET Nat
      BY <1>7 DEF Visits, Rearranges, IsSlots
    <2>2. j \in Nat
      BY <2>1
    <2> QED
      BY <1>7, <1>8, <1>9, <2>2 DEF Visits
  <1>10. a.stuck \in BOOLEAN /\ Rearranges(a.data, d) /\ (~Twice(d, DOMAIN d) => ~a.stuck)
    BY <1>7 DEF Visits
  <1> QED
    BY <1>9, <1>10 DEF a

-----------------------------------------------------------------------------
(* What a rehash leaves *)

\* Each id within reach of its home slot.
Near(e, h) ==
  \A i \in DOMAIN e : /\ HomeIn(e[i].id, h) <= i
                      /\ i < HomeIn(e[i].id, h) + MAX_COLLISION_PACK_DISTANCE

\* Each home slot occupied, and each id below the hash at home.
Probes(e, h) ==
  \A i \in DOMAIN e : /\ HomeIn(e[i].id, h) = 0 \/ HomeIn(e[i].id, h) \in DOMAIN e
                      /\ e[i].id < h => i = HomeIn(e[i].id, h)

\* What rehash_data(from, d) leaves of the slots d when it returns.
Relaid(r, d, from, len, cap) ==
  /\ r.hash \in Nat /\ r.hash # 0 /\ r.hash <= U16_MAX
  /\ r.hash_disabled \in BOOLEAN
  /\ ~r.hash_disabled => r.hash > from /\ r.hash <= MAX_HASH
  /\ Rearranges(r.data, d)
  /\ DOMAIN r.data \subseteq 1 .. r.hash + 3
  /\ r.hash_disabled => \A i \in DOMAIN r.data : r.data[i].id = i /\ i < r.hash
  /\ Near(r.data, r.hash)
  /\ ~Twice(d, DOMAIN d) => Probes(r.data, r.hash)
  /\ r.data_slots_end = Max(DOMAIN r.data \cup {1}) + 1
  /\ r.data_capacity =
       ResizeCapacity(cap, len, r.hash + IF r.hash_disabled THEN 0
                                         ELSE MAX_COLLISION_PACK_DISTANCE)

\* A layout that is kept: how the slots are that 'swap_index leaves.
LEMMA PlacedIs ==
  ASSUME NEW lay, NEW S, Lays(lay, S), NEW d, Holds(d, S), NEW e, Rearranges(e, d),
         \A j \in DOMAIN e : Settled(lay, e, j)
  PROVE  /\ DOMAIN e \subseteq 1 .. lay.hash + 3
         /\ \A j \in DOMAIN e : j \in DOMAIN lay.info /\ lay.info[j] = e[j].id
         /\ Near(e, lay.hash)
  <1>1. Holds(e, S) /\ DOMAIN e \in SUBSET Nat
    BY RearrangedHolds DEF Rearranges, IsSlots
  <1>2. ASSUME NEW j \in DOMAIN e
        PROVE  Takes(lay, e[j].id, j) /\ j # 0 /\ j <= lay.hash + 3 /\ j \in Nat
    <2>1. e[j].id \in S /\ Target(lay, e[j].id, j) = j /\ j \in Nat
      BY <1>1 DEF Holds, Settled
    <2> QED
      BY <2>1, TargetIs
  <1>3. lay.hash \in Nat
    BY DEF Lays
  <1>4. DOMAIN e \subseteq 1 .. lay.hash + 3
    BY <1>2, <1>3
  <1> QED
    BY <1>2, <1>4 DEF Takes, Near

\* For ids that differ, the places are those of collisions_info, so that the homes
\* that it fills are.
LEMMA PlacedProbes ==
  ASSUME NEW lay, NEW S, Lays(lay, S), NEW d, Holds(d, S), S = IdsAt(d, DOMAIN d),
         NEW e, Rearranges(e, d),
         \A j \in DOMAIN e : j \in DOMAIN lay.info /\ lay.info[j] = e[j].id,
         Tidy(lay.info, lay.hash)
  PROVE  Probes(e, lay.hash)
  <1>1. Holds(e, S)
    BY RearrangedHolds
  <1>2. ASSUME NEW p \in DOMAIN lay.info PROVE p \in DOMAIN e
    <2>1. lay.info[p] \in S
      BY DEF Lays, IsLaid
    <2>2. \E x \in EntriesOf(d) : lay.info[p] = x.id
      BY <2>1 DEF IdsAt, EntriesOf
    <2>3. \E j \in DOMAIN e : lay.info[p] = e[j].id
      BY <2>2 DEF Rearranges, EntriesOf
    <2>4. PICK j \in DOMAIN e : lay.info[p] = e[j].id
      BY <2>3
    <2>5. j \in DOMAIN lay.info /\ lay.info[j] = lay.info[p]
      BY <2>4
    <2> QED
      BY <2>5 DEF Tidy
  <1>3. ASSUME NEW j \in DOMAIN e
        PROVE  /\ HomeIn(e[j].id, lay.hash) \in DOMAIN e
               /\ e[j].id < lay.hash => j = HomeIn(e[j].id, lay.hash)
    <2>1. /\ HomeIn(lay.info[j], lay.hash) \in DOMAIN lay.info
          /\ lay.info[j] < lay.hash => j = lay.info[j]
      BY DEF Tidy
    <2>2. e[j].id \in Ids /\ lay.hash \in Nat /\ lay.hash # 0
      BY <1>1 DEF Holds, Lays
    <2>3. e[j].id < lay.hash => HomeIn(e[j].id, lay.hash) = e[j].id
      BY <2>2, HomeIs
    <2>4. lay.info[j] = e[j].id
      OBVIOUS
    <2> QED
      BY <1>2, <2>1, <2>3, <2>4
  <1> QED
    BY <1>3 DEF Probes

\* A layout the loop 'hash_lookup ends with, and what follows if ids differ.
LEMMA LayoutLays ==
  ASSUME NEW d, IsSlots(d), NEW from \in Nat, NEW least
  PROVE  LET lay == Layout(d, DOMAIN d, from, least)
         IN /\ lay.hash \in Nat /\ lay.hash # 0 /\ lay.hash <= U16_MAX
            /\ lay.disabled \in BOOLEAN
            /\ ~lay.disabled => lay.hash > from /\ lay.hash <= MAX_HASH
            /\ lay.disabled => \A j \in DOMAIN d : d[j].id < lay.hash
            /\ ~(lay.disabled /\ Twice(d, DOMAIN d)) => Lays(lay, IdsAt(d, DOMAIN d))
            /\ ~Twice(d, DOMAIN d) => Tidy(lay.info, lay.hash)
  <1> DEFINE I == DOMAIN d
             S == IdsAt(d, DOMAIN d)
             lay == Layout(d, DOMAIN d, from, least)
  <1>1. I \in SUBSET Nat /\ IsFiniteSet(I)
    BY DEF IsSlots
  <1>2. \A j \in I : d[j].id \in Ids
    BY EntryIs DEF IsSlots
  <1> HIDE DEF I
  <1>3. PICK n \in Nat : /\ n >= from
                         /\ Layout(d, I, from, least) = Attempt(d, I, n, least)
                         /\ Ends(Attempt(d, I, n, least))
    BY <1>1, <1>2, LayoutIs
  <1>4. PICK l : l = Attempt(d, I, n, least)
    OBVIOUS
  <1>5. /\ l.hash \in Nat /\ l.hash # 0 /\ l.hash <= U16_MAX
        /\ l.hash > n \/ l.disabled
        /\ l.disabled \in BOOLEAN
        /\ ~l.disabled => l.hash <= MAX_HASH
        /\ l.disabled => \A j \in I : d[j].id < l.hash
        /\ \E a : /\ Collects(a, d, I, l.hash)
                  /\ l.info = a.info /\ l.retry = a.retry
    BY <1>1, <1>2, <1>4, AttemptIs
  <1>6. lay = l /\ Ends(l)
    BY <1>3, <1>4 DEF I
  <1>7. ~l.disabled => l.hash > from
    BY <1>3, <1>5
  <1>8. /\ l.retry = 0 => IsLaid(l.info, l.hash, IdsAt(d, I))
        /\ l.retry = 0 /\ ~Twice(d, I) => Tidy(l.info, l.hash)
        /\ ~Twice(d, I) /\ (\A x \in IdsAt(d, I) : x < l.hash) => l.retry = 0
    BY <1>5 DEF Collects
  <1>9. l.disabled => \A x \in IdsAt(d, I) : x < l.hash
    BY <1>5 DEF IdsAt
  <1>10. ~(l.disabled /\ Twice(d, I)) => l.retry = 0
    BY <1>6, <1>8, <1>9 DEF Ends
  <1>11. IdsAt(d, I) \subseteq Ids
    BY <1>2 DEF IdsAt
  <1>12. ~(l.disabled /\ Twice(d, I)) => Lays(l, IdsAt(d, I))
    BY <1>5, <1>8, <1>10, <1>11 DEF Lays
  <1>13. ~Twice(d, I) => Tidy(l.info, l.hash)
    BY <1>8, <1>10
  <1> HIDE DEF lay
  <1> QED
    BY <1>5, <1>6, <1>7, <1>12, <1>13 DEF I, lay

\* rehash_data() of slots that end before `end`: it returns unless an id has two
\* entries, and what it leaves when it does.
LEMMA RehashIs ==
  ASSUME NEW d, IsSlots(d), NEW end \in Nat, \A i \in DOMAIN d : i < end,
         NEW len, NEW cap, NEW from \in Nat, NEW old
  PROVE  LET r == Rehash(d, len, cap, end, from, old)
         IN /\ r.fate \in {"ok", "hang", "undefined"}
            /\ ~Twice(d, DOMAIN d) => r.fate = "ok"
            /\ r.fate = "ok" => Relaid(r, d, from, len, cap)
  <1> DEFINE least == IF from < old THEN 0 ELSE end
             lay == Layout(d, DOMAIN d, from, least)
             all == VisitAll(lay, d, DOMAIN d)
             newlen == lay.hash + IF lay.disabled THEN 0 ELSE MAX_COLLISION_PACK_DISTANCE
             S == IdsAt(d, DOMAIN d)
             r == Rehash(d, len, cap, end, from, old)
             ok == [fate |-> "ok",
                    data |-> all.data,
                    hash |-> lay.hash,
                    hash_disabled |-> lay.disabled,
                    data_slots_end |-> Max(DOMAIN all.data \cup {1}) + 1,
                    data_capacity |-> ResizeCapacity(cap, len, newlen)]
  <1>1. {i \in DOMAIN d : i < end} = DOMAIN d
    OBVIOUS
  <1>2. r = IF lay.disabled /\ Twice(d, DOMAIN d) THEN [fate |-> "undefined"]
            ELSE IF all.stuck THEN [fate |-> "hang"]
            ELSE ok
    BY <1>1 DEF Rehash
  <1>3. /\ lay.hash \in Nat /\ lay.hash # 0 /\ lay.hash <= U16_MAX
        /\ lay.disabled \in BOOLEAN
        /\ ~lay.disabled => lay.hash > from /\ lay.hash <= MAX_HASH
        /\ lay.disabled => \A j \in DOMAIN d : d[j].id < lay.hash
        /\ ~(lay.disabled /\ Twice(d, DOMAIN d)) => Lays(lay, S)
        /\ ~Twice(d, DOMAIN d) => Tidy(lay.info, lay.hash)
    <2> HIDE DEF least
    <2> QED
      BY LayoutLays
  <1>4. Holds(d, S)
    BY DEF Holds, IdsAt
  <1> HIDE DEF lay
  <1>5. CASE lay.disabled /\ Twice(d, DOMAIN d)
    <2>1. r = [fate |-> "undefined"]
      BY <1>2, <1>5
    <2> HIDE DEF r
    <2>2. r.fate = "undefined"
      BY <2>1
    <2> QED
      BY <1>5, <2>2 DEF r
  <1>6. CASE ~(lay.disabled /\ Twice(d, DOMAIN d))
    <2>1. /\ all.stuck \in BOOLEAN
          /\ Rearranges(all.data, d)
          /\ ~all.stuck => \A j \in DOMAIN all.data : Settled(lay, all.data, j)
          /\ ~Twice(d, DOMAIN d) => ~all.stuck
      <3>1. Lays(lay, S)
        BY <1>3, <1>6
      <3> HIDE DEF S
      <3> QED
        BY <1>4, <3>1, VisitAllIs
    <2> HIDE DEF all
    <2>2. CASE all.stuck
      <3>1. r = [fate |-> "hang"]
        BY <1>2, <1>6, <2>2
      <3> HIDE DEF r
      <3>2. r.fate = "hang"
        BY <3>1
      <3> QED
        BY <2>1, <2>2, <3>2 DEF r
    <2>3. CASE ~all.stuck
      <3>1. r = ok
        BY <1>2, <1>6, <2>3
      <3>2. /\ r.fate = "ok" /\ r.data = all.data
            /\ r.hash = lay.hash /\ r.hash_disabled = lay.disabled
            /\ r.data_slots_end = Max(DOMAIN all.data \cup {1}) + 1
            /\ r.data_capacity = ResizeCapacity(cap, len, newlen)
        <4> HIDE DEF r, newlen
        <4> QED
          BY <3>1
      <3> HIDE DEF r
      <3> DEFINE e == r.data
      <3>3. Rearranges(e, d) /\ \A j \in DOMAIN e : Settled(lay, e, j)
        BY <2>1, <2>3, <3>2
      <3>4. Lays(lay, S)
        BY <1>3, <1>6
      <3> HIDE DEF e
      <3>5. /\ DOMAIN e \subseteq 1 .. lay.hash + 3
            /\ \A j \in DOMAIN e : j \in DOMAIN lay.info /\ lay.info[j] = e[j].id
            /\ Near(e, lay.hash)
        <4> HIDE DEF S
        <4> QED
          BY <1>4, <3>3, <3>4, PlacedIs
      <3>6. ASSUME ~Twice(d, DOMAIN d) PROVE Probes(e, lay.hash)
        <4>1. Tidy(lay.info, lay.hash)
          BY <1>3, <3>6
        <4>2. PICK T : T = IdsAt(d, DOMAIN d) /\ Lays(lay, T) /\ Holds(d, T)
          BY <1>4, <3>4
        <4>3. \A j \in DOMAIN e : j \in DOMAIN lay.info /\ lay.info[j] = e[j].id
          BY <3>5
        <4> QED
          BY <3>3, <4>1, <4>2, <4>3, PlacedProbes
      <3>7. ASSUME lay.disabled, NEW i \in DOMAIN e PROVE e[i].id = i /\ i < lay.hash
        <4>1. ~Twice(d, DOMAIN d)
          BY <1>6, <3>7
        <4>2. Tidy(lay.info, lay.hash) /\ lay.info[i] = e[i].id /\ i \in DOMAIN lay.info
          BY <1>3, <3>5, <4>1
        <4>3. Holds(e, S)
          BY <1>4, <3>3, RearrangedHolds
        <4>4. e[i].id \in S
          BY <4>3 DEF Holds
        <4>5. e[i].id < lay.hash
          BY <1>3, <3>7, <4>4 DEF IdsAt
        <4> QED
          BY <4>2, <4>5 DEF Tidy
      <3>8. Relaid(r, d, from, len, cap)
        BY <1>3, <3>2, <3>3, <3>5, <3>6, <3>7 DEF Relaid, e
      <3> QED
        BY <3>2, <3>8 DEF r
    <2> QED
      BY <2>1, <2>2, <2>3
  <1> HIDE DEF r
  <1> QED
    BY <1>5, <1>6 DEF r

-----------------------------------------------------------------------------
(* Capacities *)

\* The powers of two up to 2 ^ 16, one by one.
LEMMA PowersAre ==
  ASSUME NEW k \in Nat
  PROVE  /\ (k = 0 => 2 ^ k = 1) /\ (k = 1 => 2 ^ k = 2)
         /\ (k = 2 => 2 ^ k = 4) /\ (k = 3 => 2 ^ k = 8)
         /\ (k = 4 => 2 ^ k = 16) /\ (k = 5 => 2 ^ k = 32)
         /\ (k = 6 => 2 ^ k = 64) /\ (k = 7 => 2 ^ k = 128)
         /\ (k = 8 => 2 ^ k = 256) /\ (k = 9 => 2 ^ k = 512)
         /\ (k = 10 => 2 ^ k = 1024) /\ (k = 11 => 2 ^ k = 2048)
         /\ (k = 12 => 2 ^ k = 4096) /\ (k = 13 => 2 ^ k = 8192)
         /\ (k = 14 => 2 ^ k = 16384) /\ (k = 15 => 2 ^ k = 32768)
         /\ (k = 16 => 2 ^ k = 65536)
  <1>0. ASSUME k = 0 PROVE 2 ^ k = 1
    BY <1>0
  <1>1. ASSUME k = 1 PROVE 2 ^ k = 2
    BY <1>1
  <1>2. ASSUME k = 2 PROVE 2 ^ k = 4
    BY <1>2
  <1>3. ASSUME k = 3 PROVE 2 ^ k = 8
    BY <1>3
  <1>4. ASSUME k = 4 PROVE 2 ^ k = 16
    BY <1>4
  <1>5. ASSUME k = 5 PROVE 2 ^ k = 32
    BY <1>5
  <1>6. ASSUME k = 6 PROVE 2 ^ k = 64
    BY <1>6
  <1>7. ASSUME k = 7 PROVE 2 ^ k = 128
    BY <1>7
  <1>8. ASSUME k = 8 PROVE 2 ^ k = 256
    BY <1>8
  <1>9. ASSUME k = 9 PROVE 2 ^ k = 512
    BY <1>9
  <1>10. ASSUME k = 10 PROVE 2 ^ k = 1024
    BY <1>10
  <1>11. ASSUME k = 11 PROVE 2 ^ k = 2048
    BY <1>11
  <1>12. ASSUME k = 12 PROVE 2 ^ k = 4096
    BY <1>12
  <1>13. ASSUME k = 13 PROVE 2 ^ k = 8192
    BY <1>13
  <1>14. ASSUME k = 14 PROVE 2 ^ k = 16384
    BY <1>14
  <1>15. ASSUME k = 15 PROVE 2 ^ k = 32768
    BY <1>15
  <1>16. ASSUME k = 16 PROVE 2 ^ k = 65536
    BY <1>16
  <1> QED
    BY <1>0, <1>1, <1>2, <1>3, <1>4, <1>5, <1>6, <1>7, <1>8,
       <1>9, <1>10, <1>11, <1>12, <1>13, <1>14, <1>15, <1>16

\* The powers of two that capacities are made of are numbers.
LEMMA PowerIs ==
  ASSUME NEW k \in 0 .. 16
  PROVE  2 ^ k \in Nat /\ 2 ^ k >= 1 /\ (2 ^ k <= 1024 => k \in 0 .. 10)
  <1>1. \/ k = 0 \/ k = 1 \/ k = 2 \/ k = 3 \/ k = 4 \/ k = 5 \/ k = 6 \/ k = 7 \/ k = 8
        \/ k = 9 \/ k = 10 \/ k = 11 \/ k = 12 \/ k = 13 \/ k = 14 \/ k = 15 \/ k = 16
    OBVIOUS
  <1>2. \/ (k = 0 /\ 2 ^ k = 1) \/ (k = 1 /\ 2 ^ k = 2)
        \/ (k = 2 /\ 2 ^ k = 4) \/ (k = 3 /\ 2 ^ k = 8)
        \/ (k = 4 /\ 2 ^ k = 16) \/ (k = 5 /\ 2 ^ k = 32)
        \/ (k = 6 /\ 2 ^ k = 64) \/ (k = 7 /\ 2 ^ k = 128)
        \/ (k = 8 /\ 2 ^ k = 256) \/ (k = 9 /\ 2 ^ k = 512)
        \/ (k = 10 /\ 2 ^ k = 1024) \/ (k = 11 /\ 2 ^ k = 2048)
        \/ (k = 12 /\ 2 ^ k = 4096) \/ (k = 13 /\ 2 ^ k = 8192)
        \/ (k = 14 /\ 2 ^ k = 16384) \/ (k = 15 /\ 2 ^ k = 32768)
        \/ (k = 16 /\ 2 ^ k = 65536)
    BY <1>1, PowersAre
  <1> DEFINE p == 2 ^ k
  <1>3. \/ (k = 0 /\ p = 1) \/ (k = 1 /\ p = 2) \/ (k = 2 /\ p = 4) \/ (k = 3 /\ p = 8)
        \/ (k = 4 /\ p = 16) \/ (k = 5 /\ p = 32) \/ (k = 6 /\ p = 64) \/ (k = 7 /\ p = 128)
        \/ (k = 8 /\ p = 256) \/ (k = 9 /\ p = 512) \/ (k = 10 /\ p = 1024) \/ (k = 11 /\ p = 2048)
        \/ (k = 12 /\ p = 4096) \/ (k = 13 /\ p = 8192)
        \/ (k = 14 /\ p = 16384) \/ (k = 15 /\ p = 32768)
        \/ (k = 16 /\ p = 65536)
    BY <1>2
  <1> HIDE DEF p
  <1>4. p \in Nat /\ p >= 1 /\ (p <= 1024 => k \in 0 .. 10)
    BY <1>3
  <1> QED
    BY <1>4 DEF p

\* A capacity is a u16 other than 0.
LEMMA CapacitiesAre ==
  ASSUME NEW c \in Capacities
  PROVE  c \in Nat /\ c >= 1 /\ c <= U16_MAX
  <1>1. U16_MAX \in Nat /\ U16_MAX >= 1
    BY DEF U16_MAX
  <1>2. PICK k \in 0 .. 16 : c = Min({2 ^ k, U16_MAX})
    BY DEF Capacities
  <1>3. 2 ^ k \in Nat /\ 2 ^ k >= 1
    BY PowerIs
  <1> DEFINE p == 2 ^ k
  <1> HIDE DEF p
  <1>4. Min({p, U16_MAX}) \in {p, U16_MAX} /\ Min({p, U16_MAX}) <= U16_MAX
    BY <1>1, <1>3, LeastOfTwo DEF p
  <1> QED
    BY <1>1, <1>2, <1>3, <1>4 DEF p

\* The capacity for a length, and for the words of a set of u16 bits.
LEMMA CapacityIs ==
  ASSUME NEW n \in Nat, n <= U16_MAX
  PROVE  /\ Capacity(n) \in Capacities /\ Capacity(n) >= n
         /\ n <= 1024 => Capacity(n) \in {2 ^ k : k \in 0 .. 10}
  <1> DEFINE K == {e \in 0 .. 16 : 2 ^ e >= n}
             T == {Min({2 ^ k, U16_MAX}) : k \in K}
  <1>1. U16_MAX \in Nat /\ U16_MAX <= 65536 /\ U16_MAX > 1024
    BY DEF U16_MAX
  <1>2. \A k \in 0 .. 16 : /\ Min({2 ^ k, U16_MAX}) \in {2 ^ k, U16_MAX}
                           /\ Min({2 ^ k, U16_MAX}) <= 2 ^ k
                           /\ 2 ^ k \in Nat /\ (2 ^ k <= 1024 => k \in 0 .. 10)
    <2> SUFFICES ASSUME NEW k \in 0 .. 16
                 PROVE  /\ Min({2 ^ k, U16_MAX}) \in {2 ^ k, U16_MAX}
                        /\ Min({2 ^ k, U16_MAX}) <= 2 ^ k
                        /\ 2 ^ k \in Nat /\ (2 ^ k <= 1024 => k \in 0 .. 10)
      OBVIOUS
    <2>1. 2 ^ k \in Nat /\ (2 ^ k <= 1024 => k \in 0 .. 10)
      BY PowerIs
    <2> DEFINE p == 2 ^ k
    <2> HIDE DEF p
    <2>2. Min({p, U16_MAX}) \in {p, U16_MAX} /\ Min({p, U16_MAX}) <= p
      BY <1>1, <2>1, LeastOfTwo DEF p
    <2> QED
      BY <2>1, <2>2 DEF p
  <1>3. T # {} /\ T \in SUBSET Nat
    <2>1. PICK e \in 0 .. 16 : e = 16
      OBVIOUS
    <2>4. 2 ^ e = 65536
      BY <2>1, PowersAre
    <2>5. e \in K
      BY <1>1, <2>4
    <2> HIDE DEF K
    <2>2. \A k \in K : k \in 0 .. 16
      BY DEF K
    <2>3. \A k \in K : Min({2 ^ k, U16_MAX}) \in Nat
      <3> SUFFICES ASSUME NEW k \in K PROVE Min({2 ^ k, U16_MAX}) \in Nat
        OBVIOUS
      <3>1. Min({2 ^ k, U16_MAX}) \in {2 ^ k, U16_MAX} /\ 2 ^ k \in Nat
        BY <1>2, <2>2
      <3> DEFINE p == 2 ^ k
      <3> HIDE DEF p
      <3>2. Min({p, U16_MAX}) \in {p, U16_MAX} /\ p \in Nat
        BY <3>1 DEF p
      <3>3. Min({p, U16_MAX}) \in Nat
        BY <1>1, <3>2
      <3> QED
        BY <3>3 DEF p
    <2> QED
      BY <2>3, <2>5
  <1>4. Min(T) \in T /\ \A m \in T : Min(T) <= m
    <2> HIDE DEF T
    <2> QED
      BY <1>3, LeastOf
  <1>5. Capacity(n) = Min(T)
    BY DEF Capacity
  <1>6. PICK k \in K : Capacity(n) = Min({2 ^ k, U16_MAX})
    BY <1>4, <1>5
  <1>7. k \in 0 .. 16 /\ 2 ^ k >= n
    OBVIOUS
  <1>8. Capacity(n) \in Capacities
    BY <1>6, <1>7 DEF Capacities
  <1>9. Capacity(n) >= n
    BY <1>2, <1>6, <1>7
  <1>10. ASSUME n <= 1024 PROVE Capacity(n) \in {2 ^ j : j \in 0 .. 10}
    <2> DEFINE c == Capacity(n)
    <2>9. PICK e \in 0 .. 10 : e = 10
      OBVIOUS
    <2> DEFINE q == 2 ^ e
               m == Min({q, U16_MAX})
    <2>1. q = 1024 /\ q >= n
      BY <1>10, <2>9, PowersAre
    <2>2. m \in T
      <3>1. e \in K
        BY <2>1
      <3> HIDE DEF K
      <3> QED
        BY <3>1
    <2>3. c <= m
      BY <1>4, <1>5, <2>2
    <2> HIDE DEF q, T, c
    <2>4. m <= q /\ m \in {q, U16_MAX}
      BY <1>1, <2>1, LeastOfTwo
    <2> HIDE DEF m
    <2>5. c \in Nat /\ c <= 1024
      <3>1. c \in Nat
        BY <1>3, <1>4, <1>5 DEF c
      <3>2. m \in Nat /\ m <= 1024
        BY <1>1, <2>1, <2>4
      <3> QED
        BY <2>3, <3>1, <3>2
    <2>6. c = 2 ^ k \/ c = U16_MAX
      BY <1>2, <1>6, <1>7 DEF c
    <2>7. U16_MAX # 1024 /\ U16_MAX > 1024
      BY DEF U16_MAX
    <2>8. c = 2 ^ k
      BY <2>5, <2>6, <2>7
    <2>10. k \in 0 .. 10
      <3>1. 2 ^ k <= 1024
        BY <2>5, <2>8
      <3> QED
        BY <1>2, <1>7, <3>1
    <2> QED
      BY <2>8, <2>10 DEF c
  <1> QED
    BY <1>8, <1>9, <1>10

\* The greatest of three numbers.
LEMMA GreatestOfThree ==
  ASSUME NEW a \in Nat, NEW b \in Nat, NEW c \in Nat
  PROVE  /\ Max({a, b, c}) \in {a, b, c}
         /\ Max({a, b, c}) >= a /\ Max({a, b, c}) >= b /\ Max({a, b, c}) >= c
  <1> DEFINE S == {a, b, c}
  <1>1. S \in SUBSET Nat /\ S # {} /\ a \in S /\ b \in S /\ c \in S
    OBVIOUS
  <1>2. IsFiniteSet(S)
    <2>1. IsFiniteSet({a})
      BY FS_Singleton
    <2>2. IsFiniteSet({a} \cup {b})
      BY <2>1, FS_AddElement
    <2>3. IsFiniteSet(({a} \cup {b}) \cup {c})
      BY <2>2, FS_AddElement
    <2>4. S = ({a} \cup {b}) \cup {c}
      OBVIOUS
    <2> QED
      BY <2>3, <2>4
  <1>3. \A x \in S : x = a \/ x = b \/ x = c
    OBVIOUS
  <1> HIDE DEF S
  <1>4. Max(S) \in S /\ \A x \in S : x <= Max(S)
    BY <1>1, <1>2, GreatestOf
  <1> QED
    BY <1>1, <1>4 DEF S

\* RawVecU16::resize_with makes room for the new length.
LEMMA ResizeIs ==
  ASSUME NEW cap \in Capacities, NEW len \in Nat, len <= cap,
         NEW newlen \in Nat, newlen <= U16_MAX
  PROVE  ResizeCapacity(cap, len, newlen) \in Capacities
         /\ ResizeCapacity(cap, len, newlen) >= newlen
  <1>1. cap \in Nat /\ cap <= U16_MAX
    BY CapacitiesAre
  <1>2. CASE newlen <= len
    BY <1>1, <1>2 DEF ResizeCapacity
  <1>3. CASE ~(newlen <= len)
    <2> DEFINE m == Max({newlen, 2, cap})
    <2>1. ResizeCapacity(cap, len, newlen) = Capacity(m)
      BY <1>3 DEF ResizeCapacity
    <2>2. m \in {newlen, 2, cap} /\ m >= newlen
      BY <1>1, GreatestOfThree
    <2> HIDE DEF m
    <2>3. 2 <= U16_MAX
      BY DEF U16_MAX
    <2>4. m \in Nat /\ m <= U16_MAX
      BY <1>1, <2>2, <2>3
    <2>5. Capacity(m) \in Capacities /\ Capacity(m) >= m
      BY <2>4, CapacityIs
    <2>6. Capacity(m) \in Nat
      BY <2>5, CapacitiesAre
    <2> QED
      BY <2>1, <2>2, <2>4, <2>5, <2>6
  <1> QED
    BY <1>2, <1>3

\* RawVecU16::push makes room for one more.
LEMMA PushIs ==
  ASSUME NEW cap \in Capacities, NEW len \in Nat, len + 1 <= U16_MAX
  PROVE  PushCapacity(cap, len) \in Capacities /\ PushCapacity(cap, len) >= len + 1
  <1>1. cap \in Nat /\ cap <= U16_MAX
    BY CapacitiesAre
  <1>2. CASE len + 1 <= cap
    BY <1>1, <1>2 DEF PushCapacity
  <1>3. CASE len + 1 > cap
    <2> DEFINE k == len + 1
               m == Max({k, 2})
    <2>1. PushCapacity(cap, len) = Capacity(m)
      BY <1>3 DEF PushCapacity
    <2>2. k \in Nat /\ k <= U16_MAX
      OBVIOUS
    <2> HIDE DEF k
    <2>3. m \in {k, 2} /\ m >= k
      BY <2>2, GreatestOfTwo
    <2> HIDE DEF m
    <2>4. 2 <= U16_MAX
      BY DEF U16_MAX
    <2>5. m \in Nat /\ m <= U16_MAX
      BY <2>2, <2>3, <2>4
    <2>6. Capacity(m) \in Capacities /\ Capacity(m) >= m
      BY <2>5, CapacityIs
    <2>7. Capacity(m) \in Nat
      BY <2>6, CapacitiesAre
    <2>8. Capacity(m) >= k
      BY <2>2, <2>3, <2>5, <2>6, <2>7
    <2> QED
      BY <2>1, <2>6, <2>8 DEF k
  <1> QED
    BY <1>1, <1>2, <1>3

\* Indexed by id, the array grows to twice the power of two above the id.
LEMMA GrownIs ==
  ASSUME NEW id \in Ids
  PROVE  LET grown == Min({2 * Capacity(id), U16_MAX})
         IN grown \in Nat /\ grown > id /\ grown <= U16_MAX
  <1>1. id \in Nat /\ id # 0 /\ id < U16_MAX
    BY IdIs
  <1>2. U16_MAX \in Nat
    BY DEF U16_MAX
  <1> DEFINE c == Capacity(id)
  <1>3. c \in Capacities /\ c >= id
    BY <1>1, <1>2, CapacityIs
  <1> HIDE DEF c
  <1>4. c \in Nat
    BY <1>3, CapacitiesAre
  <1> DEFINE m == 2 * c
             grown == Min({m, U16_MAX})
  <1>5. m \in Nat /\ m > id
    BY <1>1, <1>3, <1>4
  <1> HIDE DEF m
  <1>6. grown \in {m, U16_MAX} /\ grown <= U16_MAX
    BY <1>2, <1>5, LeastOfTwo
  <1> HIDE DEF grown
  <1>7. grown \in Nat /\ grown > id /\ grown <= U16_MAX
    BY <1>1, <1>2, <1>5, <1>6
  <1> QED
    BY <1>7 DEF grown, m, c

\* The capacities of the bit set.
BitCapacities == {2 ^ k : k \in 0 .. 10}

\* At most 1024 words hold all ids.
LEMMA BitCapacitiesAre ==
  ASSUME NEW c \in BitCapacities
  PROVE  c \in Nat /\ c >= 1 /\ c <= 1024
  <1>1. PICK k \in 0 .. 10 : c = 2 ^ k
    BY DEF BitCapacities
  <1>2. \/ k = 0 \/ k = 1 \/ k = 2 \/ k = 3 \/ k = 4 \/ k = 5 \/ k = 6 \/ k = 7 \/ k = 8
        \/ k = 9 \/ k = 10
    OBVIOUS
  <1> QED
    BY <1>1, <1>2, PowersAre

\* The bit set grows to hold the word of an id.
LEMMA BitsGrow ==
  ASSUME NEW bcap \in BitCapacities, NEW id \in Ids
  PROVE  LET words == id \div BITS_SIZE + 1
             grown == IF words <= bcap THEN bcap
                      ELSE ResizeCapacity(bcap, bcap, Capacity(words))
         IN /\ grown \in BitCapacities /\ grown >= bcap
            /\ id \div BITS_SIZE \in Nat /\ id \div BITS_SIZE < grown
  <1>1. id \in Nat
    BY IdIs
  <1> DEFINE w == id \div BITS_SIZE
             words == w + 1
             cw == Capacity(words)
             m == Max({cw, 2, bcap})
             grown == IF words <= bcap THEN bcap ELSE ResizeCapacity(bcap, bcap, cw)
  <1>2. w \in Nat /\ words \in Nat /\ words <= 1024
    <2>1. id <= 65535
      <3>1. id < U16_MAX /\ U16_MAX = 65535
        BY IdIs DEF U16_MAX
      <3> QED
        BY <1>1, <3>1
    <2> QED
      BY <1>1, <2>1 DEF BITS_SIZE
  <1> HIDE DEF w
  <1>3. bcap \in Nat /\ bcap >= 1 /\ bcap <= 1024
    BY BitCapacitiesAre
  <1>4. CASE words <= bcap
    <2>1. grown = bcap /\ w < grown
      BY <1>2, <1>3, <1>4
    <2> HIDE DEF grown
    <2> QED
      BY <1>2, <1>3, <2>1 DEF grown, w
  <1>5. CASE ~(words <= bcap)
    <2>1. 1024 <= U16_MAX /\ U16_MAX \in Nat
      BY DEF U16_MAX
    <2>2. words \in Nat /\ words <= U16_MAX /\ words <= 1024
      BY <1>2, <2>1
    <2>3. cw >= words /\ cw \in BitCapacities
      BY <2>2, CapacityIs DEF BitCapacities
    <2>4. cw \in Nat /\ cw <= 1024 /\ words > bcap
      <3>1. cw \in Nat /\ cw <= 1024
        <4> HIDE DEF cw
        <4> QED
          BY <2>3, BitCapacitiesAre
      <3>2. words > bcap
        <4> HIDE DEF words
        <4> QED
          BY <1>3, <1>5, <2>2
      <3> QED
        BY <3>1, <3>2
    <2> HIDE DEF words, cw
    <2>5. ~(cw <= bcap)
      BY <1>3, <2>2, <2>3, <2>4
    <2>6. m \in {cw, 2, bcap} /\ m >= cw
      BY <1>3, <2>4, GreatestOfThree
    <2>7. grown = Capacity(m)
      BY <1>5, <2>5 DEF ResizeCapacity
    <2> HIDE DEF m, grown
    <2>8. m \in Nat /\ m <= U16_MAX /\ m <= 1024
      BY <1>3, <2>1, <2>4, <2>6
    <2>9. grown \in BitCapacities /\ grown >= m
      BY <2>7, <2>8, CapacityIs DEF BitCapacities
    <2>10. grown \in Nat
      BY <2>9, BitCapacitiesAre
    <2>11. grown >= words /\ grown >= bcap
      BY <1>3, <2>2, <2>3, <2>4, <2>6, <2>8, <2>9, <2>10
    <2>12. w < grown
      BY <1>2, <2>10, <2>11 DEF words
    <2> QED
      BY <1>2, <2>9, <2>11, <2>12 DEF grown, words, cw, w
  <1> QED
    BY <1>4, <1>5

-----------------------------------------------------------------------------
(* The ids' bounds *)

\* The least element of a set is the one below all,
LEMMA LeastIs ==
  ASSUME NEW S \in SUBSET Nat, NEW m \in S, \A n \in S : m <= n
  PROVE  Min(S) = m
  <1>1. Min(S) \in S /\ \A n \in S : Min(S) <= n
    BY LeastOf
  <1> DEFINE k == Min(S)
  <1>2. k \in Nat /\ m \in Nat /\ k <= m /\ m <= k
    BY <1>1
  <1> HIDE DEF k
  <1>3. k = m
    BY <1>2
  <1> QED
    BY <1>3 DEF k

\* and the greatest the one above all.
LEMMA GreatestIs ==
  ASSUME NEW S \in SUBSET Nat, NEW m \in S, \A n \in S : n <= m
  PROVE  Max(S) = m
  <1>1. IsFiniteSet(S)
    BY FS_BoundedSetOfNaturals
  <1>2. Max(S) \in S /\ \A n \in S : n <= Max(S)
    BY <1>1, GreatestOf
  <1> DEFINE k == Max(S)
  <1>3. k \in Nat /\ m \in Nat /\ k <= m /\ m <= k
    BY <1>2
  <1> HIDE DEF k
  <1>4. k = m
    BY <1>3
  <1> QED
    BY <1>4 DEF k

\* Any ids are finitely many numbers.
LEMMA IdsAre ==
  ASSUME NEW J \in SUBSET Ids
  PROVE  J \in SUBSET Nat /\ IsFiniteSet(J) /\ \A x \in J : x # 0
  <1>1. \A x \in J : x \in Nat /\ x # 0 /\ x < U16_MAX
    BY IdIs
  <1>2. J \in SUBSET Nat /\ U16_MAX \in Nat /\ \A x \in J : x <= U16_MAX
    BY <1>1 DEF U16_MAX
  <1>3. IsFiniteSet(J)
    BY <1>2, FS_BoundedSetOfNaturals
  <1> QED
    BY <1>1, <1>2, <1>3

\* The bit set, and the least and greatest id, agree with the ids J.
Agrees(J, b, lo, hi, bcap) ==
  /\ b = J
  /\ lo = IF J = {} THEN 0 ELSE Min(J)
  /\ hi = IF J = {} THEN 0 ELSE Max(J)
  /\ hi \div BITS_SIZE < bcap

\* Words are in the order of their ids.
LEMMA WordsAre ==
  ASSUME NEW a \in Nat, NEW b \in Nat, a <= b
  PROVE  a \div BITS_SIZE \in Nat /\ a \div BITS_SIZE <= b \div BITS_SIZE
  BY DEF BITS_SIZE

\* The least and greatest id that bits!(@set) leaves are ids.
LEMMA SetBitTyped ==
  ASSUME NEW lo \in Ids \cup {0}, NEW hi \in Ids \cup {0}, NEW id \in Ids
  PROVE  /\ (IF lo = 0 THEN id ELSE Min({lo, id})) \in Ids
         /\ Max({hi, id}) \in Ids
  <1>1. lo \in Nat /\ hi \in Nat /\ id \in Nat /\ id # 0
    BY IdIs
  <1>2. Min({lo, id}) \in {lo, id} /\ Max({hi, id}) \in {hi, id} /\ Max({hi, id}) >= id
    BY <1>1, LeastOfTwo, GreatestOfTwo
  <1> DEFINE m == Max({hi, id})
             k == Min({lo, id})
  <1> HIDE DEF m, k
  <1>3. m \in Ids /\ (lo # 0 => k \in Ids)
    BY <1>1, <1>2 DEF m, k
  <1> QED
    BY <1>3 DEF m, k

\* bits!(@set) for one more id, or for one that is there.
LEMMA SetBitAgrees ==
  ASSUME NEW J \in SUBSET Ids, NEW b, NEW lo, NEW hi, NEW bcap \in BitCapacities,
         Agrees(J, b, lo, hi, bcap), NEW id \in Ids,
         NEW grown \in BitCapacities, grown >= bcap, id \div BITS_SIZE < grown
  PROVE  Agrees(J \cup {id}, b \cup {id}, IF lo = 0 THEN id ELSE Min({lo, id}),
                Max({hi, id}), grown)
  <1> DEFINE K == J \cup {id}
  <1>1. id \in Nat /\ id # 0 /\ K \in SUBSET Nat /\ J \in SUBSET Nat /\ IsFiniteSet(J)
        /\ \A x \in J : x # 0
    BY IdIs, IdsAre
  <1>2. bcap \in Nat /\ grown \in Nat /\ id \in K
    BY BitCapacitiesAre
  <1>3. CASE J = {}
    <2>1. lo = 0 /\ hi = 0 /\ K = {id} /\ b \cup {id} = K
      BY <1>3 DEF Agrees
    <2> HIDE DEF K
    <2>2. Min(K) = id /\ Max(K) = id
      <3>1. \A n \in K : n = id
        BY <2>1
      <3>2. \A n \in K : id <= n /\ n <= id
        BY <1>1, <3>1
      <3> QED
        BY <1>1, <1>2, <3>2, LeastIs, GreatestIs
    <2>3. Max({hi, id}) = id
      <3>1. {hi, id} \in SUBSET Nat /\ \A n \in {hi, id} : n <= id
        BY <1>1, <2>1
      <3> QED
        BY <3>1, GreatestIs
    <2>4. K # {}
      BY <1>2
    <2>5. Agrees(K, b \cup {id}, id, Max({hi, id}), grown)
      BY <2>1, <2>2, <2>3, <2>4 DEF Agrees
    <2> QED
      BY <2>1, <2>5 DEF K
  <1>4. CASE J # {}
    <2>1. lo = Min(J) /\ hi = Max(J) /\ b = J /\ hi \div BITS_SIZE < bcap
      BY <1>4 DEF Agrees
    <2>2. /\ lo \in J /\ \A n \in J : lo <= n
          /\ hi \in J /\ \A n \in J : n <= hi
      BY <1>1, <1>4, <2>1, LeastOf, GreatestOf
    <2>3. lo \in Nat /\ hi \in Nat /\ lo # 0
      BY <1>1, <2>2
    <2> DEFINE m == Min({lo, id})
               k == Max({hi, id})
    <2>4. m \in {lo, id} /\ m <= lo /\ m <= id
      BY <1>1, <2>3, LeastOfTwo
    <2>5. k \in {hi, id} /\ k >= hi /\ k >= id
      BY <1>1, <2>3, GreatestOfTwo
    <2> HIDE DEF m, k
    <2>6. m \in K /\ k \in K /\ m \in Nat /\ k \in Nat
      BY <1>1, <2>2, <2>3, <2>4, <2>5
    <2>7. \A n \in K : m <= n /\ n <= k
      BY <1>1, <2>2, <2>3, <2>4, <2>5, <2>6
    <2> HIDE DEF K
    <2>8. Min(K) = m /\ Max(K) = k
      BY <1>1, <2>6, <2>7, LeastIs, GreatestIs
    <2>9. k \div BITS_SIZE < grown
      <3>1. hi \div BITS_SIZE \in Nat
        BY <2>3, WordsAre
      <3>2. hi \div BITS_SIZE < grown
        <4> DEFINE w == hi \div BITS_SIZE
        <4>1. w \in Nat /\ w < bcap
          BY <2>1, <3>1
        <4> HIDE DEF w
        <4>2. w < grown
          BY <1>2, <4>1
        <4> QED
          BY <4>2 DEF w
      <3>3. k = hi \/ k = id
        BY <2>5
      <3> QED
        BY <3>2, <3>3
    <2>10. K # {}
      BY <2>6
    <2>11. b \cup {id} = K
      BY <2>1 DEF K
    <2>12. Agrees(K, b \cup {id}, m, k, grown)
      BY <2>8, <2>9, <2>10, <2>11 DEF Agrees
    <2> QED
      BY <2>3, <2>12 DEF K, m, k
  <1> QED
    BY <1>3, <1>4

\* The least and greatest id that delete_bit() leaves are ids or 0.
LEMMA DeleteBitTyped ==
  ASSUME NEW left \in SUBSET Ids, NEW lo \in Ids \cup {0}, NEW hi \in Ids \cup {0}, NEW id
  PROVE  /\ MaxAfter(left, id, lo, hi) \in Ids \cup {0}
         /\ MinAfter(left, id, lo, hi) \in Ids \cup {0}
  <1> DEFINE T == Between(left, lo, hi)
  <1>1. T \in SUBSET left
    BY DEF Between
  <1>2. T \in SUBSET Nat /\ IsFiniteSet(T)
    BY <1>1, IdsAre
  <1> HIDE DEF T
  <1>3. T # {} => Max(T) \in T /\ Min(T) \in T
    BY <1>2, LeastOf, GreatestOf
  <1>4. MaxAfter(left, id, lo, hi) \in {hi, Max(T)} /\ (T = {} => MaxAfter(left, id, lo, hi) = hi)
    BY DEF MaxAfter, T
  <1>5. MinAfter(left, id, lo, hi) \in {lo, Min(T)} /\ (T = {} => MinAfter(left, id, lo, hi) = lo)
    BY DEF MinAfter, T
  <1> QED
    BY <1>1, <1>3, <1>4, <1>5

\* delete_bit() of an id that is there.
LEMMA DeleteBitAgrees ==
  ASSUME NEW J \in SUBSET Ids, NEW b, NEW lo, NEW hi, NEW bcap \in BitCapacities,
         Agrees(J, b, lo, hi, bcap), NEW id \in J, NEW left, left = b \ {id},
         NEW n, n = 0 <=> left = {}, NEW max, max = MaxAfter(left, id, lo, hi)
  PROVE  Agrees(J \ {id}, left, IF n = 0 THEN 0 ELSE MinAfter(left, id, lo, max),
                IF n = 0 THEN 0 ELSE max, bcap)
  <1>1. J \in SUBSET Nat /\ IsFiniteSet(J) /\ left = J \ {id} /\ J # {}
    BY IdsAre DEF Agrees
  <1>2. bcap \in Nat /\ bcap >= 1
    BY BitCapacitiesAre
  <1>3. CASE left = {}
    <2>1. 0 \div BITS_SIZE < bcap
      <3>1. 0 \div BITS_SIZE = 0
        BY DEF BITS_SIZE
      <3> QED
        BY <1>2, <3>1
    <2> QED
      BY <1>1, <1>3, <2>1 DEF Agrees
  <1>4. CASE left # {}
    <2>1. lo = Min(J) /\ hi = Max(J) /\ hi \div BITS_SIZE < bcap
      BY <1>1 DEF Agrees
    <2>2. /\ lo \in J /\ \A x \in J : lo <= x
          /\ hi \in J /\ \A x \in J : x <= hi
      BY <1>1, <2>1, LeastOf, GreatestOf
    <2>3. lo \in Nat /\ hi \in Nat /\ left \in SUBSET Nat /\ IsFiniteSet(left)
      BY <1>1, <2>2, FS_RemoveElement
    <2>4. ASSUME NEW c \in Nat, \A x \in left : x <= c
          PROVE  Between(left, lo, c) = left
      <3> SUFFICES ASSUME NEW x \in left
                   PROVE  x \div BITS_SIZE \in lo \div BITS_SIZE .. c \div BITS_SIZE
        BY DEF Between
      <3>1. x \in Nat /\ lo <= x /\ x <= c
        BY <1>1, <2>2, <2>3, <2>4
      <3>2. /\ lo \div BITS_SIZE \in Nat /\ lo \div BITS_SIZE <= x \div BITS_SIZE
            /\ x \div BITS_SIZE \in Nat /\ x \div BITS_SIZE <= c \div BITS_SIZE
            /\ c \div BITS_SIZE \in Nat
        BY <2>3, <3>1, WordsAre
      <3> DEFINE u == lo \div BITS_SIZE
                 v == x \div BITS_SIZE
                 w == c \div BITS_SIZE
      <3>3. u \in Nat /\ v \in Nat /\ w \in Nat /\ u <= v /\ v <= w
        BY <3>2
      <3> HIDE DEF u, v, w
      <3>4. v \in u .. w
        BY <3>3
      <3> QED
        BY <3>4 DEF u, v, w
    <2>5. \A x \in left : x <= hi
      BY <1>1, <2>2
    <2>6. Max(left) \in left /\ \A x \in left : x <= Max(left)
      BY <1>4, <2>3, GreatestOf
    <2>7. max = Max(left)
      <3>1. Between(left, lo, hi) = left
        BY <2>3, <2>4, <2>5
      <3>2. max = IF id = hi THEN Max(left) ELSE hi
        BY <1>4, <3>1 DEF MaxAfter
      <3>3. ASSUME id # hi PROVE Max(left) = hi
        <4>1. hi \in left
          BY <1>1, <2>2, <3>3
        <4> QED
          BY <2>3, <2>5, <4>1, GreatestIs
      <3> QED
        BY <3>2, <3>3
    <2>8. MinAfter(left, id, lo, max) = Min(left)
      <3>1. Between(left, lo, max) = left
        <4>1. max \in Nat /\ \A x \in left : x <= max
          BY <2>3, <2>6, <2>7
        <4> QED
          BY <2>4, <4>1
      <3>2. MinAfter(left, id, lo, max) = IF id = lo THEN Min(left) ELSE lo
        BY <1>4, <3>1 DEF MinAfter
      <3>3. ASSUME id # lo PROVE Min(left) = lo
        <4>1. lo \in left /\ \A x \in left : lo <= x
          BY <1>1, <2>2, <3>3
        <4> QED
          BY <2>3, <4>1, LeastIs
      <3> QED
        BY <3>2, <3>3
    <2>9. max \div BITS_SIZE < bcap
      <3>1. max \in Nat /\ max <= hi
        BY <2>3, <2>5, <2>6, <2>7
      <3>2. /\ max \div BITS_SIZE \in Nat /\ max \div BITS_SIZE <= hi \div BITS_SIZE
            /\ hi \div BITS_SIZE \in Nat
        BY <2>3, <3>1, WordsAre
      <3> DEFINE u == max \div BITS_SIZE
                 v == hi \div BITS_SIZE
      <3>3. u \in Nat /\ v \in Nat /\ u <= v /\ v < bcap
        BY <2>1, <3>2
      <3> HIDE DEF u, v
      <3>4. u < bcap
        BY <1>2, <3>3
      <3> QED
        BY <3>4 DEF u
    <2>10. n # 0
      BY <1>4
    <2> QED
      BY <1>1, <1>4, <2>7, <2>8, <2>9, <2>10 DEF Agrees
  <1> QED
    BY <1>3, <1>4

-----------------------------------------------------------------------------
(* What a call does to the entries *)

\* The entries of e are those of d with that of id set, or without it.
Sets(e, d, id, val) ==
  EntriesOf(e) = {x \in EntriesOf(d) : x.id # id} \cup {Entry(id, val)}
\* The entries of e are those of d without that of id.
Drops(e, d, id) == EntriesOf(e) = {x \in EntriesOf(d) : x.id # id}

\* What set() stores.
LEMMA NewEntryIs ==
  ASSUME NEW id \in Ids, NEW val \in Vals
  PROVE  Entry(id, val) \in Entries /\ Entry(id, val).id = id /\ Entry(id, val).val = val
  BY DEF Entry, Entries

\* An entry replaced by one of the same id.
LEMMA UpdateIs ==
  ASSUME NEW d, IsSlots(d), NEW i \in DOMAIN d, NEW id \in Ids, d[i].id = id,
         NEW val \in Vals
  PROVE  LET e == [d EXCEPT ![i] = Entry(id, val)]
         IN /\ IsSlots(e)
            /\ DOMAIN e = DOMAIN d
            /\ \A j \in DOMAIN d : e[j].id = d[j].id
            /\ ~Twice(d, DOMAIN d) => Sets(e, d, id, val)
  <1> DEFINE e == [d EXCEPT ![i] = Entry(id, val)]
             x == Entry(id, val)
  <1>1. x \in Entries /\ x.id = id
    BY NewEntryIs
  <1>2. /\ d = [j \in DOMAIN d |-> d[j]] /\ \A j \in DOMAIN d : d[j] \in Entries
        /\ DOMAIN d \in SUBSET Nat /\ IsFiniteSet(DOMAIN d)
    BY DEF IsSlots
  <1> HIDE DEF x
  <1>3. /\ DOMAIN e = DOMAIN d /\ e = [j \in DOMAIN e |-> e[j]]
        /\ e[i] = x /\ \A j \in DOMAIN d : j # i => e[j] = d[j]
    BY <1>2 DEF x
  <1> HIDE DEF e
  <1>4. IsSlots(e)
    BY <1>1, <1>2, <1>3 DEF IsSlots
  <1>5. \A j \in DOMAIN d : e[j].id = d[j].id
    BY <1>1, <1>3
  <1>6. ASSUME ~Twice(d, DOMAIN d) PROVE Sets(e, d, id, val)
    <2>1. \A j \in DOMAIN d : d[j].id = id => j = i
      BY <1>6 DEF Twice
    <2>2. ASSUME NEW j \in DOMAIN d
          PROVE  e[j] = x \/ (e[j] = d[j] /\ d[j].id # id)
      BY <1>3, <2>1
    <2>3. ASSUME NEW j \in DOMAIN d, d[j].id # id PROVE d[j] = e[j]
      BY <1>3, <2>3
    <2>4. e[i] = x /\ i \in DOMAIN d /\ DOMAIN e = DOMAIN d
      BY <1>3
    <2>5. \A y : y \in EntriesOf(e) <=> \E j \in DOMAIN d : y = e[j]
      BY <2>4 DEF EntriesOf
    <2>6. \A y : y \in EntriesOf(d) <=> \E j \in DOMAIN d : y = d[j]
      BY DEF EntriesOf
    <2>7. \A y : y \in EntriesOf(e) <=> (y \in EntriesOf(d) /\ y.id # id) \/ y = x
      BY <2>2, <2>3, <2>4, <2>5, <2>6
    <2>8. EntriesOf(e) = {y \in EntriesOf(d) : y.id # id} \cup {x}
      BY <2>7
    <2> QED
      BY <2>8 DEF Sets, x
  <1> QED
    BY <1>3, <1>4, <1>5, <1>6 DEF e

\* An entry of an id that has none put into a free slot.
LEMMA AddIs ==
  ASSUME NEW d, IsSlots(d), NEW i \in Nat, i \notin DOMAIN d, NEW id \in Ids, NEW val \in Vals
  PROVE  LET e == Put(d, i, Entry(id, val))
         IN /\ IsSlots(e)
            /\ DOMAIN e = DOMAIN d \cup {i}
            /\ Cardinality(DOMAIN e) = Cardinality(DOMAIN d) + 1
            /\ e[i] = Entry(id, val)
            /\ \A j \in DOMAIN d : e[j] = d[j]
            /\ ~Twice(d, DOMAIN d) /\ (\A j \in DOMAIN d : d[j].id # id) =>
                 ~Twice(e, DOMAIN e) /\ Sets(e, d, id, val)
  <1> DEFINE e == Put(d, i, Entry(id, val))
             x == Entry(id, val)
  <1>1. x \in Entries /\ x.id = id
    BY NewEntryIs
  <1>2. /\ d = [j \in DOMAIN d |-> d[j]] /\ \A j \in DOMAIN d : d[j] \in Entries
        /\ DOMAIN d \in SUBSET Nat /\ IsFiniteSet(DOMAIN d)
    BY DEF IsSlots
  <1> HIDE DEF x
  <1>3. /\ DOMAIN e = DOMAIN d \cup {i} /\ e = [j \in DOMAIN e |-> e[j]]
        /\ e[i] = x /\ \A j \in DOMAIN d : e[j] = d[j]
    BY <1>2 DEF Put, x
  <1> HIDE DEF e
  <1>4. IsFiniteSet(DOMAIN e) /\ Cardinality(DOMAIN e) = Cardinality(DOMAIN d) + 1
    BY <1>2, <1>3, FS_AddElement
  <1>5. IsSlots(e)
    <2>1. DOMAIN e \in SUBSET Nat /\ \A j \in DOMAIN e : e[j] \in Entries
      BY <1>1, <1>2, <1>3
    <2> QED
      BY <1>3, <1>4, <2>1 DEF IsSlots
  <1>6. ASSUME ~Twice(d, DOMAIN d), \A j \in DOMAIN d : d[j].id # id
        PROVE  ~Twice(e, DOMAIN e) /\ Sets(e, d, id, val)
    <2>1. ~Twice(e, DOMAIN e)
      BY <1>1, <1>3, <1>6 DEF Twice
    <2>2. \A y : y \in EntriesOf(e) <=> \E j \in DOMAIN d \cup {i} : y = e[j]
      BY <1>3 DEF EntriesOf
    <2>3. \A y : y \in EntriesOf(d) <=> \E j \in DOMAIN d : y = d[j]
      BY DEF EntriesOf
    <2>4. \A y : y \in EntriesOf(e) <=> (y \in EntriesOf(d) /\ y.id # id) \/ y = x
      BY <1>3, <1>6, <2>2, <2>3
    <2>5. EntriesOf(e) = {y \in EntriesOf(d) : y.id # id} \cup {x}
      BY <2>4
    <2> QED
      BY <2>1, <2>5 DEF Sets, x
  <1> QED
    BY <1>3, <1>4, <1>5, <1>6 DEF e, x

\* A slot emptied.
LEMMA RemoveIs ==
  ASSUME NEW d, IsSlots(d), NEW k \in DOMAIN d
  PROVE  LET e == Restrict(d, DOMAIN d \ {k})
         IN /\ IsSlots(e)
            /\ DOMAIN e = DOMAIN d \ {k}
            /\ Cardinality(DOMAIN e) = Cardinality(DOMAIN d) - 1
            /\ \A j \in DOMAIN e : e[j] = d[j]
            /\ ~Twice(d, DOMAIN d) => ~Twice(e, DOMAIN e) /\ Drops(e, d, d[k].id)
  <1> DEFINE e == Restrict(d, DOMAIN d \ {k})
  <1>1. /\ \A j \in DOMAIN d : d[j] \in Entries
        /\ DOMAIN d \in SUBSET Nat /\ IsFiniteSet(DOMAIN d)
    BY DEF IsSlots
  <1>2. /\ DOMAIN e = DOMAIN d \ {k} /\ e = [j \in DOMAIN e |-> e[j]]
        /\ \A j \in DOMAIN e : e[j] = d[j]
    BY DEF Restrict
  <1> HIDE DEF e
  <1>3. IsFiniteSet(DOMAIN e) /\ Cardinality(DOMAIN e) = Cardinality(DOMAIN d) - 1
    BY <1>1, <1>2, FS_RemoveElement
  <1>4. IsSlots(e)
    <2>1. DOMAIN e \in SUBSET Nat /\ \A j \in DOMAIN e : e[j] \in Entries
      BY <1>1, <1>2
    <2> QED
      BY <1>2, <1>3, <2>1 DEF IsSlots
  <1>5. ASSUME ~Twice(d, DOMAIN d) PROVE ~Twice(e, DOMAIN e) /\ Drops(e, d, d[k].id)
    <2>1. ~Twice(e, DOMAIN e)
      BY <1>2, <1>5 DEF Twice
    <2>2. \A j \in DOMAIN d : j # k => d[j].id # d[k].id
      BY <1>5 DEF Twice
    <2>3. \A y : y \in EntriesOf(e) <=> \E j \in DOMAIN d \ {k} : y = d[j]
      BY <1>2 DEF EntriesOf
    <2>4. \A y : y \in EntriesOf(d) <=> \E j \in DOMAIN d : y = d[j]
      BY DEF EntriesOf
    <2>5. \A y : y \in EntriesOf(e) <=> y \in EntriesOf(d) /\ y.id # d[k].id
      BY <2>2, <2>3, <2>4
    <2>6. EntriesOf(e) = {y \in EntriesOf(d) : y.id # d[k].id}
      BY <2>5
    <2> QED
      BY <2>1, <2>6 DEF Drops
  <1> QED
    BY <1>2, <1>3, <1>4, <1>5 DEF e

\* What is put in by rearranging what was put in, or taken out.
LEMMA RearrangedSets ==
  ASSUME NEW d, NEW e, NEW g, NEW id, NEW val, Rearranges(g, e)
  PROVE  /\ Sets(e, d, id, val) => Sets(g, d, id, val)
         /\ Drops(e, d, id) => Drops(g, d, id)
  BY DEF Rearranges, Sets, Drops

\* The ids of slots are those of their entries.
LEMMA SetsIds ==
  ASSUME NEW d, NEW e, NEW id \in Ids, NEW val \in Vals
  PROVE  /\ Sets(e, d, id, val) => IdsAt(e, DOMAIN e) = IdsAt(d, DOMAIN d) \cup {id}
         /\ Drops(e, d, id) => IdsAt(e, DOMAIN e) = IdsAt(d, DOMAIN d) \ {id}
  <1>1. Entry(id, val).id = id
    BY NewEntryIs
  <1>2. \A x : x \in IdsAt(d, DOMAIN d) <=> \E y \in EntriesOf(d) : x = y.id
    BY DEF IdsAt, EntriesOf
  <1>3. \A x : x \in IdsAt(e, DOMAIN e) <=> \E y \in EntriesOf(e) : x = y.id
    BY DEF IdsAt, EntriesOf
  <1>4. ASSUME Sets(e, d, id, val)
        PROVE  IdsAt(e, DOMAIN e) = IdsAt(d, DOMAIN d) \cup {id}
    <2>1. \A y : y \in EntriesOf(e) <=> (y \in EntriesOf(d) /\ y.id # id) \/ y = Entry(id, val)
      BY <1>4 DEF Sets
    <2>2. \A x : x \in IdsAt(e, DOMAIN e) <=> x \in IdsAt(d, DOMAIN d) \/ x = id
      BY <1>1, <1>2, <1>3, <2>1
    <2> QED
      BY <2>2
  <1>5. ASSUME Drops(e, d, id)
        PROVE  IdsAt(e, DOMAIN e) = IdsAt(d, DOMAIN d) \ {id}
    <2>1. \A y : y \in EntriesOf(e) <=> y \in EntriesOf(d) /\ y.id # id
      BY <1>5 DEF Drops
    <2>2. \A x : x \in IdsAt(e, DOMAIN e) <=> x \in IdsAt(d, DOMAIN d) /\ x # id
      BY <1>2, <1>3, <2>1
    <2> QED
      BY <2>2
  <1> QED
    BY <1>4, <1>5

-----------------------------------------------------------------------------
(* The shape of the array, and where the entries are *)

\* The slots d as the fields next to them say they are.
ShapeOf(d, n, end, h, dis, cap) ==
  /\ IsSlots(d)
  /\ h \in Nat /\ h # 0 /\ h <= U16_MAX /\ dis \in BOOLEAN
  /\ end \in Nat /\ end # 0 /\ cap \in Capacities
  /\ \A i \in DOMAIN d : i # 0 /\ i < end
  /\ n = Cardinality(DOMAIN d)
  /\ n = 0 => end = 1
  /\ dis => end <= h /\ h <= cap /\ \A i \in DOMAIN d : d[i].id = i
  /\ ~dis => /\ h <= MAX_HASH /\ end < h + MAX_COLLISION_PACK_DISTANCE
             /\ h = 1 => n = 0
             /\ h # 1 => h + MAX_COLLISION_PACK_DISTANCE <= cap

\* Each id has one entry, in reach of its home slot, which is occupied.
SoundOf(d, h) == ~Twice(d, DOMAIN d) /\ Near(d, h) /\ Probes(d, h)

\* The shape of the array as it is now.
ShapeIs == ShapeOf(data, data_slots, data_slots_end, hash, hash_disabled, data_capacity)

\* An empty slot has no id of a caller's.
LEMMA IdAtIs ==
  ASSUME NEW d, NEW i, NEW id \in Ids
  PROVE  IdAt(d, i) = id <=> i \in DOMAIN d /\ d[i].id = id
  <1>1. id # U16_MAX
    <2>1. id \in Nat /\ id < U16_MAX /\ U16_MAX \in Nat
      BY IdIs DEF U16_MAX
    <2> QED
      BY <2>1
  <1> QED
    BY <1>1 DEF IdAt, INVALID_SLOT_ID

\* The slots of a window.
LEMMA WindowIs ==
  ASSUME NEW home \in Nat, NEW len \in Nat, NEW i
  PROVE  i \in Window(home, len) <=>
           /\ i \in Nat /\ home < i
           /\ i < home + MAX_COLLISION_PACK_DISTANCE /\ i < len
  <1> DEFINE far == home + MAX_COLLISION_PACK_DISTANCE
             m == Min({far, len})
  <1>1. far \in Nat
    BY DEF MAX_COLLISION_PACK_DISTANCE
  <1> HIDE DEF far
  <1>2. m \in {far, len} /\ m <= far /\ m <= len
    BY <1>1, LeastOfTwo
  <1> HIDE DEF m
  <1>3. i \in home + 1 .. m - 1 <=> i \in Nat /\ home < i /\ i < far /\ i < len
    BY <1>1, <1>2
  <1> QED
    BY <1>3 DEF Window, m, far

\* The home slot and the slots after it that a call looks at.
LEMMA ReachIs ==
  ASSUME ShapeIs, NEW id \in Ids
  PROVE  /\ Home(id) \in Nat /\ Home(id) < hash /\ (id < hash => Home(id) = id)
         /\ DataHashLen(data_slots) \in Nat
         /\ \A i \in Reach(id) : /\ i \in Nat /\ Home(id) < i
                                 /\ i < Home(id) + MAX_COLLISION_PACK_DISTANCE
                                 /\ data_slots # 0
         /\ \A i \in DOMAIN data :
              Home(id) < i /\ i < Home(id) + MAX_COLLISION_PACK_DISTANCE => i \in Reach(id)
  <1>1. hash \in Nat /\ hash # 0
    BY DEF ShapeIs, ShapeOf
  <1>2. Home(id) \in Nat /\ Home(id) < hash /\ (id < hash => Home(id) = id)
    BY <1>1, HomeIs DEF Home
  <1> DEFINE len == DataHashLen(data_slots)
             home == Home(id)
  <1>3. /\ data_slots = 0 => len = 1
        /\ data_slots # 0 => len = hash + MAX_COLLISION_PACK_DISTANCE
    BY DEF DataHashLen
  <1> HIDE DEF len, home
  <1>4. len \in Nat
    BY <1>1, <1>3 DEF MAX_COLLISION_PACK_DISTANCE
  <1>5. Reach(id) = Window(home, len)
    BY DEF Reach, home, len
  <1>6. home \in Nat /\ home < hash
    BY <1>2 DEF home
  <1>7. \A i \in Reach(id) : /\ i \in Nat /\ home < i
                             /\ i < home + MAX_COLLISION_PACK_DISTANCE /\ i < len
    BY <1>4, <1>5, <1>6, WindowIs
  <1>8. \A i \in Reach(id) : data_slots # 0
    BY <1>3, <1>6, <1>7
  <1>9. ASSUME NEW i \in DOMAIN data, home < i, i < home + MAX_COLLISION_PACK_DISTANCE
        PROVE  i \in Reach(id)
    <2>1. i \in Nat /\ data_slots # 0
      <3>1. data_slots = Cardinality(DOMAIN data) /\ IsFiniteSet(DOMAIN data)
            /\ DOMAIN data \in SUBSET Nat
        BY DEF ShapeIs, ShapeOf, IsSlots
      <3> QED
        BY <3>1, FS_EmptySet
    <2>2. len = hash + MAX_COLLISION_PACK_DISTANCE
      BY <1>3, <2>1
    <2>3. i < len
      BY <1>1, <1>6, <1>9, <2>1, <2>2 DEF MAX_COLLISION_PACK_DISTANCE
    <2> QED
      BY <1>4, <1>5, <1>6, <1>9, <2>1, <2>3, WindowIs
  <1> QED
    BY <1>2, <1>4, <1>7, <1>8, <1>9 DEF home, len

\* An id that set() finds neither at home nor behind is not stored.
LEMMA NotStored ==
  ASSUME ShapeIs, SoundOf(data, hash), NEW id \in Ids, ~AtHome(id),
         HomeFree(id) \/ Packed(id) = {}
  PROVE  \A j \in DOMAIN data : data[j].id # id
  <1> SUFFICES ASSUME NEW j \in DOMAIN data, data[j].id = id PROVE FALSE
    OBVIOUS
  <1>1. Home(id) \in Nat /\ j \in Nat /\ j # 0
    BY ReachIs DEF ShapeIs, ShapeOf, IsSlots
  <1>2. Home(id) <= j /\ j < Home(id) + MAX_COLLISION_PACK_DISTANCE
    BY DEF SoundOf, Near, Home
  <1>3. Home(id) = 0 \/ Home(id) \in DOMAIN data
    BY DEF SoundOf, Probes, Home
  <1>4. j # Home(id)
    BY IdAtIs DEF AtHome
  <1>5. j \in Reach(id)
    BY <1>1, <1>2, <1>4, ReachIs
  <1>6. j \in Packed(id)
    BY <1>5, IdAtIs DEF Packed
  <1> QED
    BY <1>3, <1>6 DEF HomeFree

\* Slots with the ids of others.
LEMMA SameIdsKept ==
  ASSUME NEW d, NEW e, DOMAIN e = DOMAIN d, \A j \in DOMAIN d : e[j].id = d[j].id
  PROVE  /\ \A h : Near(d, h) => Near(e, h)
         /\ \A h : Probes(d, h) => Probes(e, h)
         /\ ~Twice(d, DOMAIN d) => ~Twice(e, DOMAIN e)
  <1>1. \A h : Near(d, h) => Near(e, h)
    BY DEF Near
  <1>2. \A h : Probes(d, h) => Probes(e, h)
    BY DEF Probes
  <1>3. ~Twice(d, DOMAIN d) => ~Twice(e, DOMAIN e)
    BY DEF Twice
  <1> QED
    BY <1>1, <1>2, <1>3

\* Replacing an entry by one of the same id.
LEMMA UpdateKeeps ==
  ASSUME NEW d, NEW n, NEW end, NEW h, NEW dis, NEW cap, ShapeOf(d, n, end, h, dis, cap),
         NEW i \in DOMAIN d, NEW id \in Ids, d[i].id = id, NEW val \in Vals
  PROVE  LET e == [d EXCEPT ![i] = Entry(id, val)]
         IN /\ ShapeOf(e, n, end, h, dis, cap)
            /\ SoundOf(d, h) => SoundOf(e, h) /\ Sets(e, d, id, val)
  <1> DEFINE e == [d EXCEPT ![i] = Entry(id, val)]
  <1>1. IsSlots(d)
    BY DEF ShapeOf
  <1>2. /\ IsSlots(e)
        /\ DOMAIN e = DOMAIN d
        /\ \A j \in DOMAIN d : e[j].id = d[j].id
        /\ ~Twice(d, DOMAIN d) => Sets(e, d, id, val)
    BY <1>1, UpdateIs
  <1> HIDE DEF e
  <1>3. ShapeOf(e, n, end, h, dis, cap)
    BY <1>2 DEF ShapeOf
  <1>4. SoundOf(d, h) => SoundOf(e, h) /\ Sets(e, d, id, val)
    BY <1>2, SameIdsKept DEF SoundOf
  <1> QED
    BY <1>3, <1>4 DEF e

-----------------------------------------------------------------------------
(* set *)

\* What a call of set(id, val) has done when it returns.
SetDone(id, val) ==
  /\ ShapeIs'
  /\ SoundOf(data, hash) /\ ~Displaces(id) =>
       SoundOf(data', hash') /\ Sets(data', data, id, val)

\* set() of an id that is at home.
LEMMA UpdateFastKeeps ==
  ASSUME ShapeIs, NEW id \in Ids, NEW val \in Vals, UpdateFast(id, val)
  PROVE  SetDone(id, val)
  <1>1. PICK i : i = Home(id)
    OBVIOUS
  <1>2. i \in DOMAIN data /\ data[i].id = id
    BY <1>1, IdAtIs DEF UpdateFast, AtHome
  <1> DEFINE e == [data EXCEPT ![i] = Entry(id, val)]
  <1>3. /\ ShapeOf(e, data_slots, data_slots_end, hash, hash_disabled, data_capacity)
        /\ SoundOf(data, hash) => SoundOf(e, hash) /\ Sets(e, data, id, val)
    BY <1>2, UpdateKeeps DEF ShapeIs
  <1>4. data' = e
    BY <1>1 DEF UpdateFast
  <1> HIDE DEF e
  <1>5. UNCHANGED <<hash, hash_disabled, data_capacity, data_slots, data_slots_end>>
    BY DEF UpdateFast
  <1> QED
    BY <1>3, <1>4, <1>5 DEF SetDone, ShapeIs

\* set() of an id that is packed.
LEMMA UpdatePackedKeeps ==
  ASSUME ShapeIs, NEW id \in Ids, NEW val \in Vals, UpdatePacked(id, val)
  PROVE  SetDone(id, val)
  <1>1. PICK i : i = Min(Packed(id))
    OBVIOUS
  <1>2. i \in DOMAIN data /\ data[i].id = id
    <2>1. Packed(id) # {} /\ Packed(id) \in SUBSET Nat
      BY ReachIs DEF UpdatePacked, Packed
    <2>2. i \in Packed(id)
      BY <1>1, <2>1, LeastOf
    <2> QED
      BY <2>2, IdAtIs DEF Packed
  <1> DEFINE e == [data EXCEPT ![i] = Entry(id, val)]
  <1>3. /\ ShapeOf(e, data_slots, data_slots_end, hash, hash_disabled, data_capacity)
        /\ SoundOf(data, hash) => SoundOf(e, hash) /\ Sets(e, data, id, val)
    BY <1>2, UpdateKeeps DEF ShapeIs
  <1>4. data' = e
    BY <1>1 DEF UpdatePacked
  <1> HIDE DEF e
  <1>5. UNCHANGED <<hash, hash_disabled, data_capacity, data_slots, data_slots_end>>
    BY DEF UpdatePacked
  <1> QED
    BY <1>3, <1>4, <1>5 DEF SetDone, ShapeIs

\* set() with ids as indices.
LEMMA UpsertHashDisabledKeeps ==
  ASSUME ShapeIs, NEW id \in Ids, NEW val \in Vals, UpsertHashDisabled(id, val)
  PROVE  SetDone(id, val)
  <1> DEFINE grown == Min({2 * Capacity(id), U16_MAX})
  <1>1. id \in Nat /\ id # 0 /\ id < U16_MAX
    BY IdIs
  <1>2. grown \in Nat /\ grown > id /\ grown <= U16_MAX
    BY GrownIs
  <1>3. /\ hash_disabled
        /\ data_slots_end' = Max({data_slots_end, id + 1})
        /\ data' = Put(data, id, Entry(id, val))
        /\ hash_disabled' = hash_disabled
        /\ id \in DOMAIN data => data_slots' = data_slots
        /\ id \notin DOMAIN data => data_slots' = data_slots + 1
    BY DEF UpsertHashDisabled
  <1>4. /\ id >= hash => hash' = grown /\
          data_capacity' = ResizeCapacity(data_capacity, hash, grown)
        /\ ~(id >= hash) => hash' = hash /\ data_capacity' = data_capacity
    BY DEF UpsertHashDisabled
  <1> HIDE DEF grown
  <1>5. /\ IsSlots(data)
        /\ hash \in Nat /\ hash # 0 /\ hash <= U16_MAX
        /\ data_slots_end \in Nat /\ data_slots_end # 0 /\ data_capacity \in Capacities
        /\ \A i \in DOMAIN data : i # 0 /\ i < data_slots_end
        /\ data_slots = Cardinality(DOMAIN data)
        /\ data_slots_end <= hash /\ hash <= data_capacity
        /\ \A i \in DOMAIN data : data[i].id = i
    BY <1>3 DEF ShapeIs, ShapeOf
  <1>6. /\ IsFiniteSet(DOMAIN data) /\ DOMAIN data \in SUBSET Nat
        /\ data = [i \in DOMAIN data |-> data[i]] /\ \A i \in DOMAIN data : data[i] \in Entries
    BY <1>5 DEF IsSlots
  <1>7. PICK h : h = hash' /\ h \in Nat /\ h > id /\ h >= hash /\ h <= U16_MAX
    BY <1>1, <1>2, <1>4, <1>5
  <1>8. PICK cap : cap = data_capacity' /\ cap \in Capacities /\ cap >= h
    <2>1. CASE id >= hash
      <3>1. /\ ResizeCapacity(data_capacity, hash, grown) \in Capacities
            /\ ResizeCapacity(data_capacity, hash, grown) >= grown
        BY <1>2, <1>5, ResizeIs
      <3> QED
        BY <1>4, <1>7, <2>1, <3>1
    <2>2. CASE ~(id >= hash)
      BY <1>4, <1>5, <1>7, <2>2
    <2> QED
      BY <2>1, <2>2
  <1>9. PICK end : /\ end = data_slots_end' /\ end \in Nat /\ end > id /\ end >= data_slots_end
                   /\ end <= h
    <2> DEFINE k == id + 1
               m == Max({data_slots_end, k})
    <2>1. k \in Nat /\ data_slots_end \in Nat
      BY <1>1, <1>5
    <2> HIDE DEF k
    <2>2. m \in {data_slots_end, k} /\ m >= data_slots_end /\ m >= k
      BY <2>1, GreatestOfTwo
    <2>3. data_slots_end' = m
      BY <1>3 DEF k
    <2> HIDE DEF m
    <2>4. m \in Nat /\ m > id /\ m >= data_slots_end /\ m <= h
      BY <1>1, <1>5, <1>7, <2>1, <2>2 DEF k
    <2> QED
      BY <2>3, <2>4
  <1>10. PICK e : e = Put(data, id, Entry(id, val))
    OBVIOUS
  <1>11. Entry(id, val) \in Entries /\ Entry(id, val).id = id
    BY NewEntryIs
  <1>12. DOMAIN e = DOMAIN data \cup {id}
    BY <1>10 DEF Put
  <1>13. /\ IsSlots(e)
         /\ \A i \in DOMAIN e : e[i].id = i
         /\ data_slots' = Cardinality(DOMAIN e)
         /\ ~Twice(data, DOMAIN data) => Sets(e, data, id, val)
    <2>1. CASE id \in DOMAIN data
      <3>1. e = [data EXCEPT ![id] = Entry(id, val)]
        BY <1>6, <1>10, <2>1 DEF Put
      <3>2. data[id].id = id
        BY <1>5, <2>1
      <3>3. /\ IsSlots(e) /\ \A j \in DOMAIN data : e[j].id = data[j].id
            /\ ~Twice(data, DOMAIN data) => Sets(e, data, id, val)
        <4> DEFINE g == [data EXCEPT ![id] = Entry(id, val)]
        <4>1. /\ IsSlots(g) /\ \A j \in DOMAIN data : g[j].id = data[j].id
              /\ ~Twice(data, DOMAIN data) => Sets(g, data, id, val)
          BY <1>5, <2>1, <3>2, UpdateIs
        <4>2. e = g
          BY <3>1
        <4> HIDE DEF g
        <4> QED
          BY <4>1, <4>2
      <3>4. DOMAIN e = DOMAIN data
        BY <1>12, <2>1
      <3> QED
        BY <1>3, <1>5, <2>1, <3>3, <3>4
    <2>2. CASE id \notin DOMAIN data
      <3>1. \A j \in DOMAIN data : data[j].id # id
        BY <1>5, <2>2
      <3>2. /\ IsSlots(e) /\ Cardinality(DOMAIN e) = Cardinality(DOMAIN data) + 1
            /\ e[id] = Entry(id, val) /\ \A j \in DOMAIN data : e[j] = data[j]
            /\ ~Twice(data, DOMAIN data) => Sets(e, data, id, val)
        <4>1. PICK i \in Nat : i = id
          BY <1>1
        <4> DEFINE g == Put(data, i, Entry(id, val))
        <4>2. IsSlots(data) /\ i \notin DOMAIN data
          BY <1>5, <2>2, <4>1
        <4>3. /\ IsSlots(g)
              /\ DOMAIN g = DOMAIN data \cup {i}
              /\ Cardinality(DOMAIN g) = Cardinality(DOMAIN data) + 1
              /\ g[i] = Entry(id, val)
              /\ \A j \in DOMAIN data : g[j] = data[j]
              /\ ~Twice(data, DOMAIN data) /\ (\A j \in DOMAIN data : data[j].id # id) =>
                   ~Twice(g, DOMAIN g) /\ Sets(g, data, id, val)
          BY <4>2, AddIs
        <4>4. e = g
          BY <1>10, <4>1
        <4> HIDE DEF g
        <4> QED
          BY <3>1, <4>1, <4>3, <4>4
      <3>3. \A i \in DOMAIN e : e[i].id = i
        BY <1>5, <1>11, <1>12, <3>2
      <3> QED
        BY <1>3, <1>5, <2>2, <3>2, <3>3
    <2> QED
      BY <2>1, <2>2
  <1>14. \A i \in DOMAIN e : i # 0 /\ i < end /\ i \in Nat
    BY <1>1, <1>5, <1>6, <1>9, <1>12
  <1>15. data_slots' # 0
    <2>1. id \in DOMAIN e /\ IsFiniteSet(DOMAIN e)
      BY <1>12, <1>13 DEF IsSlots
    <2> QED
      BY <1>13, <2>1, FS_EmptySet
  <1>16. PICK n : n = data_slots' /\ n = Cardinality(DOMAIN e) /\ n # 0
    BY <1>13, <1>15
  <1>17. h # 0 /\ end # 0
    BY <1>1, <1>7, <1>9
  <1>18. ShapeOf(e, n, end, h, TRUE, cap)
    BY <1>7, <1>8, <1>9, <1>13, <1>14, <1>16, <1>17 DEF ShapeOf
  <1>19. SoundOf(e, h)
    <2>1. ASSUME NEW i \in DOMAIN e PROVE e[i].id = i /\ HomeIn(i, h) = i /\ i \in Nat
      <3>1. e[i].id = i /\ e[i] \in Entries
        BY <1>13 DEF IsSlots
      <3>2. i \in Ids /\ i \in Nat /\ i < h
        BY <1>7, <1>9, <1>14, <3>1, EntryIs
      <3> QED
        BY <1>7, <1>17, <3>1, <3>2, HomeIs
    <2>2. Near(e, h)
      BY <2>1 DEF Near, MAX_COLLISION_PACK_DISTANCE
    <2>3. Probes(e, h)
      BY <2>1 DEF Probes
    <2>4. ~Twice(e, DOMAIN e)
      BY <2>1 DEF Twice
    <2> QED
      BY <2>2, <2>3, <2>4 DEF SoundOf
  <1>20. data' = e /\ hash_disabled' = TRUE
    BY <1>3, <1>10
  <1>21. ShapeIs'
    BY <1>7, <1>8, <1>9, <1>16, <1>18, <1>20 DEF ShapeIs
  <1>22. SoundOf(data, hash) => Sets(data', data, id, val)
    BY <1>13, <1>20 DEF SoundOf
  <1> QED
    BY <1>7, <1>19, <1>20, <1>21, <1>22 DEF SetDone

\* A new entry put into a free slot in reach of its home slot.
LEMMA PlaceKeeps ==
  ASSUME NEW d, NEW n, NEW end, NEW h, NEW cap, ShapeOf(d, n, end, h, FALSE, cap), h # 1,
         NEW id \in Ids, NEW val \in Vals, NEW i \in Nat, i \notin DOMAIN d, i # 0,
         HomeIn(id, h) <= i, i < HomeIn(id, h) + MAX_COLLISION_PACK_DISTANCE,
         NEW last \in Nat, last > i, last >= end, last < h + MAX_COLLISION_PACK_DISTANCE
  PROVE  LET e == Put(d, i, Entry(id, val))
         IN /\ ShapeOf(e, n + 1, last, h, FALSE, cap)
            /\ SoundOf(d, h) /\ (\A j \in DOMAIN d : d[j].id # id) =>
                 /\ Sets(e, d, id, val)
                 /\ ~Twice(e, DOMAIN e)
                 /\ Near(e, h)
                 /\ /\ HomeIn(id, h) \in {0, i} \/ HomeIn(id, h) \in DOMAIN d
                    /\ id < h => i = HomeIn(id, h)
                    => SoundOf(e, h)
  <1> DEFINE e == Put(d, i, Entry(id, val))
  <1>1. /\ IsSlots(d) /\ n = Cardinality(DOMAIN d) /\ IsFiniteSet(DOMAIN d)
        /\ DOMAIN d \in SUBSET Nat
        /\ end \in Nat /\ \A j \in DOMAIN d : j # 0 /\ j < end
    BY DEF ShapeOf, IsSlots
  <1>2. /\ IsSlots(e)
        /\ DOMAIN e = DOMAIN d \cup {i}
        /\ Cardinality(DOMAIN e) = Cardinality(DOMAIN d) + 1
        /\ e[i] = Entry(id, val)
        /\ \A j \in DOMAIN d : e[j] = d[j]
        /\ ~Twice(d, DOMAIN d) /\ (\A j \in DOMAIN d : d[j].id # id) =>
             ~Twice(e, DOMAIN e) /\ Sets(e, d, id, val)
    BY <1>1, AddIs
  <1> HIDE DEF e
  <1>3. e[i].id = id
    BY <1>2, NewEntryIs
  <1>4. n \in Nat
    BY <1>1, FS_CardinalityType
  <1>5. \A j \in DOMAIN e : j # 0 /\ j < last
    BY <1>1, <1>2
  <1>6. ShapeOf(e, n + 1, last, h, FALSE, cap)
    <2>1. n + 1 = Cardinality(DOMAIN e) /\ n + 1 # 0 /\ last # 0
      BY <1>1, <1>2, <1>4
    <2> QED
      BY <1>2, <1>5, <2>1 DEF ShapeOf
  <1>7. ASSUME SoundOf(d, h), \A j \in DOMAIN d : d[j].id # id
        PROVE  /\ Sets(e, d, id, val)
               /\ ~Twice(e, DOMAIN e)
               /\ Near(e, h)
               /\ /\ HomeIn(id, h) \in {0, i} \/ HomeIn(id, h) \in DOMAIN d
                  /\ id < h => i = HomeIn(id, h)
                  => SoundOf(e, h)
    <2>1. Sets(e, d, id, val) /\ ~Twice(e, DOMAIN e)
      BY <1>2, <1>7 DEF SoundOf
    <2>2. Near(e, h)
      BY <1>2, <1>3, <1>7 DEF SoundOf, Near
    <2>3. ASSUME HomeIn(id, h) \in {0, i} \/ HomeIn(id, h) \in DOMAIN d,
                 id < h => i = HomeIn(id, h)
          PROVE  Probes(e, h)
      BY <1>2, <1>3, <1>7, <2>3 DEF SoundOf, Probes
    <2> QED
      BY <2>1, <2>2, <2>3 DEF SoundOf
  <1> QED
    BY <1>6, <1>7 DEF e

\* set() of an id whose home slot is free.
LEMMA InsertKeeps ==
  ASSUME ShapeIs, NEW id \in Ids, NEW val \in Vals, Insert(id, val)
  PROVE  SetDone(id, val)
  <1>1. /\ ShapeOf(data, data_slots, data_slots_end, hash, FALSE, data_capacity)
        /\ hash \in Nat /\ hash # 0 /\ data_slots_end \in Nat
        /\ data_slots_end < hash + MAX_COLLISION_PACK_DISTANCE
    BY DEF ShapeIs, ShapeOf, Insert
  <1>2. PICK i \in Nat : i = Home(id)
    BY ReachIs
  <1>3. i = HomeIn(id, hash) /\ i < hash /\ i # 0 /\ i \notin DOMAIN data
    BY <1>2, ReachIs DEF Home, Insert, HomeFree
  <1>4. hash # 1
    BY <1>1, <1>3
  <1> DEFINE k == i + 1
             m == Max({data_slots_end, k})
  <1>5. k \in Nat
    OBVIOUS
  <1> HIDE DEF k
  <1>6. m \in {data_slots_end, k} /\ m >= data_slots_end /\ m >= k
    BY <1>1, <1>5, GreatestOfTwo
  <1> HIDE DEF m
  <1>7. PICK last \in Nat : last = m
    BY <1>1, <1>5, <1>6
  <1>8. last > i /\ last >= data_slots_end /\ last < hash + MAX_COLLISION_PACK_DISTANCE
    BY <1>1, <1>3, <1>5, <1>6, <1>7 DEF k, MAX_COLLISION_PACK_DISTANCE
  <1> DEFINE e == Put(data, i, Entry(id, val))
  <1>9. HomeIn(id, hash) <= i /\ i < HomeIn(id, hash) + MAX_COLLISION_PACK_DISTANCE
    BY <1>3 DEF MAX_COLLISION_PACK_DISTANCE
  <1>10. /\ ShapeOf(e, data_slots + 1, last, hash, FALSE, data_capacity)
         /\ SoundOf(data, hash) /\ (\A j \in DOMAIN data : data[j].id # id) =>
              /\ Sets(e, data, id, val)
              /\ ~Twice(e, DOMAIN e)
              /\ Near(e, hash)
              /\ /\ HomeIn(id, hash) \in {0, i} \/ HomeIn(id, hash) \in DOMAIN data
                 /\ id < hash => i = HomeIn(id, hash)
                 => SoundOf(e, hash)
    BY <1>1, <1>3, <1>4, <1>8, <1>9, PlaceKeeps
  <1>11. /\ data' = e /\ data_slots_end' = last /\ data_slots' = data_slots + 1
         /\ hash' = hash /\ hash_disabled' = FALSE /\ data_capacity' = data_capacity
    BY <1>2, <1>7 DEF Insert, m, k
  <1> HIDE DEF e
  <1>12. ShapeIs'
    BY <1>10, <1>11 DEF ShapeIs
  <1>13. ASSUME SoundOf(data, hash)
         PROVE  SoundOf(data', hash') /\ Sets(data', data, id, val)
    <2>1. \A j \in DOMAIN data : data[j].id # id
      <3>1. HomeFree(id) /\ ~AtHome(id)
        <4>1. IdAt(data, i) # id
          BY <1>3, IdAtIs
        <4> QED
          BY <1>2, <4>1 DEF Insert, AtHome
      <3> QED
        BY <1>13, <3>1, NotStored
    <2> QED
      BY <1>3, <1>10, <1>11, <1>13, <2>1
  <1> QED
    BY <1>12, <1>13 DEF SetDone

\* The occupant of slot id moved to the hole and the new entry to its home slot: the
\* same as both put in and swapped.
LEMMA MoveIsSwap ==
  ASSUME NEW d, IsSlots(d), NEW hole \in Nat, hole \notin DOMAIN d,
         NEW home \in DOMAIN d, NEW x
  PROVE  Put(Put(d, hole, d[home]), home, x) = SwapSlots(Put(d, hole, x), hole, home)
  <1> DEFINE e == Put(Put(d, hole, d[home]), home, x)
             s == SwapSlots(Put(d, hole, x), hole, home)
             D == DOMAIN d \cup {hole}
             other(k) == IF k = hole THEN home ELSE IF k = home THEN hole ELSE k
  <1>1. e = [j \in D |-> IF j = home THEN x ELSE IF j = hole THEN d[home] ELSE d[j]]
    BY DEF Put
  <1>2. Put(d, hole, x) = [j \in D |-> IF j = hole THEN x ELSE d[j]]
    BY DEF Put
  <1>3. {other(l) : l \in D} = D
    <2>1. \A l \in D : other(l) \in D /\ other(other(l)) = l
      OBVIOUS
    <2> HIDE DEF other, D
    <2> QED
      BY <2>1
  <1>4. s = [k \in {other(l) : l \in D} |-> Put(d, hole, x)[other(k)]]
    BY <1>2 DEF SwapSlots
  <1>5. s = [k \in D |-> Put(d, hole, x)[other(k)]]
    <2> HIDE DEF s, other, D
    <2> QED
      BY <1>3, <1>4
  <1>6. \A k \in D : Put(d, hole, x)[other(k)] =
                       IF k = home THEN x ELSE IF k = hole THEN d[home] ELSE d[k]
    BY <1>2
  <1> HIDE DEF s, e
  <1>7. e = s
    <2> HIDE DEF D, other
    <2> QED
      BY <1>1, <1>5, <1>6
  <1> QED
    BY <1>7 DEF e, s

\* The occupant of the home slot of a new id below the hash moved to a hole.
LEMMA MoveKeeps ==
  ASSUME NEW d, NEW n, NEW end, NEW h, NEW cap, ShapeOf(d, n, end, h, FALSE, cap), h # 1,
         NEW id \in Ids, NEW val \in Vals, id < h, id \in DOMAIN d, d[id].id # id,
         NEW hole \in Nat, hole \notin DOMAIN d, hole > id,
         hole < id + MAX_COLLISION_PACK_DISTANCE,
         NEW last \in Nat, last > hole, last >= end, last < h + MAX_COLLISION_PACK_DISTANCE
  PROVE  LET e == Put(Put(d, hole, d[id]), id, Entry(id, val))
         IN /\ ShapeOf(e, n + 1, last, h, FALSE, cap)
            /\ SoundOf(d, h) /\ (\A j \in DOMAIN d : d[j].id # id) =>
                 /\ Sets(e, d, id, val)
                 /\ hole < HomeIn(d[id].id, h) + MAX_COLLISION_PACK_DISTANCE => SoundOf(e, h)
  <1> DEFINE g == Put(d, hole, Entry(id, val))
             s == SwapSlots(g, hole, id)
             e == Put(Put(d, hole, d[id]), id, Entry(id, val))
  <1>1. /\ id \in Nat /\ id # 0 /\ HomeIn(id, h) = id /\ h \in Nat /\ h # 0
        /\ IsSlots(d)
    BY IdIs, HomeIs DEF ShapeOf
  <1>2. e = s
    BY <1>1, MoveIsSwap
  <1>3. /\ ShapeOf(g, n + 1, last, h, FALSE, cap)
        /\ SoundOf(d, h) /\ (\A j \in DOMAIN d : d[j].id # id) =>
             Sets(g, d, id, val) /\ ~Twice(g, DOMAIN g)
    <2>1. hole # 0 /\ HomeIn(id, h) <= hole
          /\ hole < HomeIn(id, h) + MAX_COLLISION_PACK_DISTANCE
      BY <1>1
    <2> HIDE DEF e, s
    <2> QED
      BY <2>1, PlaceKeeps
  <1>4. /\ DOMAIN g = DOMAIN d \cup {hole} /\ g[hole] = Entry(id, val)
        /\ \A j \in DOMAIN d : g[j] = d[j]
    BY DEF Put
  <1>5. IsSlots(g)
    BY <1>3 DEF ShapeOf
  <1> HIDE DEF g, e
  <1>6. Rearranges(s, g)
    <2>1. hole \in DOMAIN g /\ id # hole
      BY <1>1, <1>4
    <2> QED
      BY <1>1, <1>5, <2>1, SwapRearranges
  <1>7. PICK t \in Nat : t = id
    BY <1>1
  <1>8. /\ DOMAIN s = DOMAIN g /\ s[id] = g[hole] /\ s[hole] = g[id]
        /\ \A k \in Nat \ {hole, id} : k \in DOMAIN g => s[k] = g[k]
    <2>1. hole \in DOMAIN g /\ t # hole /\ t \in DOMAIN g
      BY <1>1, <1>4, <1>7
    <2> DEFINE r == SwapSlots(g, hole, t)
    <2>2. /\ r = [k \in DOMAIN r |-> r[k]]
          /\ t \in DOMAIN r /\ r[t] = g[hole]
          /\ hole \in DOMAIN r <=> t \in DOMAIN g
          /\ t \in DOMAIN g => r[hole] = g[t]
          /\ \A k \in Nat \ {hole, t} : k \in DOMAIN r <=> k \in DOMAIN g
          /\ \A k \in Nat \ {hole, t} : k \in DOMAIN g => r[k] = g[k]
          /\ DOMAIN r = IF t \in DOMAIN g THEN DOMAIN g ELSE (DOMAIN g \ {hole}) \cup {t}
      BY ONLY <1>5, <2>1, SwapIs, Zenon
    <2>3. r = s
      BY <1>7
    <2> HIDE DEF r, s
    <2> QED
      BY <1>7, <2>1, <2>2, <2>3
  <1> HIDE DEF s
  <1>9. ShapeOf(s, n + 1, last, h, FALSE, cap)
    BY <1>3, <1>6, <1>8 DEF ShapeOf, Rearranges
  <1>10. ASSUME SoundOf(d, h), \A j \in DOMAIN d : d[j].id # id
         PROVE  /\ Sets(s, d, id, val)
                /\ hole < HomeIn(d[id].id, h) + MAX_COLLISION_PACK_DISTANCE => SoundOf(s, h)
    <2>1. Sets(s, d, id, val)
      BY <1>3, <1>6, <1>10, RearrangedSets
    <2>2. ~Twice(s, DOMAIN s)
      BY <1>3, <1>6, <1>10 DEF Rearranges
    <2>3. /\ DOMAIN s = DOMAIN d \cup {hole}
          /\ s[id].id = id /\ s[hole] = d[id]
          /\ \A k \in DOMAIN d : k # id => s[k] = d[k]
      <3>1. DOMAIN d \in SUBSET Nat
        BY <1>1 DEF IsSlots
      <3>2. \A k \in DOMAIN d : k # id => k \in Nat \ {hole, id}
        BY <3>1
      <3> QED
        BY <1>4, <1>8, <3>2, NewEntryIs
    <2>4. /\ HomeIn(d[id].id, h) <= id
          /\ HomeIn(d[id].id, h) = 0 \/ HomeIn(d[id].id, h) \in DOMAIN d
          /\ d[id].id < h => id = HomeIn(d[id].id, h)
      BY <1>10 DEF SoundOf, Near, Probes
    <2>5. d[id].id \in Ids
      BY <1>1, EntryIs DEF IsSlots
    <2>6. ~(d[id].id < h)
      BY <1>1, <2>4, <2>5, HomeIs
    <2>7. HomeIn(d[id].id, h) \in Nat
      BY <1>1, <2>5, HomeIs
    <2>8. ASSUME hole < HomeIn(d[id].id, h) + MAX_COLLISION_PACK_DISTANCE
          PROVE  Near(s, h)
      <3> SUFFICES ASSUME NEW k \in DOMAIN s
                   PROVE  /\ HomeIn(s[k].id, h) <= k
                          /\ k < HomeIn(s[k].id, h) + MAX_COLLISION_PACK_DISTANCE
        BY DEF Near
      <3>1. CASE k = id
        BY <1>1, <2>3, <3>1 DEF MAX_COLLISION_PACK_DISTANCE
      <3>2. CASE k = hole
        BY <1>1, <2>3, <2>4, <2>7, <2>8, <3>2
      <3>3. CASE k # id /\ k # hole
        BY <1>10, <2>3, <3>3 DEF SoundOf, Near
      <3> QED
        BY <3>1, <3>2, <3>3
    <2>9. Probes(s, h)
      <3> SUFFICES ASSUME NEW k \in DOMAIN s
                   PROVE  /\ HomeIn(s[k].id, h) = 0 \/ HomeIn(s[k].id, h) \in DOMAIN s
                          /\ s[k].id < h => k = HomeIn(s[k].id, h)
        BY DEF Probes
      <3>1. CASE k = id
        BY <1>1, <2>3, <3>1
      <3>2. CASE k = hole
        BY <2>3, <2>4, <2>6, <3>2
      <3>3. CASE k # id /\ k # hole
        BY <1>10, <2>3, <3>3 DEF SoundOf, Probes
      <3> QED
        BY <3>1, <3>2, <3>3
    <2> QED
      BY <2>1, <2>2, <2>8, <2>9 DEF SoundOf
  <1> QED
    BY <1>2, <1>9, <1>10 DEF e, s

\* set() of an id that is packed, or takes its home slot from another.
LEMMA InsertPackedKeeps ==
  ASSUME ShapeIs, NEW id \in Ids, NEW val \in Vals, InsertPacked(id, val)
  PROVE  SetDone(id, val)
  <1>1. /\ ShapeOf(data, data_slots, data_slots_end, hash, FALSE, data_capacity)
        /\ hash \in Nat /\ hash # 0 /\ data_slots_end \in Nat
        /\ data_slots_end < hash + MAX_COLLISION_PACK_DISTANCE
        /\ hash = 1 => data_slots = 0
        /\ IsSlots(data)
    BY DEF ShapeIs, ShapeOf, InsertPacked
  <1>2. PICK hole \in Nat : hole = Min(Holes(id)) /\ hole \in Holes(id)
    <2>1. Holes(id) \in SUBSET Nat /\ Holes(id) # {}
      BY ReachIs DEF Holes, InsertPacked
    <2> QED
      BY <2>1, LeastOf
  <1>3. PICK home \in Nat : home = Home(id)
    BY ReachIs
  <1>4. /\ home = HomeIn(id, hash) /\ home < hash /\ (id < hash => home = id)
        /\ hole \notin DOMAIN data /\ home < hole /\ hole < home + MAX_COLLISION_PACK_DISTANCE
        /\ data_slots # 0
    BY <1>2, <1>3, ReachIs DEF Home, Holes
  <1>5. hash # 1 /\ hole # 0
    BY <1>1, <1>4
  <1>6. home = 0 \/ home \in DOMAIN data
    BY <1>3 DEF InsertPacked, HomeFree
  <1> DEFINE k == hole + 1
             m == Max({data_slots_end, k})
  <1>7. k \in Nat
    OBVIOUS
  <1> HIDE DEF k
  <1>8. m \in {data_slots_end, k} /\ m >= data_slots_end /\ m >= k
    BY <1>1, <1>7, GreatestOfTwo
  <1> HIDE DEF m
  <1>9. PICK last \in Nat : last = m
    BY <1>1, <1>7, <1>8
  <1>10. last > hole /\ last >= data_slots_end /\ last < hash + MAX_COLLISION_PACK_DISTANCE
    BY <1>1, <1>4, <1>7, <1>8, <1>9 DEF k, MAX_COLLISION_PACK_DISTANCE
  <1>11. /\ data_slots_end' = last /\ data_slots' = data_slots + 1
         /\ hash' = hash /\ hash_disabled' = FALSE /\ data_capacity' = data_capacity
    BY <1>2, <1>9 DEF InsertPacked, m, k
  <1>12. SoundOf(data, hash) => \A j \in DOMAIN data : data[j].id # id
    BY NotStored DEF InsertPacked
  <1>13. CASE ~(id < hash)
    <2> DEFINE e == Put(data, hole, Entry(id, val))
    <2>1. /\ ShapeOf(e, data_slots + 1, last, hash, FALSE, data_capacity)
          /\ SoundOf(data, hash) /\ (\A j \in DOMAIN data : data[j].id # id) =>
               /\ Sets(e, data, id, val)
               /\ ~Twice(e, DOMAIN e)
               /\ Near(e, hash)
               /\ /\ HomeIn(id, hash) \in {0, hole} \/ HomeIn(id, hash) \in DOMAIN data
                  /\ id < hash => hole = HomeIn(id, hash)
                  => SoundOf(e, hash)
      <3>1. HomeIn(id, hash) <= hole /\ hole < HomeIn(id, hash) + MAX_COLLISION_PACK_DISTANCE
        BY <1>4
      <3> QED
        BY <1>1, <1>4, <1>5, <1>10, <3>1, PlaceKeeps
    <2>2. data' = e
      BY <1>2, <1>13 DEF InsertPacked
    <2> HIDE DEF e
    <2>3. ShapeIs'
      BY <1>11, <2>1, <2>2 DEF ShapeIs
    <2>4. SoundOf(data, hash) => SoundOf(data', hash') /\ Sets(data', data, id, val)
      BY <1>4, <1>6, <1>11, <1>12, <1>13, <2>1, <2>2
    <2> QED
      BY <2>3, <2>4 DEF SetDone
  <1>14. CASE id < hash
    <2> DEFINE e == Put(Put(data, hole, data[id]), id, Entry(id, val))
    <2>1. id = home /\ id \in DOMAIN data /\ data[id].id # id
      <3>1. id = home /\ id # 0
        BY <1>4, <1>14, IdIs
      <3>2. ~AtHome(id)
        BY DEF InsertPacked
      <3> QED
        BY <1>3, <1>6, <3>1, <3>2, IdAtIs DEF AtHome
    <2>2. /\ ShapeOf(e, data_slots + 1, last, hash, FALSE, data_capacity)
          /\ SoundOf(data, hash) /\ (\A j \in DOMAIN data : data[j].id # id) =>
               /\ Sets(e, data, id, val)
               /\ hole < HomeIn(data[id].id, hash) + MAX_COLLISION_PACK_DISTANCE =>
                    SoundOf(e, hash)
      <3>1. hole > id /\ hole < id + MAX_COLLISION_PACK_DISTANCE
        BY <1>4, <2>1
      <3> QED
        BY <1>1, <1>4, <1>5, <1>10, <1>14, <2>1, <3>1, MoveKeeps
    <2>3. data' = e
      BY <1>2, <1>14 DEF InsertPacked
    <2> HIDE DEF e
    <2>4. ShapeIs'
      BY <1>11, <2>2, <2>3 DEF ShapeIs
    <2>5. ASSUME ~Displaces(id)
          PROVE  hole < HomeIn(data[id].id, hash) + MAX_COLLISION_PACK_DISTANCE
      <3>1. ~(hole >= Home(data[id].id) + MAX_COLLISION_PACK_DISTANCE)
        BY <1>2, <1>14, <2>5 DEF Displaces, InsertPacked
      <3>2. data[id].id \in Ids
        BY <1>1, <2>1, EntryIs DEF IsSlots
      <3>3. HomeIn(data[id].id, hash) \in Nat
        BY <1>1, <3>2, HomeIs
      <3> DEFINE u == HomeIn(data[id].id, hash)
      <3>4. u \in Nat /\ ~(hole >= u + MAX_COLLISION_PACK_DISTANCE)
        BY <3>1, <3>3 DEF Home
      <3> HIDE DEF u
      <3>5. hole < u + MAX_COLLISION_PACK_DISTANCE
        BY <3>4 DEF MAX_COLLISION_PACK_DISTANCE
      <3> QED
        BY <3>5 DEF u
    <2>6. SoundOf(data, hash) /\ ~Displaces(id) =>
            SoundOf(data', hash') /\ Sets(data', data, id, val)
      BY <1>11, <1>12, <2>2, <2>3, <2>5
    <2> QED
      BY <2>4, <2>6 DEF SetDone
  <1> QED
    BY <1>13, <1>14

\* What rehash_data() leaves is in shape, and sound if no id had two entries.
LEMMA RelaidKeeps ==
  ASSUME NEW r, NEW d, IsSlots(d), DOMAIN d # {}, NEW from \in Nat, from # 0,
         NEW cap \in Capacities, NEW len \in Nat, len <= cap, Relaid(r, d, from, len, cap)
  PROVE  /\ ShapeOf(r.data, Cardinality(DOMAIN d), r.data_slots_end, r.hash,
                    r.hash_disabled, r.data_capacity)
         /\ ~Twice(d, DOMAIN d) => SoundOf(r.data, r.hash)
  <1> DEFINE T == DOMAIN r.data \cup {1}
             m == Max(T)
             room == r.hash + IF r.hash_disabled THEN 0 ELSE MAX_COLLISION_PACK_DISTANCE
  <1>1. /\ r.hash \in Nat /\ r.hash # 0 /\ r.hash <= U16_MAX
        /\ r.hash_disabled \in BOOLEAN
        /\ ~r.hash_disabled => r.hash > from /\ r.hash <= MAX_HASH
        /\ Rearranges(r.data, d)
        /\ DOMAIN r.data \subseteq 1 .. r.hash + 3
        /\ r.hash_disabled => \A i \in DOMAIN r.data : r.data[i].id = i /\ i < r.hash
        /\ Near(r.data, r.hash)
        /\ ~Twice(d, DOMAIN d) => Probes(r.data, r.hash)
        /\ r.data_slots_end = m + 1
        /\ r.data_capacity = ResizeCapacity(cap, len, room)
    BY DEF Relaid
  <1>2. /\ IsSlots(r.data) /\ Cardinality(DOMAIN r.data) = Cardinality(DOMAIN d)
        /\ IsFiniteSet(DOMAIN r.data) /\ DOMAIN r.data \in SUBSET Nat
        /\ Twice(r.data, DOMAIN r.data) => Twice(d, DOMAIN d)
    BY <1>1 DEF Rearranges, IsSlots
  <1>3. Cardinality(DOMAIN d) # 0 /\ DOMAIN r.data # {}
    <2>1. IsFiniteSet(DOMAIN d)
      BY DEF IsSlots
    <2> QED
      BY <1>2, <2>1, FS_EmptySet
  <1>4. m \in T /\ \A x \in T : x <= m
    <2>1. T \in SUBSET Nat /\ T # {}
      BY <1>2
    <2>2. IsFiniteSet(T)
      BY <1>2, FS_AddElement
    <2> HIDE DEF T
    <2> QED
      BY <2>1, <2>2, GreatestOf
  <1> HIDE DEF m
  <1>5. \A i \in DOMAIN r.data : i \in Nat /\ i # 0 /\ i <= m /\ i <= r.hash + 3
    BY <1>1, <1>2, <1>4
  <1>6. m \in Nat /\ (m = 1 \/ m \in DOMAIN r.data) /\ m >= 1
    BY <1>2, <1>4
  <1>7. m <= r.hash + 3 /\ (r.hash_disabled => m < r.hash)
    <2>1. PICK i \in DOMAIN r.data : TRUE
      BY <1>3
    <2>2. i \in Nat /\ i >= 1 /\ (r.hash_disabled => i < r.hash)
      BY <1>1, <1>5
    <2> QED
      BY <1>1, <1>5, <1>6, <2>2
  <1>8. room \in Nat /\ room <= U16_MAX
    <2>1. CASE r.hash_disabled
      <3>1. room = r.hash
        BY <1>1, <2>1
      <3> QED
        BY <1>1, <3>1
    <2>2. CASE ~r.hash_disabled
      <3>1. room = r.hash + MAX_COLLISION_PACK_DISTANCE
        BY <2>2
      <3> HIDE DEF room
      <3>2. MAX_HASH \in Nat /\ MAX_HASH + 5 < U16_MAX /\ U16_MAX \in Nat
        BY MaxHashIs
      <3> QED
        BY <1>1, <2>2, <3>1, <3>2 DEF MAX_COLLISION_PACK_DISTANCE
    <2> QED
      BY <2>1, <2>2
  <1>9. r.hash_disabled => room = r.hash
    BY <1>1
  <1>10. ~r.hash_disabled => room = r.hash + MAX_COLLISION_PACK_DISTANCE
    OBVIOUS
  <1> HIDE DEF room
  <1>11. r.data_capacity \in Capacities /\ r.data_capacity >= room
    BY <1>1, <1>8, ResizeIs
  <1>12. /\ r.data_slots_end \in Nat /\ r.data_slots_end # 0
         /\ \A i \in DOMAIN r.data : i # 0 /\ i < r.data_slots_end
         /\ r.hash_disabled => r.data_slots_end <= r.hash
         /\ ~r.hash_disabled => r.data_slots_end < r.hash + MAX_COLLISION_PACK_DISTANCE
    BY <1>1, <1>5, <1>6, <1>7 DEF MAX_COLLISION_PACK_DISTANCE
  <1>13. /\ r.hash_disabled => r.hash <= r.data_capacity
         /\ ~r.hash_disabled => r.hash + MAX_COLLISION_PACK_DISTANCE <= r.data_capacity
    <2>1. r.data_capacity \in Nat
      BY <1>11, CapacitiesAre
    <2>2. \A x \in Nat : r.data_capacity >= x => x <= r.data_capacity
      BY <2>1
    <2> QED
      BY <1>8, <1>9, <1>10, <1>11, <2>2
  <1>14. ~r.hash_disabled => r.hash # 1
    BY <1>1
  <1>15. ShapeOf(r.data, Cardinality(DOMAIN d), r.data_slots_end, r.hash,
                 r.hash_disabled, r.data_capacity)
    BY <1>1, <1>2, <1>3, <1>11, <1>12, <1>13, <1>14 DEF ShapeOf
  <1>16. ~Twice(d, DOMAIN d) => SoundOf(r.data, r.hash)
    BY <1>1, <1>2 DEF SoundOf
  <1> QED
    BY <1>15, <1>16

\* The length of the array is within its allocation, and leaves room for one more.
LEMMA LengthIs ==
  ASSUME NEW n, NEW end, NEW h, NEW cap, NEW d, ShapeOf(d, n, end, h, FALSE, cap)
  PROVE  LET len == IF n = 0 THEN 1 ELSE h + MAX_COLLISION_PACK_DISTANCE
         IN len \in Nat /\ len <= cap /\ len + 1 <= U16_MAX
  <1>1. /\ h \in Nat /\ h # 0 /\ h <= MAX_HASH /\ cap \in Capacities
        /\ h = 1 => n = 0
        /\ h # 1 => h + MAX_COLLISION_PACK_DISTANCE <= cap
    BY DEF ShapeOf
  <1>2. MAX_HASH \in Nat /\ MAX_HASH + 5 < U16_MAX /\ U16_MAX \in Nat
    BY MaxHashIs
  <1>3. cap \in Nat /\ cap >= 1
    BY <1>1, CapacitiesAre
  <1> QED
    BY <1>1, <1>2, <1>3 DEF MAX_COLLISION_PACK_DISTANCE

\* The call of rehash_data() by set().
LEMMA InsertRehashKeeps ==
  ASSUME ShapeIs, NEW id \in Ids, NEW val \in Vals, InsertRehash(id, val)
  PROVE  /\ fate' \in {"ok", "hang", "undefined"}
         /\ fate' = "ok" => SetDone(id, val)
         /\ SoundOf(data, hash) => fate' = "ok"
         /\ fate' # "ok" =>
              UNCHANGED <<data, hash, hash_disabled, data_slots_end, data_capacity>>
         /\ data_slots' = data_slots + 1
  <1> DEFINE len == DataHashLen(data_slots)
             pushed == IF data_slots_end < len THEN len ELSE len + 1
             cap == IF pushed = len THEN data_capacity ELSE PushCapacity(data_capacity, len)
             r == Rehash(Put(data, data_slots_end, Entry(id, val)), pushed, cap,
                         data_slots_end + 1, hash, hash)
  <1>1. /\ ShapeOf(data, data_slots, data_slots_end, hash, FALSE, data_capacity)
        /\ IsSlots(data) /\ data_slots_end \in Nat /\ data_slots_end # 0
        /\ \A i \in DOMAIN data : i # 0 /\ i < data_slots_end
        /\ data_slots = Cardinality(DOMAIN data)
        /\ hash \in Nat /\ hash # 0 /\ data_capacity \in Capacities
        /\ IsFiniteSet(DOMAIN data) /\ DOMAIN data \in SUBSET Nat
    BY DEF ShapeIs, ShapeOf, InsertRehash, NoRoom, IsSlots
  <1>2. len \in Nat /\ len <= data_capacity /\ len + 1 <= U16_MAX
    BY <1>1, LengthIs DEF DataHashLen
  <1>3. Become(r) /\ data_slots' = data_slots + 1
    BY DEF InsertRehash
  <1> HIDE DEF len
  <1>4. PICK p \in Nat : p = pushed
    BY <1>2
  <1>5. PICK c \in Capacities : c = cap /\ p <= c
    <2>1. CASE pushed = len
      <3>1. cap = data_capacity
        BY <2>1
      <3> QED
        BY <1>1, <1>2, <1>4, <2>1, <3>1
    <2>2. CASE pushed # len
      <3>1. cap = PushCapacity(data_capacity, len) /\ pushed = len + 1
        BY <2>2
      <3>2. PushCapacity(data_capacity, len) \in Capacities
            /\ PushCapacity(data_capacity, len) >= len + 1
        BY <1>1, <1>2, PushIs
      <3> DEFINE pc == PushCapacity(data_capacity, len)
      <3> HIDE DEF pc
      <3>3. pc \in Nat /\ pc >= len + 1 /\ pc \in Capacities
        BY <3>2, CapacitiesAre DEF pc
      <3>4. p = len + 1 /\ p <= pc
        BY <1>2, <1>4, <3>1, <3>3
      <3> QED
        BY <3>1, <3>3, <3>4 DEF pc
    <2> QED
      BY <2>1, <2>2
  <1>6. PICK i \in Nat : i = data_slots_end
    BY <1>1
  <1>7. i \notin DOMAIN data /\ i # 0
    BY <1>1, <1>6
  <1> DEFINE vec == Put(data, i, Entry(id, val))
  <1>8. /\ IsSlots(vec)
        /\ DOMAIN vec = DOMAIN data \cup {i}
        /\ Cardinality(DOMAIN vec) = Cardinality(DOMAIN data) + 1
        /\ vec[i] = Entry(id, val)
        /\ \A j \in DOMAIN data : vec[j] = data[j]
        /\ ~Twice(data, DOMAIN data) /\ (\A j \in DOMAIN data : data[j].id # id) =>
             ~Twice(vec, DOMAIN vec) /\ Sets(vec, data, id, val)
    BY <1>1, <1>7, AddIs
  <1>9. r = Rehash(vec, p, c, i + 1, hash, hash)
    BY <1>4, <1>5, <1>6
  <1> HIDE DEF r, vec
  <1>10. PICK from \in Nat : from = hash /\ from # 0
    BY <1>1
  <1>11. PICK end \in Nat : end = i + 1
    OBVIOUS
  <1>12. \A j \in DOMAIN vec : j < end
    BY <1>1, <1>6, <1>8, <1>11
  <1>13. PICK q : q = Rehash(vec, p, c, end, from, from)
    OBVIOUS
  <1>14. /\ q.fate \in {"ok", "hang", "undefined"}
         /\ ~Twice(vec, DOMAIN vec) => q.fate = "ok"
         /\ q.fate = "ok" => Relaid(q, vec, from, p, c)
    <2> DEFINE s == Rehash(vec, p, c, end, from, from)
    <2>1. /\ s.fate \in {"ok", "hang", "undefined"}
          /\ ~Twice(vec, DOMAIN vec) => s.fate = "ok"
          /\ s.fate = "ok" => Relaid(s, vec, from, p, c)
      BY <1>8, <1>12, RehashIs
    <2> QED
      BY <1>13, <2>1
  <1>15. Become(q)
    BY <1>3, <1>9, <1>10, <1>11, <1>13
  <1>16. /\ fate' = q.fate
         /\ q.fate = "ok" => /\ data' = q.data /\ hash' = q.hash
                             /\ hash_disabled' = q.hash_disabled
                             /\ data_slots_end' = q.data_slots_end
                             /\ data_capacity' = q.data_capacity
         /\ q.fate # "ok" =>
              UNCHANGED <<data, hash, hash_disabled, data_slots_end, data_capacity>>
    BY <1>15 DEF Become
  <1>17. SoundOf(data, hash) => ~Twice(vec, DOMAIN vec) /\ Sets(vec, data, id, val)
    <2>1. ~AtHome(id) /\ Packed(id) = {}
      BY DEF InsertRehash, NoRoom
    <2>2. SoundOf(data, hash) => \A j \in DOMAIN data : data[j].id # id
      BY <2>1, NotStored
    <2> QED
      BY <1>8, <2>2 DEF SoundOf
  <1>18. ASSUME q.fate = "ok" PROVE SetDone(id, val)
    <2>1. Relaid(q, vec, from, p, c)
      BY <1>14, <1>18
    <2>2. DOMAIN vec # {}
      BY <1>8
    <2>3. /\ ShapeOf(q.data, Cardinality(DOMAIN vec), q.data_slots_end, q.hash,
                     q.hash_disabled, q.data_capacity)
          /\ ~Twice(vec, DOMAIN vec) => SoundOf(q.data, q.hash)
      BY <1>5, <1>8, <1>10, <2>1, <2>2, RelaidKeeps
    <2>4. ShapeIs'
      BY <1>1, <1>3, <1>8, <1>16, <1>18, <2>3 DEF ShapeIs
    <2>5. Rearranges(q.data, vec)
      BY <2>1 DEF Relaid
    <2>6. Sets(vec, data, id, val) => Sets(q.data, data, id, val)
      BY <2>5, RearrangedSets
    <2>7. SoundOf(data, hash) => SoundOf(data', hash') /\ Sets(data', data, id, val)
      BY <1>16, <1>17, <1>18, <2>3, <2>6
    <2> QED
      BY <2>4, <2>7 DEF SetDone
  <1> QED
    BY <1>3, <1>14, <1>16, <1>17, <1>18

-----------------------------------------------------------------------------
(* delete *)

\* delete(id) takes out an entry of id.
LEMMA DeleteIndexIs ==
  ASSUME ShapeIs, NEW id \in Ids, DeleteIndex(id) # Nowhere
  PROVE  DeleteIndex(id) \in DOMAIN data /\ data[DeleteIndex(id)].id = id
  <1> DEFINE at == {i \in {Home(id)} \cup Reach(id) : IdAt(data, i) = id}
  <1>1. DeleteIndex(id) = Min(at) /\ at # {}
    BY DEF DeleteIndex
  <1>2. at \in SUBSET Nat
    BY ReachIs
  <1> HIDE DEF at
  <1>3. Min(at) \in at
    BY <1>1, <1>2, LeastOf
  <1> QED
    BY <1>1, <1>3, IdAtIs DEF at

\* The entries that are left are below the new end.
LEMMA EndAfterIs ==
  ASSUME ShapeIs, NEW k \in DOMAIN data, NEW d, DOMAIN d = DOMAIN data \ {k},
         NEW n, n = Cardinality(DOMAIN d)
  PROVE  LET end == EndAfter(d, k, n)
         IN /\ end \in Nat /\ end # 0 /\ end <= data_slots_end
            /\ \A i \in DOMAIN d : i < end
            /\ n = 0 => end = 1
  <1> DEFINE below == {j \in DOMAIN d : j < data_slots_end - 1}
             end == EndAfter(d, k, n)
  <1>1. /\ data_slots_end \in Nat /\ data_slots_end # 0
        /\ \A i \in DOMAIN data : i \in Nat /\ i # 0 /\ i < data_slots_end
        /\ DOMAIN data \in SUBSET Nat /\ IsFiniteSet(DOMAIN data)
    BY DEF ShapeIs, ShapeOf, IsSlots
  <1>2. IsFiniteSet(DOMAIN d) /\ DOMAIN d \in SUBSET Nat
    BY <1>1, FS_RemoveElement
  <1>3. n = 0 <=> DOMAIN d = {}
    BY <1>2, FS_EmptySet
  <1>4. end = IF n = 0 THEN 1
              ELSE IF k = data_slots_end - 1 /\ below # {} THEN Max(below) + 1
              ELSE data_slots_end
    BY DEF EndAfter
  <1>5. k = data_slots_end - 1 => below = DOMAIN d
    BY <1>1
  <1>6. k # data_slots_end - 1 => \A i \in DOMAIN d : i < data_slots_end
    BY <1>1
  <1> HIDE DEF below, end
  <1>7. CASE n = 0
    <2>1. end = 1 /\ DOMAIN d = {} /\ 1 <= data_slots_end
      BY <1>1, <1>3, <1>4, <1>7
    <2>2. end \in Nat /\ end # 0 /\ end <= data_slots_end
      BY <2>1
    <2> QED
      BY <2>1, <2>2 DEF end
  <1>8. CASE n # 0 /\ k = data_slots_end - 1
    <2>1. end = Max(DOMAIN d) + 1 /\ DOMAIN d # {}
      BY <1>3, <1>4, <1>5, <1>8
    <2>2. Max(DOMAIN d) \in DOMAIN d /\ \A i \in DOMAIN d : i <= Max(DOMAIN d)
      BY <1>2, <2>1, GreatestOf
    <2> DEFINE m == Max(DOMAIN d)
    <2>3. m \in Nat /\ m < data_slots_end /\ end = m + 1 /\ \A i \in DOMAIN d : i <= m
      BY <1>1, <2>1, <2>2
    <2> HIDE DEF m
    <2>4. end \in Nat /\ end # 0 /\ end <= data_slots_end /\ \A i \in DOMAIN d : i < end
      BY <1>1, <1>2, <2>3
    <2> QED
      BY <1>8, <2>4 DEF end
  <1>9. CASE n # 0 /\ k # data_slots_end - 1
    <2>1. end = data_slots_end
      BY <1>4, <1>9
    <2> QED
      BY <1>1, <1>6, <1>9, <2>1 DEF end
  <1> QED
    BY <1>7, <1>8, <1>9

\* It does not matter from which of two slots they are swapped.
LEMMA SwapsBoth ==
  ASSUME NEW d, NEW i, NEW j
  PROVE  SwapSlots(d, i, j) = SwapSlots(d, j, i)
  <1>1. \A k : (IF k = i THEN j ELSE IF k = j THEN i ELSE k)
               = (IF k = j THEN i ELSE IF k = i THEN j ELSE k)
    OBVIOUS
  <1> QED
    BY <1>1 DEF SwapSlots

\* What the freed home slot is filled with, if with anything.
LEMMA PullHomeIs ==
  ASSUME ShapeIs, NEW d, IsSlots(d), NEW home \in Nat, home \notin DOMAIN d, NEW n \in Nat
  PROVE  LET e == PullHome(d, home, n)
         IN /\ Rearranges(e, d)
            /\ hash_disabled => e = d
            /\ \A j \in DOMAIN e :
                 \/ j \in DOMAIN d /\ e[j] = d[j]
                 \/ /\ j = home /\ Home(e[j].id) = home
                    /\ \E m \in DOMAIN d : j <= m
  <1> DEFINE e == PullHome(d, home, n)
             len == DataHashLen(n)
             same == {i \in Window(home, len) : Home(IdAt(d, i)) = home}
             m == Min(same)
  <1>1. e = IF hash_disabled \/ same = {} \/ m \notin DOMAIN d THEN d
            ELSE SwapSlots(d, home, m)
    BY DEF PullHome
  <1>2. len \in Nat
    BY DEF DataHashLen, ShapeIs, ShapeOf, MAX_COLLISION_PACK_DISTANCE
  <1> HIDE DEF len, e
  <1>3. \A i \in Window(home, len) : i \in Nat /\ home < i
    BY <1>2, WindowIs
  <1>4. same # {} => m \in same
    <2>1. same \in SUBSET Nat
      BY <1>3
    <2> HIDE DEF same
    <2> QED
      BY <2>1, LeastOf
  <1>5. CASE hash_disabled \/ same = {} \/ m \notin DOMAIN d
    <2>1. e = d
      BY <1>1, <1>5
    <2> QED
      BY <2>1, RearrangesSelf DEF e
  <1>6. CASE ~(hash_disabled \/ same = {} \/ m \notin DOMAIN d)
    <2>1. m \in DOMAIN d /\ m \in Nat /\ home < m /\ Home(d[m].id) = home
      <3>1. m \in Window(home, len) /\ Home(IdAt(d, m)) = home /\ m \in DOMAIN d
        BY <1>4, <1>6
      <3> HIDE DEF m, same
      <3> QED
        BY <1>3, <3>1 DEF IdAt
    <2>2. PICK i \in DOMAIN d : i = m
      BY <2>1
    <2> HIDE DEF same, m
    <2>3. i # home /\ i \in Nat
      BY <2>1, <2>2
    <2>4. e = SwapSlots(d, i, home)
      BY <1>1, <1>6, <2>2, SwapsBoth
    <2> DEFINE s == SwapSlots(d, i, home)
    <2>5. /\ s = [k \in DOMAIN s |-> s[k]]
          /\ home \in DOMAIN s /\ s[home] = d[i]
          /\ i \in DOMAIN s <=> home \in DOMAIN d
          /\ home \in DOMAIN d => s[i] = d[home]
          /\ \A k \in Nat \ {i, home} : k \in DOMAIN s <=> k \in DOMAIN d
          /\ \A k \in Nat \ {i, home} : k \in DOMAIN d => s[k] = d[k]
          /\ DOMAIN s = IF home \in DOMAIN d THEN DOMAIN d ELSE (DOMAIN d \ {i}) \cup {home}
      BY <2>3, SwapIs
    <2>6. Rearranges(s, d)
      BY <2>3, SwapRearranges
    <2> HIDE DEF s
    <2>7. ASSUME NEW j \in DOMAIN s
          PROVE  \/ j \in DOMAIN d /\ s[j] = d[j]
                 \/ /\ j = home /\ Home(s[j].id) = home
                    /\ \E k \in DOMAIN d : j <= k
      <3>1. CASE j = home
        BY <2>1, <2>2, <2>5, <3>1
      <3>2. CASE j # home
        <4>1. j \in DOMAIN d /\ j # i
          BY <2>5, <3>2
        <4>2. j \in Nat \ {i, home}
          BY <3>2, <4>1 DEF IsSlots
        <4> QED
          BY <2>5, <4>1, <4>2
      <3> QED
        BY <3>1, <3>2
    <2>8. e = s
      BY <2>4 DEF s
    <2>9. /\ Rearranges(e, d)
          /\ \A j \in DOMAIN e :
               \/ j \in DOMAIN d /\ e[j] = d[j]
               \/ /\ j = home /\ Home(e[j].id) = home
                  /\ \E k \in DOMAIN d : j <= k
      BY <2>6, <2>7, <2>8
    <2> QED
      BY <1>6, <2>9 DEF e
  <1> QED
    BY <1>5, <1>6

\* The slots that delete(id) leaves, unless it shrinks the array.
LEMMA MovedIs ==
  ASSUME ShapeIs, NEW id \in Ids, DeleteIndex(id) # Nowhere,
         NEW n, n = data_slots - 1,
         NEW e, e = Moved(id),
         NEW end, end = EndAfter(Without(id), DeleteIndex(id), n)
  PROVE  /\ IsSlots(e) /\ n \in Nat /\ n = Cardinality(DOMAIN e)
         /\ end \in Nat /\ end # 0 /\ end <= data_slots_end
         /\ \A i \in DOMAIN e : i # 0 /\ i < end
         /\ n = 0 => end = 1
         /\ hash_disabled => \A i \in DOMAIN e : e[i].id = i
         /\ \A i \in DOMAIN e :
              \/ i \in DOMAIN data \ {DeleteIndex(id)} /\ e[i] = data[i]
              \/ Home(e[i].id) = i
         /\ SoundOf(data, hash) =>
              /\ ~Twice(e, DOMAIN e) /\ Drops(e, data, id) /\ Near(e, hash)
              /\ \A i \in DOMAIN e : e[i].id < hash => i = HomeIn(e[i].id, hash)
  <1>1. PICK k \in DOMAIN data : k = DeleteIndex(id) /\ data[k].id = id
    BY DeleteIndexIs
  <1>2. /\ IsSlots(data) /\ data_slots = Cardinality(DOMAIN data)
        /\ \A i \in DOMAIN data : i \in Nat /\ i # 0
        /\ hash_disabled => \A i \in DOMAIN data : data[i].id = i
        /\ IsFiniteSet(DOMAIN data)
    BY DEF ShapeIs, ShapeOf, IsSlots
  <1> DEFINE w == Restrict(data, DOMAIN data \ {k})
  <1>3. /\ IsSlots(w)
        /\ DOMAIN w = DOMAIN data \ {k}
        /\ Cardinality(DOMAIN w) = Cardinality(DOMAIN data) - 1
        /\ \A j \in DOMAIN w : w[j] = data[j]
        /\ ~Twice(data, DOMAIN data) => ~Twice(w, DOMAIN w) /\ Drops(w, data, data[k].id)
    BY <1>2, RemoveIs
  <1>4. w = Without(id)
    BY <1>1 DEF Without
  <1> HIDE DEF w
  <1>5. n = Cardinality(DOMAIN w) /\ n \in Nat /\ IsFiniteSet(DOMAIN w)
    <2>1. IsFiniteSet(DOMAIN w)
      BY <1>3 DEF IsSlots
    <2>2. Cardinality(DOMAIN w) \in Nat
      BY <2>1, FS_CardinalityType
    <2> QED
      BY <1>2, <1>3, <2>1, <2>2
  <1>6. end = EndAfter(w, k, n)
    BY <1>1, <1>4
  <1>7. /\ end \in Nat /\ end # 0 /\ end <= data_slots_end
        /\ \A i \in DOMAIN w : i < end
        /\ n = 0 => end = 1
    <2> DEFINE s == EndAfter(w, k, n)
    <2>1. /\ s \in Nat /\ s # 0 /\ s <= data_slots_end
          /\ \A i \in DOMAIN w : i < s
          /\ n = 0 => s = 1
      BY <1>3, <1>5, EndAfterIs
    <2> HIDE DEF s
    <2>2. s = end
      BY <1>6 DEF s
    <2> QED
      BY <2>1, <2>2
  <1>8. /\ Rearranges(e, w)
        /\ hash_disabled => e = w
        /\ \A j \in DOMAIN e :
             \/ j \in DOMAIN w /\ e[j] = w[j]
             \/ /\ j = k /\ Home(e[j].id) = k
                /\ \E m \in DOMAIN w : j <= m
    <2>1. CASE k = Home(id)
      <3> DEFINE p == PullHome(w, k, n)
      <3>1. /\ Rearranges(p, w)
            /\ hash_disabled => p = w
            /\ \A j \in DOMAIN p :
                 \/ j \in DOMAIN w /\ p[j] = w[j]
                 \/ /\ j = k /\ Home(p[j].id) = k
                    /\ \E m \in DOMAIN w : j <= m
        <4>1. k \in Nat /\ k \notin DOMAIN w
          BY <1>2, <1>3
        <4> QED
          BY <1>3, <1>5, <4>1, PullHomeIs
      <3>2. e = p
        BY <1>1, <1>4, <2>1 DEF Moved
      <3> HIDE DEF p
      <3> QED
        BY <3>1, <3>2
    <2>2. CASE k # Home(id)
      <3>1. e = w
        BY <1>1, <1>4, <2>2 DEF Moved
      <3> QED
        BY <1>3, <3>1, RearrangesSelf
    <2> QED
      BY <2>1, <2>2
  <1>9. IsSlots(e) /\ n = Cardinality(DOMAIN e)
    BY <1>5, <1>8 DEF Rearranges
  <1>10. ASSUME NEW i \in DOMAIN e PROVE i # 0 /\ i < end
    <2>1. CASE i \in DOMAIN w
      BY <1>2, <1>3, <1>7, <2>1
    <2>2. CASE i = k /\ \E m \in DOMAIN w : i <= m
      <3>1. PICK m \in DOMAIN w : i <= m
        BY <2>2
      <3>2. m \in Nat /\ m < end /\ i \in Nat /\ i # 0
        BY <1>2, <1>3, <1>7, <2>2
      <3> QED
        BY <1>7, <3>1, <3>2
    <2> QED
      BY <1>8, <2>1, <2>2
  <1>11. ASSUME hash_disabled PROVE \A i \in DOMAIN e : e[i].id = i
    BY <1>2, <1>3, <1>8, <1>11
  <1>12. ASSUME SoundOf(data, hash)
         PROVE  /\ ~Twice(e, DOMAIN e) /\ Drops(e, data, id) /\ Near(e, hash)
                /\ \A i \in DOMAIN e : e[i].id < hash => i = HomeIn(e[i].id, hash)
    <2>1. ~Twice(e, DOMAIN e)
      BY <1>3, <1>8, <1>12 DEF SoundOf, Rearranges
    <2>2. Drops(e, data, id)
      <3>1. Drops(w, data, id)
        BY <1>1, <1>3, <1>12 DEF SoundOf
      <3> QED
        BY <1>8, <3>1, RearrangedSets
    <2>3. ASSUME NEW i \in DOMAIN e
          PROVE  /\ HomeIn(e[i].id, hash) <= i
                 /\ i < HomeIn(e[i].id, hash) + MAX_COLLISION_PACK_DISTANCE
                 /\ e[i].id < hash => i = HomeIn(e[i].id, hash)
      <3>1. CASE i \in DOMAIN w /\ e[i] = w[i]
        <4>1. i \in DOMAIN data /\ e[i] = data[i]
          BY <1>3, <3>1
        <4> QED
          BY <1>12, <4>1 DEF SoundOf, Near, Probes
      <3>2. CASE i = k /\ Home(e[i].id) = k
        <4>1. HomeIn(e[i].id, hash) = i /\ i \in Nat
          BY <1>2, <3>2 DEF Home
        <4> QED
          BY <4>1 DEF MAX_COLLISION_PACK_DISTANCE
      <3> QED
        BY <1>8, <3>1, <3>2
    <2> QED
      BY <2>1, <2>2, <2>3 DEF Near
  <1>13. ASSUME NEW i \in DOMAIN e
         PROVE  \/ i \in DOMAIN data \ {DeleteIndex(id)} /\ e[i] = data[i]
                \/ Home(e[i].id) = i
    BY <1>1, <1>3, <1>8
  <1> QED
    BY <1>5, <1>7, <1>9, <1>10, <1>11, <1>12, <1>13

\* A call of delete(id) that finds the entry.
LEMMA DeleteKeeps ==
  ASSUME ShapeIs, fate = "ok", NEW id \in Ids, Delete(id)
  PROVE  /\ fate' \in {"ok", "hang", "undefined"}
         /\ fate' = "ok" => ShapeIs'
         /\ SoundOf(data, hash) => fate' = "ok"
         /\ SoundOf(data, hash) /\ ~Orphans(id) =>
              SoundOf(data', hash') /\ Drops(data', data, id)
         /\ fate' # "ok" =>
              UNCHANGED <<data, hash, hash_disabled, data_slots_end, data_capacity>>
         /\ data_slots' = data_slots - 1 /\ data_slots # 0
  <1> DEFINE end == EndAfter(Without(id), DeleteIndex(id), data_slots - 1)
             len == IF hash_disabled THEN hash ELSE DataHashLen(data_slots - 1)
             r == Rehash(Moved(id), len, data_capacity, end, 2 * (data_slots - 1), hash)
  <1>1. /\ DeleteIndex(id) # Nowhere
        /\ data_slots' = data_slots - 1
        /\ Shrinks(data_slots - 1) => Become(r)
        /\ ~Shrinks(data_slots - 1) =>
             /\ data' = Moved(id)
             /\ data_slots_end' = end
             /\ UNCHANGED <<hash, hash_disabled, data_capacity, fate>>
    BY DEF Delete
  <1>2. PICK n : n = data_slots - 1
    OBVIOUS
  <1>3. PICK e : e = Moved(id)
    OBVIOUS
  <1>4. PICK x : x = EndAfter(Without(id), DeleteIndex(id), n)
    OBVIOUS
  <1>5. /\ IsSlots(e) /\ n \in Nat /\ n = Cardinality(DOMAIN e)
        /\ x \in Nat /\ x # 0 /\ x <= data_slots_end
        /\ \A i \in DOMAIN e : i # 0 /\ i < x
        /\ n = 0 => x = 1
        /\ hash_disabled => \A i \in DOMAIN e : e[i].id = i
        /\ \A i \in DOMAIN e :
             \/ i \in DOMAIN data \ {DeleteIndex(id)} /\ e[i] = data[i]
             \/ Home(e[i].id) = i
        /\ SoundOf(data, hash) =>
             /\ ~Twice(e, DOMAIN e) /\ Drops(e, data, id) /\ Near(e, hash)
             /\ \A i \in DOMAIN e : e[i].id < hash => i = HomeIn(e[i].id, hash)
    BY <1>1, <1>2, <1>3, <1>4, MovedIs
  <1>6. end = x
    BY <1>2, <1>4
  <1> HIDE DEF end
  <1>7. /\ ShapeOf(data, data_slots, data_slots_end, hash, hash_disabled, data_capacity)
        /\ hash \in Nat /\ hash # 0 /\ hash <= U16_MAX /\ hash_disabled \in BOOLEAN
        /\ data_slots_end \in Nat /\ data_capacity \in Capacities
        /\ data_slots = Cardinality(DOMAIN data) /\ IsFiniteSet(DOMAIN data)
        /\ hash_disabled => data_slots_end <= hash /\ hash <= data_capacity
        /\ ~hash_disabled =>
             /\ hash <= MAX_HASH /\ data_slots_end < hash + MAX_COLLISION_PACK_DISTANCE
             /\ hash = 1 => data_slots = 0
             /\ hash # 1 => hash + MAX_COLLISION_PACK_DISTANCE <= data_capacity
    BY DEF ShapeIs, ShapeOf, IsSlots
  <1>8. data_slots \in Nat /\ data_slots # 0
    <2>1. DOMAIN data # {}
      BY <1>1, DeleteIndexIs
    <2> QED
      BY <1>7, <2>1, FS_EmptySet, FS_CardinalityType
  <1>9. CASE ~Shrinks(data_slots - 1)
    <2>1. /\ data' = e /\ data_slots_end' = x /\ data_slots' = n
          /\ UNCHANGED <<hash, hash_disabled, data_capacity, fate>>
      BY <1>1, <1>2, <1>3, <1>6, <1>9
    <2>2. ShapeOf(e, n, x, hash, hash_disabled, data_capacity)
      <3>1. hash_disabled => x <= hash
        BY <1>5, <1>7
      <3>2. ~hash_disabled => x < hash + MAX_COLLISION_PACK_DISTANCE /\ hash # 1
        BY <1>5, <1>7, <1>8 DEF MAX_COLLISION_PACK_DISTANCE
      <3> QED
        BY <1>5, <1>7, <3>1, <3>2 DEF ShapeOf
    <2>3. ShapeIs'
      BY <2>1, <2>2 DEF ShapeIs
    <2>4. ASSUME SoundOf(data, hash), ~Orphans(id)
          PROVE  SoundOf(e, hash) /\ Drops(e, data, id)
      <3>1. \A j \in DOMAIN e : Home(e[j].id) = 0 \/ Home(e[j].id) \in DOMAIN e
        <4>1. \A j \in DOMAIN e \ {DeleteIndex(id)} :
                ~(Home(data[j].id) \in DOMAIN data \ DOMAIN e)
          BY <1>1, <1>3, <1>9, <2>4 DEF Orphans
        <4>2. \A j \in DOMAIN data : Home(data[j].id) = 0 \/ Home(data[j].id) \in DOMAIN data
          BY <2>4 DEF SoundOf, Probes, Home
        <4>3. ASSUME NEW j \in DOMAIN e
              PROVE  Home(e[j].id) = 0 \/ Home(e[j].id) \in DOMAIN e
          <5>1. CASE j \in DOMAIN data \ {DeleteIndex(id)} /\ e[j] = data[j]
            BY <4>1, <4>2, <5>1
          <5>2. CASE Home(e[j].id) = j
            BY <5>2
          <5> QED
            BY <1>5, <5>1, <5>2
        <4> QED
          BY <4>3
      <3>2. Probes(e, hash)
        BY <1>5, <2>4, <3>1 DEF Probes, Home
      <3> QED
        BY <1>5, <2>4, <3>2 DEF SoundOf
    <2> QED
      BY <1>1, <1>8, <2>1, <2>3, <2>4
  <1>10. CASE Shrinks(data_slots - 1)
    <2>1. n # 0 /\ Become(r)
      BY <1>1, <1>2, <1>10 DEF Shrinks
    <2>2. PICK l \in Nat : l = len /\ l <= data_capacity
      <3>1. CASE hash_disabled
        BY <1>7, <3>1
      <3>2. CASE ~hash_disabled
        <4>1. len = hash + MAX_COLLISION_PACK_DISTANCE
          BY <1>2, <2>1, <3>2 DEF DataHashLen
        <4>2. hash + MAX_COLLISION_PACK_DISTANCE \in Nat
          BY <1>7 DEF MAX_COLLISION_PACK_DISTANCE
        <4> QED
          BY <1>7, <1>8, <3>2, <4>1, <4>2
      <3> QED
        BY <3>1, <3>2
    <2> HIDE DEF len
    <2>3. PICK from \in Nat : from = 2 * n /\ from # 0
      BY <1>5, <2>1
    <2>4. PICK q : q = Rehash(e, l, data_capacity, x, from, hash)
      OBVIOUS
    <2>5. r = q
      BY <1>2, <1>3, <1>6, <2>2, <2>3, <2>4
    <2> HIDE DEF r
    <2>6. /\ q.fate \in {"ok", "hang", "undefined"}
          /\ ~Twice(e, DOMAIN e) => q.fate = "ok"
          /\ q.fate = "ok" => Relaid(q, e, from, l, data_capacity)
      <3> DEFINE s == Rehash(e, l, data_capacity, x, from, hash)
      <3>1. /\ IsSlots(e) /\ x \in Nat /\ \A i \in DOMAIN e : i < x
        BY <1>5
      <3>2. /\ s.fate \in {"ok", "hang", "undefined"}
            /\ ~Twice(e, DOMAIN e) => s.fate = "ok"
            /\ s.fate = "ok" => Relaid(s, e, from, l, data_capacity)
        BY <3>1, RehashIs
      <3> QED
        BY <2>4, <3>2
    <2>7. /\ fate' = q.fate
          /\ q.fate = "ok" => /\ data' = q.data /\ hash' = q.hash
                              /\ hash_disabled' = q.hash_disabled
                              /\ data_slots_end' = q.data_slots_end
                              /\ data_capacity' = q.data_capacity
          /\ q.fate # "ok" =>
               UNCHANGED <<data, hash, hash_disabled, data_slots_end, data_capacity>>
      BY <2>1, <2>5 DEF Become
    <2>8. ASSUME q.fate = "ok"
          PROVE  /\ ShapeIs'
                 /\ SoundOf(data, hash) => SoundOf(data', hash') /\ Drops(data', data, id)
      <3>1. Relaid(q, e, from, l, data_capacity)
        BY <2>6, <2>8
      <3>2. DOMAIN e # {}
        BY <1>5, <2>1, FS_EmptySet
      <3>3. /\ ShapeOf(q.data, Cardinality(DOMAIN e), q.data_slots_end, q.hash,
                       q.hash_disabled, q.data_capacity)
            /\ ~Twice(e, DOMAIN e) => SoundOf(q.data, q.hash)
        BY <1>5, <1>7, <2>2, <2>3, <3>1, <3>2, RelaidKeeps
      <3>4. ShapeIs'
        BY <1>1, <1>2, <1>5, <2>7, <2>8, <3>3 DEF ShapeIs
      <3>5. Rearranges(q.data, e)
        BY <3>1 DEF Relaid
      <3>6. Drops(e, data, id) => Drops(q.data, data, id)
        BY <3>5, RearrangedSets
      <3> QED
        BY <1>5, <2>7, <2>8, <3>3, <3>4, <3>6
    <2>9. SoundOf(data, hash) => q.fate = "ok"
      BY <1>5, <2>6
    <2> QED
      BY <1>1, <1>8, <2>6, <2>7, <2>8, <2>9
  <1> QED
    BY <1>9, <1>10

-----------------------------------------------------------------------------
(* The inductive invariant *)

\* The types of the slots, and of the fields next to the bit set.
SlotsTyped ==
  /\ hash \in 1 .. U16_MAX /\ hash_disabled \in BOOLEAN
  /\ \A i \in DOMAIN data : data[i] \in Entries
  /\ data_capacity \in Capacities
  /\ data_slots_end \in 1 .. U16_MAX

\* The part of the type invariant about the bit set and the bounds of the ids.
BoundsTyped ==
  /\ {data_slots_min, data_slots_max} \subseteq Ids \cup {0}
  /\ bits \subseteq Ids /\ bits_capacity \in BitCapacities

\* The type invariant in parts: slots, bounds, the count and how the program stopped.
LEMMA TypedIs ==
  TypeOK <=> /\ SlotsTyped /\ BoundsTyped /\ data_slots \in 0 .. U16_MAX - 1
             /\ fate \in {"ok", "panic", "hang", "undefined"} /\ sound \in BOOLEAN
  BY DEF TypeOK, SlotsTyped, BoundsTyped, BitCapacities

\* Slots in shape are typed; there are fewer entries than slots.
LEMMA ShapeTyped ==
  ASSUME ShapeIs
  PROVE  /\ SlotsTyped /\ data_slots \in 0 .. U16_MAX - 1
         /\ ~hash_disabled => data_slots + 1 \in 0 .. U16_MAX - 1
  <1>1. /\ hash \in Nat /\ hash # 0 /\ hash <= U16_MAX /\ hash_disabled \in BOOLEAN
        /\ data_slots_end \in Nat /\ data_slots_end # 0 /\ data_capacity \in Capacities
        /\ \A i \in DOMAIN data : i \in Nat /\ i # 0 /\ i < data_slots_end
        /\ \A i \in DOMAIN data : data[i] \in Entries
        /\ IsFiniteSet(DOMAIN data) /\ data_slots = Cardinality(DOMAIN data)
        /\ hash_disabled => data_slots_end <= hash
        /\ ~hash_disabled => /\ hash <= MAX_HASH
                             /\ data_slots_end < hash + MAX_COLLISION_PACK_DISTANCE
    BY DEF ShapeIs, ShapeOf, IsSlots
  <1>2. MAX_HASH \in Nat /\ MAX_HASH + 5 < U16_MAX /\ U16_MAX \in Nat
    BY MaxHashIs
  <1>3. data_slots_end <= U16_MAX /\ (~hash_disabled => data_slots_end < U16_MAX - 1)
    <2>1. CASE hash_disabled
      BY <1>1, <1>2, <2>1
    <2>2. CASE ~hash_disabled
      BY <1>1, <1>2, <2>2 DEF MAX_COLLISION_PACK_DISTANCE
    <2> QED
      BY <2>1, <2>2
  <1>4. SlotsTyped
    <2>1. hash \in 1 .. U16_MAX /\ data_slots_end \in 1 .. U16_MAX
      BY <1>1, <1>2, <1>3
    <2> QED
      BY <1>1, <2>1 DEF SlotsTyped
  <1>5. data_slots \in Nat /\ data_slots <= data_slots_end - 1
    <2> DEFINE last == data_slots_end - 1
               T == 1 .. last
    <2>1. last \in Nat
      BY <1>1
    <2> HIDE DEF last
    <2>2. IsFiniteSet(T) /\ Cardinality(T) = last
      BY <2>1, FS_Interval
    <2>3. DOMAIN data \in SUBSET T
      <3>1. \A i \in DOMAIN data : i \in Nat /\ i # 0 /\ i <= last
        BY <1>1 DEF last
      <3> QED
        BY <2>1, <3>1
    <2> HIDE DEF T
    <2>4. Cardinality(DOMAIN data) <= Cardinality(T)
      BY <2>2, <2>3, FS_Subset
    <2>5. data_slots \in Nat
      BY <1>1, FS_CardinalityType
    <2> QED
      BY <1>1, <2>2, <2>4, <2>5 DEF last
  <1>6. data_slots \in 0 .. U16_MAX - 1
    BY <1>1, <1>2, <1>3, <1>5
  <1>7. ~hash_disabled => data_slots + 1 \in 0 .. U16_MAX - 1
    BY <1>1, <1>2, <1>3, <1>5
  <1> QED
    BY <1>4, <1>6, <1>7

\* The bit set and the bounds agree with the ids J.
BoundsAgree(J) == Agrees(J, bits, data_slots_min, data_slots_max, bits_capacity)

\* bits!(@set) keeps the bounds of the ids right.
LEMMA SetBitKeeps ==
  ASSUME BoundsTyped, NEW id \in Ids, SetBit(id)
  PROVE  /\ BoundsTyped'
         /\ \A J \in SUBSET Ids : BoundsAgree(J) => BoundsAgree(J \cup {id})'
  <1> DEFINE words == id \div BITS_SIZE + 1
             grown == IF words <= bits_capacity THEN bits_capacity
                      ELSE ResizeCapacity(bits_capacity, bits_capacity, Capacity(words))
             lo == IF data_slots_min = 0 THEN id ELSE Min({data_slots_min, id})
             hi == Max({data_slots_max, id})
  <1>1. /\ bits' = bits \cup {id} /\ bits_capacity' = grown
        /\ data_slots_max' = hi /\ data_slots_min' = lo
    BY DEF SetBit
  <1>2. /\ data_slots_min \in Ids \cup {0} /\ data_slots_max \in Ids \cup {0}
        /\ bits \in SUBSET Ids /\ bits_capacity \in BitCapacities
    BY DEF BoundsTyped
  <1>3. PICK bc \in BitCapacities : bc = bits_capacity
    BY <1>2
  <1>4. /\ grown \in BitCapacities /\ grown >= bits_capacity
        /\ id \div BITS_SIZE \in Nat /\ id \div BITS_SIZE < grown
    <2> DEFINE w == id \div BITS_SIZE + 1
               g == IF w <= bc THEN bc ELSE ResizeCapacity(bc, bc, Capacity(w))
    <2>1. /\ g \in BitCapacities /\ g >= bc
          /\ id \div BITS_SIZE \in Nat /\ id \div BITS_SIZE < g
      BY BitsGrow
    <2>2. g = grown
      BY <1>3
    <2> HIDE DEF g, grown
    <2> QED
      BY <1>3, <2>1, <2>2
  <1>5. lo \in Ids /\ hi \in Ids
    BY <1>2, SetBitTyped
  <1> HIDE DEF grown
  <1>6. ASSUME NEW J \in SUBSET Ids, BoundsAgree(J)
        PROVE  Agrees(J \cup {id}, bits \cup {id}, lo, hi, grown)
    <2>1. Agrees(J, bits, data_slots_min, data_slots_max, bits_capacity)
      BY <1>6 DEF BoundsAgree
    <2> QED
      BY <1>2, <1>4, <2>1, SetBitAgrees
  <1> HIDE DEF lo, hi
  <1>7. BoundsTyped'
    BY <1>1, <1>2, <1>4, <1>5 DEF BoundsTyped
  <1> QED
    BY <1>1, <1>6, <1>7 DEF BoundsAgree

\* delete_bit() keeps the bounds of the ids right.
LEMMA DeleteBitKeeps ==
  ASSUME BoundsTyped, NEW id \in Ids, NEW n, DeleteBit(id, n)
  PROVE  /\ BoundsTyped'
         /\ \A J \in SUBSET Ids :
              BoundsAgree(J) /\ id \in J /\ (n = 0 <=> J \ {id} = {}) =>
                BoundsAgree(J \ {id})'
  <1>1. PICK left : left = bits \ {id}
    OBVIOUS
  <1>2. PICK max : max = MaxAfter(left, id, data_slots_min, data_slots_max)
    OBVIOUS
  <1>3. PICK min : min = MinAfter(left, id, data_slots_min, max)
    OBVIOUS
  <1>4. /\ bits' = left /\ bits_capacity' = bits_capacity
        /\ data_slots_max' = IF n = 0 THEN 0 ELSE max
        /\ data_slots_min' = IF n = 0 THEN 0 ELSE min
    BY <1>1, <1>2, <1>3 DEF DeleteBit
  <1>5. /\ data_slots_min \in Ids \cup {0} /\ data_slots_max \in Ids \cup {0}
        /\ bits \in SUBSET Ids /\ bits_capacity \in BitCapacities
        /\ left \in SUBSET Ids
    BY <1>1 DEF BoundsTyped
  <1>6. max \in Ids \cup {0}
    BY <1>2, <1>5, DeleteBitTyped
  <1>7. min \in Ids \cup {0}
    BY <1>3, <1>5, <1>6, DeleteBitTyped
  <1>8. BoundsTyped'
    <2>1. data_slots_max' \in Ids \cup {0} /\ data_slots_min' \in Ids \cup {0}
      BY <1>4, <1>6, <1>7
    <2> QED
      BY <1>4, <1>5, <2>1 DEF BoundsTyped
  <1>9. ASSUME NEW J \in SUBSET Ids, BoundsAgree(J), id \in J, n = 0 <=> J \ {id} = {}
        PROVE  BoundsAgree(J \ {id})'
    <2>1. Agrees(J, bits, data_slots_min, data_slots_max, bits_capacity)
      BY <1>9 DEF BoundsAgree
    <2>2. n = 0 <=> left = {}
      BY <1>1, <1>9, <2>1 DEF Agrees
    <2>3. Agrees(J \ {id}, left,
                 IF n = 0 THEN 0 ELSE MinAfter(left, id, data_slots_min, max),
                 IF n = 0 THEN 0 ELSE max, bits_capacity)
      BY <1>1, <1>2, <1>5, <1>9, <2>1, <2>2, DeleteBitAgrees, ZenonT(30)
    <2>4. Agrees(J \ {id}, bits', data_slots_min', data_slots_max', bits_capacity')
      BY <1>3, <1>4, <2>3
    <2> QED
      BY <2>4 DEF BoundsAgree
  <1> QED
    BY <1>8, <1>9

\* While every call put the entries where lookups find them, the slots are as sound
\* as they were, and the bit set and the bounds are those of their ids.
Kept == sound =>
  /\ fate = "ok" /\ SoundOf(data, hash)
  /\ BoundsAgree(IdsAt(data, DOMAIN data))

\* The inductive invariant.
IInv == TypeOK /\ (fate = "ok" => ShapeIs) /\ Kept

\* What a call of set(id, val) does to the slots.
LEMMA SetSlots ==
  ASSUME ShapeIs, fate = "ok", NEW id \in Ids, NEW val \in Vals, Set(id, val)
  PROVE  /\ fate' \in {"ok", "panic", "hang", "undefined"}
         /\ fate' = "ok" => SetDone(id, val)
         /\ fate' # "ok" =>
              /\ UNCHANGED <<data, hash, hash_disabled, data_slots_end, data_capacity>>
              /\ ~hash_disabled
         /\ \/ /\ UNCHANGED <<bounds, data_slots>>
               /\ fate' = "ok" => \E i \in DOMAIN data : data[i].id = id
            \/ SetBit(id) /\ data_slots' = data_slots + 1
  <1>1. CASE UpdateFast(id, val)
    <2>1. SetDone(id, val)
      BY <1>1, UpdateFastKeeps
    <2>2. UNCHANGED <<bounds, data_slots, fate>>
      BY <1>1 DEF UpdateFast
    <2>3. \E i \in DOMAIN data : data[i].id = id
      BY <1>1, IdAtIs DEF UpdateFast, AtHome
    <2> QED
      BY <2>1, <2>2, <2>3
  <1>2. CASE UpsertHashDisabled(id, val)
    <2>1. SetDone(id, val)
      BY <1>2, UpsertHashDisabledKeeps
    <2>2. /\ fate' = fate
          /\ id \in DOMAIN data => UNCHANGED <<data_slots, bounds>>
          /\ id \notin DOMAIN data => data_slots' = data_slots + 1 /\ SetBit(id)
      BY <1>2 DEF UpsertHashDisabled
    <2>3. id \in DOMAIN data => data[id].id = id
      BY <1>2 DEF UpsertHashDisabled, ShapeIs, ShapeOf
    <2> QED
      BY <2>1, <2>2, <2>3
  <1>3. CASE Insert(id, val)
    <2>1. SetDone(id, val)
      BY <1>3, InsertKeeps
    <2>2. SetBit(id) /\ data_slots' = data_slots + 1 /\ fate' = fate
      BY <1>3 DEF Insert
    <2> QED
      BY <2>1, <2>2
  <1>4. CASE UpdatePacked(id, val)
    <2>1. SetDone(id, val)
      BY <1>4, UpdatePackedKeeps
    <2>2. UNCHANGED <<bounds, data_slots, fate>> /\ Packed(id) # {}
      BY <1>4 DEF UpdatePacked
    <2>3. \E i \in DOMAIN data : data[i].id = id
      BY <2>2, IdAtIs DEF Packed
    <2> QED
      BY <2>1, <2>2, <2>3
  <1>5. CASE InsertPacked(id, val)
    <2>1. SetDone(id, val)
      BY <1>5, InsertPackedKeeps
    <2>2. SetBit(id) /\ data_slots' = data_slots + 1 /\ fate' = fate
      BY <1>5 DEF InsertPacked
    <2> QED
      BY <2>1, <2>2
  <1>6. CASE InsertRehash(id, val)
    <2>1. /\ fate' \in {"ok", "hang", "undefined"}
          /\ fate' = "ok" => SetDone(id, val)
          /\ fate' # "ok" =>
               UNCHANGED <<data, hash, hash_disabled, data_slots_end, data_capacity>>
          /\ data_slots' = data_slots + 1
      BY <1>6, InsertRehashKeeps
    <2>2. SetBit(id) /\ ~hash_disabled
      BY <1>6 DEF InsertRehash, NoRoom
    <2> QED
      BY <2>1, <2>2
  <1>7. CASE InsertPanic(id)
    <2>1. fate' = "panic" /\ UNCHANGED <<slots, bounds>> /\ ~hash_disabled
      BY <1>7 DEF InsertPanic, NoRoom
    <2> QED
      BY <2>1 DEF slots
  <1> QED
    BY <1>1, <1>2, <1>3, <1>4, <1>5, <1>6, <1>7 DEF Set

\* The ids of entries are ids.
LEMMA IdsAtIs ==
  ASSUME NEW d, IsSlots(d)
  PROVE  IdsAt(d, DOMAIN d) \in SUBSET Ids
  <1>1. \A i \in DOMAIN d : d[i].id \in Ids
    BY EntryIs DEF IsSlots
  <1> QED
    BY <1>1 DEF IdsAt

\* A call that stops the program leaves the fields typed.
LEMMA StoppedTyped ==
  ASSUME SlotsTyped, UNCHANGED <<data, hash, hash_disabled, data_slots_end, data_capacity>>
  PROVE  SlotsTyped'
  BY DEF SlotsTyped

\* A set keeps the invariant; a sound one stores its entry, or push() has panicked.
LEMMA SetStep ==
  ASSUME IInv, fate = "ok", NEW id \in Ids, NEW val \in Vals, Set(id, val),
         sound' = (sound /\ fate' = "ok" /\ ~Displaces(id))
  PROVE  /\ IInv'
         /\ sound' => Sets(data', data, id, val)
         /\ sound /\ fate' # "ok" => fate' = "panic" /\ PushPanics
  <1>1. ShapeIs /\ Kept /\ BoundsTyped /\ sound \in BOOLEAN
    BY TypedIs DEF IInv
  <1>2. /\ fate' \in {"ok", "panic", "hang", "undefined"}
        /\ fate' = "ok" => SetDone(id, val)
        /\ fate' # "ok" =>
             /\ UNCHANGED <<data, hash, hash_disabled, data_slots_end, data_capacity>>
             /\ ~hash_disabled
        /\ \/ /\ UNCHANGED <<bounds, data_slots>>
              /\ fate' = "ok" => \E i \in DOMAIN data : data[i].id = id
           \/ SetBit(id) /\ data_slots' = data_slots + 1
    BY <1>1, SetSlots
  <1>3. /\ SlotsTyped /\ data_slots \in 0 .. U16_MAX - 1
        /\ ~hash_disabled => data_slots + 1 \in 0 .. U16_MAX - 1
    BY <1>1, ShapeTyped
  <1>4. fate' = "ok" => ShapeIs'
    BY <1>2 DEF SetDone
  <1>5. SlotsTyped' /\ data_slots' \in 0 .. U16_MAX - 1
    <2>1. CASE fate' = "ok"
      <3>1. ShapeIs'
        BY <1>4, <2>1
      <3>2. ShapeIs => SlotsTyped /\ data_slots \in 0 .. U16_MAX - 1
        BY ShapeTyped
      <3>3. (ShapeIs => SlotsTyped /\ data_slots \in 0 .. U16_MAX - 1)'
        <4>1. ASSUME ShapeIs PROVE SlotsTyped /\ data_slots \in 0 .. U16_MAX - 1
          BY <4>1, ShapeTyped
        <4> QED
          BY ShapeTyped, PTL
      <3> QED
        BY <3>1, <3>3
    <2>2. CASE fate' # "ok"
      <3>1. SlotsTyped'
        BY <1>2, <1>3, <2>2, StoppedTyped
      <3>2. data_slots' = data_slots \/ data_slots' = data_slots + 1
        BY <1>2 DEF bounds
      <3> QED
        BY <1>2, <1>3, <2>2, <3>1, <3>2
    <2> QED
      BY <2>1, <2>2
  <1>6. BoundsTyped'
    <2>1. CASE UNCHANGED bounds
      BY <1>1, <2>1 DEF BoundsTyped, bounds
    <2>2. CASE SetBit(id)
      BY <1>1, <2>2, SetBitKeeps
    <2> QED
      BY <1>2, <2>1, <2>2
  <1>7. TypeOK'
    <2>1. sound' \in BOOLEAN
      OBVIOUS
    <2> QED
      BY <1>2, <1>5, <1>6, <2>1 DEF TypeOK, SlotsTyped, BoundsTyped, BitCapacities
  <1>8. ASSUME sound' PROVE Kept' /\ Sets(data', data, id, val)
    <2>1. sound /\ fate' = "ok" /\ ~Displaces(id)
      BY <1>8
    <2>2. SoundOf(data, hash) /\ BoundsAgree(IdsAt(data, DOMAIN data))
      BY <1>1, <2>1 DEF Kept
    <2>3. SoundOf(data', hash') /\ Sets(data', data, id, val)
      BY <1>2, <2>1, <2>2 DEF SetDone
    <2>4. PICK J : J = IdsAt(data, DOMAIN data) /\ J \in SUBSET Ids
      BY <1>1, IdsAtIs DEF ShapeIs, ShapeOf
    <2>5. PICK K : K = IdsAt(data', DOMAIN data') /\ K = J \cup {id}
      BY <2>3, <2>4, SetsIds
    <2>6. BoundsAgree(K)'
      <3>1. CASE UNCHANGED bounds /\ \E i \in DOMAIN data : data[i].id = id
        <4>1. id \in J
          BY <2>4, <3>1 DEF IdsAt
        <4>2. K = J
          BY <2>5, <4>1
        <4> QED
          BY <2>2, <2>4, <3>1, <4>2 DEF BoundsAgree, bounds
      <3>2. CASE SetBit(id)
        <4>1. \A L \in SUBSET Ids : BoundsAgree(L) => BoundsAgree(L \cup {id})'
          BY <1>1, <3>2, SetBitKeeps
        <4> QED
          BY <2>2, <2>4, <2>5, <4>1
      <3> QED
        BY <1>2, <2>1, <3>1, <3>2
    <2> QED
      BY <2>1, <2>3, <2>5, <2>6 DEF Kept, BoundsAgree
  <1>9. ~sound' => Kept'
    BY DEF Kept
  <1>10. ASSUME sound, fate' # "ok" PROVE fate' = "panic" /\ PushPanics
    <2>1. SoundOf(data, hash)
      BY <1>1, <1>10 DEF Kept
    <2>2. ~InsertRehash(id, val)
      BY <1>1, <1>10, <2>1, InsertRehashKeeps
    <2>3. InsertPanic(id)
      BY <1>10, <2>2 DEF Set, UpdateFast, UpsertHashDisabled, Insert, UpdatePacked, InsertPacked
    <2> QED
      BY <2>3 DEF InsertPanic
  <1> QED
    BY <1>4, <1>7, <1>8, <1>9, <1>10 DEF IInv

\* An array without entries has no ids.
LEMMA NoEntries ==
  ASSUME ShapeIs
  PROVE  data_slots = 0 <=> IdsAt(data, DOMAIN data) = {}
  <1>1. IsFiniteSet(DOMAIN data) /\ data_slots = Cardinality(DOMAIN data)
    BY DEF ShapeIs, ShapeOf, IsSlots
  <1>2. data_slots = 0 <=> DOMAIN data = {}
    BY <1>1, FS_EmptySet
  <1> QED
    BY <1>2 DEF IdsAt

\* A delete keeps the invariant; a sound one takes out its entry and does not stop.
LEMMA DeleteStep ==
  ASSUME IInv, fate = "ok", NEW id \in Ids, Delete(id),
         sound' = (sound /\ fate' = "ok" /\ ~Orphans(id))
  PROVE  /\ IInv'
         /\ sound' => Drops(data', data, id)
         /\ sound => fate' = "ok"
         /\ DeleteIndex(id) # Nowhere
  <1>1. ShapeIs /\ Kept /\ BoundsTyped /\ sound \in BOOLEAN
    BY TypedIs DEF IInv
  <1>2. /\ fate' \in {"ok", "hang", "undefined"}
        /\ fate' = "ok" => ShapeIs'
        /\ SoundOf(data, hash) => fate' = "ok"
        /\ SoundOf(data, hash) /\ ~Orphans(id) =>
             SoundOf(data', hash') /\ Drops(data', data, id)
        /\ fate' # "ok" =>
             UNCHANGED <<data, hash, hash_disabled, data_slots_end, data_capacity>>
        /\ data_slots' = data_slots - 1 /\ data_slots # 0
    BY <1>1, DeleteKeeps
  <1>3. SlotsTyped /\ data_slots \in 0 .. U16_MAX - 1
    BY <1>1, ShapeTyped
  <1>4. PICK n : n = data_slots - 1 /\ DeleteBit(id, n) /\ DeleteIndex(id) # Nowhere
    BY DEF Delete
  <1>5. SlotsTyped' /\ data_slots' \in 0 .. U16_MAX - 1
    <2>1. CASE fate' = "ok"
      <3>1. ShapeIs'
        BY <1>2, <2>1
      <3>2. (ShapeIs => SlotsTyped)'
        <4>1. ShapeIs => SlotsTyped
          BY ShapeTyped
        <4> QED
          BY ShapeTyped, PTL
      <3>3. U16_MAX \in Nat
        BY DEF U16_MAX
      <3> QED
        BY <1>2, <1>3, <3>1, <3>2, <3>3
    <2>2. CASE fate' # "ok"
      <3>1. SlotsTyped'
        BY <1>2, <1>3, <2>2, StoppedTyped
      <3>2. U16_MAX \in Nat
        BY DEF U16_MAX
      <3> QED
        BY <1>2, <1>3, <3>1, <3>2
    <2> QED
      BY <2>1, <2>2
  <1>6. /\ BoundsTyped'
        /\ \A J \in SUBSET Ids :
             BoundsAgree(J) /\ id \in J /\ (n = 0 <=> J \ {id} = {}) =>
               BoundsAgree(J \ {id})'
    BY <1>1, <1>4, DeleteBitKeeps
  <1>7. TypeOK'
    <2>1. sound' \in BOOLEAN
      OBVIOUS
    <2> QED
      BY <1>2, <1>5, <1>6, <2>1 DEF TypeOK, SlotsTyped, BoundsTyped, BitCapacities
  <1>8. ASSUME sound' PROVE Kept' /\ Drops(data', data, id)
    <2>1. sound /\ fate' = "ok" /\ ~Orphans(id)
      BY <1>8
    <2>2. SoundOf(data, hash) /\ BoundsAgree(IdsAt(data, DOMAIN data))
      BY <1>1, <2>1 DEF Kept
    <2>3. SoundOf(data', hash') /\ Drops(data', data, id)
      BY <1>2, <2>1, <2>2
    <2>4. PICK J : J = IdsAt(data, DOMAIN data) /\ J \in SUBSET Ids
      BY <1>1, IdsAtIs DEF ShapeIs, ShapeOf
    <2>5. PICK K : K = IdsAt(data', DOMAIN data') /\ K = J \ {id}
      <3>1. ASSUME NEW val \in Vals PROVE IdsAt(data', DOMAIN data') = J \ {id}
        BY <2>3, <2>4, <3>1, SetsIds
      <3>2. Vals # {}
        <4>1. PICK i \in DOMAIN data : TRUE
          BY <1>1, <1>4, DeleteIndexIs
        <4>2. data[i] \in Entries
          BY <1>1 DEF ShapeIs, ShapeOf, IsSlots
        <4> QED
          BY <4>2, EntryIs
      <3> QED
        BY <3>1, <3>2
    <2>6. id \in J
      <3>1. DeleteIndex(id) \in DOMAIN data /\ data[DeleteIndex(id)].id = id
        BY <1>1, <1>4, DeleteIndexIs
      <3> QED
        BY <2>4, <3>1 DEF IdsAt
    <2>7. n = 0 <=> J \ {id} = {}
      <3>1. ShapeIs'
        BY <1>2, <2>1
      <3>2. (ShapeIs => (data_slots = 0 <=> IdsAt(data, DOMAIN data) = {}))'
        <4>1. ShapeIs => (data_slots = 0 <=> IdsAt(data, DOMAIN data) = {})
          BY NoEntries
        <4> QED
          BY NoEntries, PTL
      <3> QED
        BY <1>2, <1>4, <2>5, <3>1, <3>2
    <2>8. BoundsAgree(K)'
      BY <1>6, <2>2, <2>4, <2>5, <2>6, <2>7
    <2> QED
      BY <2>1, <2>3, <2>5, <2>8 DEF Kept, BoundsAgree
  <1>9. ~sound' => Kept'
    BY DEF Kept
  <1>10. sound => fate' = "ok"
    BY <1>1, <1>2 DEF Kept
  <1> QED
    BY <1>2, <1>4, <1>7, <1>8, <1>9, <1>10 DEF IInv

\* A delete past the end of the array ends the program.
LEMMA DeletePastEndStep ==
  ASSUME IInv, fate = "ok", NEW id \in Ids, DeletePastEnd(id),
         sound' = (sound /\ fate' = "ok" /\ ~Orphans(id))
  PROVE  IInv' /\ ~sound' /\ fate' = "undefined"
  <1>1. fate' = "undefined" /\ UNCHANGED <<slots, bounds>>
    BY DEF DeletePastEnd
  <1>2. ~sound' /\ sound' \in BOOLEAN
    BY <1>1
  <1>3. TypeOK'
    BY <1>1, <1>2 DEF IInv, TypeOK, slots, bounds
  <1> QED
    BY <1>1, <1>2, <1>3 DEF IInv, Kept

\* A new array is sound.
LEMMA EmptyIs ==
  ASSUME NEW d, d = <<>>
  PROVE  /\ ShapeOf(d, 0, 1, 1, FALSE, 1) /\ SoundOf(d, 1)
         /\ IdsAt(d, DOMAIN d) = {} /\ DOMAIN d = {}
  <1>1. DOMAIN d = {} /\ d = [i \in DOMAIN d |-> d[i]]
    OBVIOUS
  <1>2. IsFiniteSet(DOMAIN d) /\ Cardinality(DOMAIN d) = 0
    BY <1>1, FS_EmptySet
  <1>3. IsSlots(d)
    BY <1>1, <1>2 DEF IsSlots
  <1>4. 1 \in Capacities /\ 1 <= U16_MAX /\ 1 <= MAX_HASH
    <2>1. 1 <= MAX_HASH
      BY MaxHashIs
    <2>2. 1 <= U16_MAX
      BY DEF U16_MAX
    <2>3. Min({2 ^ 0, U16_MAX}) \in Capacities
      BY DEF Capacities
    <2>4. 2 ^ 0 = 1
      OBVIOUS
    <2>5. Min({1, U16_MAX}) = 1
      <3>1. U16_MAX \in Nat /\ {1, U16_MAX} \in SUBSET Nat /\ \A x \in {1, U16_MAX} : 1 <= x
        BY DEF U16_MAX
      <3> QED
        BY <3>1, LeastIs
    <2> QED
      BY <2>1, <2>2, <2>3, <2>4, <2>5
  <1>5. ShapeOf(d, 0, 1, 1, FALSE, 1)
    BY <1>1, <1>2, <1>3, <1>4 DEF ShapeOf, MAX_COLLISION_PACK_DISTANCE
  <1> QED
    BY <1>1, <1>5 DEF SoundOf, Twice, Near, Probes, IdsAt

\* A state with a new array, and one that runs.
LEMMA NewIs ==
  ASSUME hash = 1, hash_disabled = FALSE, data = <<>>, data_capacity = 1,
         data_slots = 0, data_slots_end = 1, data_slots_min = 0, data_slots_max = 0,
         bits = {}, bits_capacity = 1, fate = "ok", sound = TRUE
  PROVE  IInv
  <1>1. /\ ShapeOf(data, 0, 1, 1, FALSE, 1) /\ SoundOf(data, 1)
        /\ IdsAt(data, DOMAIN data) = {} /\ DOMAIN data = {}
    BY EmptyIs
  <1>2. ShapeIs
    BY <1>1 DEF ShapeIs
  <1>3. SlotsTyped /\ data_slots \in 0 .. U16_MAX - 1
    BY <1>2, ShapeTyped
  <1>4. bits_capacity \in BitCapacities
    <2>1. 2 ^ 0 \in BitCapacities
      BY DEF BitCapacities
    <2>2. 2 ^ 0 = 1
      OBVIOUS
    <2> QED
      BY <2>1, <2>2
  <1>5. BoundsTyped
    BY <1>4 DEF BoundsTyped
  <1>6. TypeOK
    BY <1>3, <1>5, TypedIs
  <1>7. BoundsAgree({})
    <2>1. 0 \div BITS_SIZE = 0
      BY DEF BITS_SIZE
    <2> QED
      BY <2>1 DEF BoundsAgree, Agrees
  <1> QED
    BY <1>1, <1>2, <1>6, <1>7 DEF IInv, Kept

-----------------------------------------------------------------------------
(* What follows from the invariant *)

\* While no id has two entries, there are as many ids as entries.
LEMMA AsManyIds ==
  ASSUME NEW d, IsSlots(d), ~Twice(d, DOMAIN d)
  PROVE  Cardinality(IdsAt(d, DOMAIN d)) = Cardinality(DOMAIN d)
  <1> DEFINE J == IdsAt(d, DOMAIN d)
             f == [i \in DOMAIN d |-> d[i].id]
  <1>1. IsFiniteSet(DOMAIN d)
    BY DEF IsSlots
  <1>2. f \in [DOMAIN d -> J] /\ \A x \in J : \E i \in DOMAIN d : f[i] = x
    BY DEF IdsAt
  <1>3. \A i, j \in DOMAIN d : f[i] = f[j] => i = j
    BY DEF Twice
  <1>4. f \in Surjection(DOMAIN d, J)
    BY <1>2 DEF Surjection
  <1>5. f \in Injection(DOMAIN d, J)
    BY <1>2, <1>3 DEF Injection, IsInjective
  <1> HIDE DEF f, J
  <1>6. Cardinality(J) = Cardinality(DOMAIN d)
    BY <1>1, <1>4, <1>5, FS_Surjection
  <1> QED
    BY <1>6 DEF J

\* A lookup finds each entry of a sound array, and no other id.
LEMMA GetIs ==
  ASSUME ShapeIs, SoundOf(data, hash)
  PROVE  /\ \A i \in DOMAIN data : Get(data[i].id) = i
         /\ Stored = IdsAt(data, DOMAIN data)
  <1>1. /\ IsSlots(data) /\ hash \in Nat /\ hash # 0
        /\ data_slots = Cardinality(DOMAIN data) /\ IsFiniteSet(DOMAIN data)
        /\ DOMAIN data \in SUBSET Nat
    BY DEF ShapeIs, ShapeOf, IsSlots
  <1>2. ASSUME NEW i \in DOMAIN data PROVE Get(data[i].id) = i
    <2>1. PICK id \in Ids : id = data[i].id
      BY <1>1, EntryIs DEF IsSlots
    <2>2. /\ Home(id) <= i /\ i < Home(id) + MAX_COLLISION_PACK_DISTANCE
          /\ id < hash => i = Home(id)
      BY <2>1 DEF SoundOf, Near, Probes, Home
    <2>3. /\ Home(id) \in Nat /\ Home(id) < hash /\ (id < hash => Home(id) = id)
          /\ \A j \in Reach(id) : j \in Nat
          /\ \A j \in DOMAIN data :
               Home(id) < j /\ j < Home(id) + MAX_COLLISION_PACK_DISTANCE => j \in Reach(id)
      BY ReachIs
    <2> DEFINE at == {j \in {Home(id)} \cup Reach(id) :
                        j < DataHashLen(data_slots) /\ IdAt(data, j) = id}
    <2>4. Get(id) = IF id < hash THEN id ELSE IF at = {} THEN 0 ELSE Min(at)
      BY DEF Get
    <2>5. CASE id < hash
      BY <2>1, <2>2, <2>3, <2>4, <2>5
    <2>6. CASE ~(id < hash)
      <3>1. i \in Nat /\ i \in {Home(id)} \cup Reach(id)
        BY <1>1, <2>2, <2>3
      <3>2. DataHashLen(data_slots) = hash + MAX_COLLISION_PACK_DISTANCE
        BY <1>1, FS_EmptySet DEF DataHashLen
      <3>3. i < DataHashLen(data_slots)
        BY <1>1, <2>2, <2>3, <3>1, <3>2 DEF MAX_COLLISION_PACK_DISTANCE
      <3>4. i \in at
        BY <2>1, <3>1, <3>3, IdAtIs
      <3>5. \A j \in at : j = i
        BY <2>1, IdAtIs DEF SoundOf, Twice
      <3>6. at \in SUBSET Nat
        BY <2>3
      <3> HIDE DEF at
      <3>7. Min(at) \in at
        BY <3>4, <3>6, LeastOf
      <3> QED
        BY <2>1, <2>4, <2>6, <3>4, <3>5, <3>7
    <2> QED
      BY <2>5, <2>6
  <1>3. ASSUME NEW id \in Stored PROVE id \in IdsAt(data, DOMAIN data)
    <2>1. id \in Ids /\ IdAt(data, Get(id)) = id
      BY DEF Stored
    <2>2. Get(id) \in DOMAIN data /\ data[Get(id)].id = id
      BY <2>1, IdAtIs
    <2> QED
      BY <2>2 DEF IdsAt
  <1>4. ASSUME NEW id \in IdsAt(data, DOMAIN data) PROVE id \in Stored
    <2>1. PICK i \in DOMAIN data : data[i].id = id
      BY DEF IdsAt
    <2>2. id \in Ids
      BY <1>1, <2>1, EntryIs DEF IsSlots
    <2>3. Get(id) = i
      BY <1>2, <2>1
    <2> QED
      BY <2>1, <2>2, <2>3, IdAtIs DEF Stored
  <1> QED
    BY <1>2, <1>3, <1>4

\* What the invariant says of a sound array.
LEMMA SoundIs ==
  ASSUME IInv, sound
  PROVE  /\ fate = "ok" /\ ShapeIs /\ SoundOf(data, hash)
         /\ BoundsAgree(IdsAt(data, DOMAIN data))
  BY DEF IInv, Kept

\* The invariant says where every entry of a sound array is,
LEMMA InvProbeable ==
  ASSUME IInv
  PROVE  Probeable
  <1> SUFFICES ASSUME sound, NEW i \in DOMAIN data
               PROVE  /\ i \in Home(data[i].id)
                             .. Home(data[i].id) + MAX_COLLISION_PACK_DISTANCE - 1
                      /\ Home(data[i].id) = 0 \/ Home(data[i].id) \in DOMAIN data
                      /\ data[i].id < hash => i = Home(data[i].id)
    BY DEF Probeable
  <1>1. ShapeIs /\ SoundOf(data, hash)
    BY SoundIs
  <1> DEFINE home == Home(data[i].id)
  <1>2. home \in Nat /\ i \in Nat
    <2>1. data[i].id \in Ids /\ i \in Nat /\ hash \in Nat /\ hash # 0
      BY <1>1, EntryIs DEF ShapeIs, ShapeOf, IsSlots
    <2> QED
      BY <2>1, HomeIs DEF Home
  <1>3. /\ home <= i /\ i < home + MAX_COLLISION_PACK_DISTANCE
        /\ home = 0 \/ home \in DOMAIN data
        /\ data[i].id < hash => i = home
    BY <1>1 DEF SoundOf, Near, Probes, Home
  <1> HIDE DEF home
  <1>4. i \in home .. home + MAX_COLLISION_PACK_DISTANCE - 1
    BY <1>2, <1>3 DEF MAX_COLLISION_PACK_DISTANCE
  <1> QED
    BY <1>3, <1>4 DEF home

\* that its counters agree,
LEMMA InvCountsAgree ==
  ASSUME IInv
  PROVE  CountsAgree
  <1> DEFINE ids == {data[i].id : i \in DOMAIN data}
  <1> SUFFICES ASSUME sound
               PROVE  /\ bits = ids
                      /\ data_slots = Cardinality(DOMAIN data)
                      /\ data_slots = Cardinality(ids)
                      /\ data_slots_min = IF ids = {} THEN 0 ELSE Min(ids)
                      /\ data_slots_max = IF ids = {} THEN 0 ELSE Max(ids)
                      /\ data_slots_max \div BITS_SIZE < bits_capacity
    BY DEF CountsAgree
  <1>1. ShapeIs /\ SoundOf(data, hash) /\ BoundsAgree(IdsAt(data, DOMAIN data))
    BY SoundIs
  <1>2. ids = IdsAt(data, DOMAIN data)
    BY DEF IdsAt
  <1>3. /\ data_slots = Cardinality(DOMAIN data)
        /\ Cardinality(IdsAt(data, DOMAIN data)) = Cardinality(DOMAIN data)
    BY <1>1, AsManyIds DEF ShapeIs, ShapeOf, SoundOf
  <1> HIDE DEF ids
  <1> QED
    BY <1>1, <1>2, <1>3 DEF BoundsAgree, Agrees

\* that its end and allocation are right,
LEMMA InvCovered ==
  ASSUME IInv
  PROVE  Covered
  <1> SUFFICES ASSUME sound
               PROVE  /\ DOMAIN data \subseteq 1 .. data_slots_end - 1
                      /\ data_slots_end <= DataLen /\ DataLen <= data_capacity
    BY DEF Covered
  <1>1. /\ hash \in Nat /\ hash # 0 /\ hash_disabled \in BOOLEAN
        /\ data_slots_end \in Nat /\ data_slots_end # 0 /\ data_capacity \in Capacities
        /\ \A i \in DOMAIN data : i \in Nat /\ i # 0 /\ i < data_slots_end
        /\ data_slots = 0 => data_slots_end = 1
        /\ hash_disabled => data_slots_end <= hash /\ hash <= data_capacity
        /\ ~hash_disabled => /\ data_slots_end < hash + MAX_COLLISION_PACK_DISTANCE
                             /\ hash = 1 => data_slots = 0
                             /\ hash # 1 => hash + MAX_COLLISION_PACK_DISTANCE <= data_capacity
    BY SoundIs DEF ShapeIs, ShapeOf, IsSlots
  <1>2. data_capacity \in Nat /\ data_capacity >= 1
    BY <1>1, CapacitiesAre
  <1>3. DOMAIN data \subseteq 1 .. data_slots_end - 1
    BY <1>1
  <1>4. DataLen = IF hash_disabled THEN hash
                  ELSE IF data_slots = 0 THEN 1 ELSE hash + MAX_COLLISION_PACK_DISTANCE
    BY DEF DataLen, DataHashLen
  <1>5. data_slots_end <= DataLen /\ DataLen <= data_capacity
    BY <1>1, <1>2, <1>4 DEF MAX_COLLISION_PACK_DISTANCE
  <1> QED
    BY <1>3, <1>5

\* and that delete() finds all but the multiples of the hash.
LEMMA InvDeleteFinds ==
  ASSUME IInv
  PROVE  DeleteFinds
  <1> SUFFICES ASSUME sound, NEW id \in Stored, Home(id) # 0
               PROVE  DeleteIndex(id) # Nowhere
    BY DEF DeleteFinds
  <1>1. ShapeIs /\ SoundOf(data, hash)
    BY SoundIs
  <1>2. id \in Ids /\ id \in IdsAt(data, DOMAIN data)
    BY <1>1, GetIs DEF Stored
  <1>3. PICK i \in DOMAIN data : data[i].id = id
    BY <1>2 DEF IdsAt
  <1>4. /\ Home(id) <= i /\ i < Home(id) + MAX_COLLISION_PACK_DISTANCE
        /\ Home(id) \in DOMAIN data
    BY <1>1, <1>3 DEF SoundOf, Near, Probes, Home
  <1>5. /\ Home(id) \in Nat /\ i \in Nat /\ \A j \in Reach(id) : j \in Nat
        /\ Home(id) < i /\ i < Home(id) + MAX_COLLISION_PACK_DISTANCE => i \in Reach(id)
    BY <1>1, <1>2, ReachIs DEF ShapeIs, ShapeOf, IsSlots
  <1> DEFINE at == {j \in {Home(id)} \cup Reach(id) : IdAt(data, j) = id}
  <1>6. i \in at /\ at \in SUBSET Nat
    BY <1>2, <1>3, <1>4, <1>5, IdAtIs
  <1>7. DeleteIndex(id) = Min(at)
    BY <1>4, <1>6 DEF DeleteIndex
  <1> HIDE DEF at
  <1>8. Min(at) \in Nat
    BY <1>6, LeastOf
  <1> QED
    BY <1>7, <1>8 DEF Nowhere

-----------------------------------------------------------------------------
(* The theorems *)

\* The array starts empty and sound.
LEMMA InitIInv == Init => IInv
  BY NewIs DEF Init

\* A new array is sound.
LEMMA DropStep ==
  ASSUME IInv, fate = "ok", Drop, sound' = TRUE
  PROVE  IInv' /\ fate' = "ok" /\ data' = <<>>
  <1>1. /\ hash' = 1 /\ hash_disabled' = FALSE /\ data' = <<>> /\ data_capacity' = 1
        /\ data_slots' = 0 /\ data_slots_end' = 1
        /\ data_slots_min' = 0 /\ data_slots_max' = 0
        /\ bits' = {} /\ bits_capacity' = 1 /\ fate' = "ok" /\ sound' = TRUE
    BY DEF Drop
  <1>2. (/\ hash = 1 /\ hash_disabled = FALSE /\ data = <<>> /\ data_capacity = 1
         /\ data_slots = 0 /\ data_slots_end = 1 /\ data_slots_min = 0 /\ data_slots_max = 0
         /\ bits = {} /\ bits_capacity = 1 /\ fate = "ok" /\ sound = TRUE
         => IInv)'
    <2>1. /\ hash = 1 /\ hash_disabled = FALSE /\ data = <<>> /\ data_capacity = 1
          /\ data_slots = 0 /\ data_slots_end = 1 /\ data_slots_min = 0 /\ data_slots_max = 0
          /\ bits = {} /\ bits_capacity = 1 /\ fate = "ok" /\ sound = TRUE
          => IInv
      BY NewIs
    <2> QED
      BY NewIs, PTL
  <1> QED
    BY <1>1, <1>2

\* The steps of the array, each with the call that makes it.
LEMMA StepOf ==
  ASSUME Next
  PROVE  /\ fate = "ok"
         /\ \/ \E id \in Ids, val \in Vals :
                 Set(id, val) /\ sound' = (sound /\ fate' = "ok" /\ ~Displaces(id))
            \/ \E id \in Ids :
                 Delete(id) /\ sound' = (sound /\ fate' = "ok" /\ ~Orphans(id))
            \/ \E id \in Ids :
                 DeletePastEnd(id) /\ sound' = (sound /\ fate' = "ok" /\ ~Orphans(id))
            \/ Drop /\ sound' = TRUE
  BY DEF Next

\* Every step keeps the invariant.
LEMMA StepIInv == IInv /\ [Next]_vars => IInv'
  <1> SUFFICES ASSUME IInv, [Next]_vars PROVE IInv'
    OBVIOUS
  <1>1. CASE UNCHANGED vars
    BY <1>1 DEF vars, slots, bounds, IInv, TypeOK, ShapeIs, Kept, BoundsAgree
  <1>2. CASE Next
    <2>1. fate = "ok"
      BY <1>2, StepOf
    <2>2. ASSUME NEW id \in Ids, NEW val \in Vals, Set(id, val),
                 sound' = (sound /\ fate' = "ok" /\ ~Displaces(id))
          PROVE  IInv'
      BY <2>1, <2>2, SetStep
    <2>3. ASSUME NEW id \in Ids, Delete(id), sound' = (sound /\ fate' = "ok" /\ ~Orphans(id))
          PROVE  IInv'
      BY <2>1, <2>3, DeleteStep
    <2>4. ASSUME NEW id \in Ids, DeletePastEnd(id),
                 sound' = (sound /\ fate' = "ok" /\ ~Orphans(id))
          PROVE  IInv'
      BY <2>1, <2>4, DeletePastEndStep
    <2>5. ASSUME Drop, sound' = TRUE PROVE IInv'
      BY <2>1, <2>5, DropStep
    <2> QED
      BY <1>2, <2>2, <2>3, <2>4, <2>5, StepOf
  <1> QED
    BY <1>1, <1>2

\* The inductive invariant holds of every reachable state.
THEOREM Invariance == Spec => []IInv
  BY InitIInv, StepIInv, PTL DEF Spec

\* The fields have their types: hash and the counts stay within u16, the capacities
\* are ones a RawVecU16 has, and the bit set holds ids only.
THEOREM TypesOK == Spec => []TypeOK
  <1>1. IInv => TypeOK
    BY DEF IInv
  <1> QED
    BY <1>1, Invariance, PTL

\* set(), first_() and get_() find every entry of a sound array: rehash_data() and the
\* calls that keep it sound leave each one where they look for it.
THEOREM AlwaysProbeable == Spec => []Probeable
  BY InvProbeable, Invariance, PTL

\* The bit set, the count and the least and greatest id are those of the slots.
THEOREM AlwaysCounted == Spec => []CountsAgree
  BY InvCountsAgree, Invariance, PTL

\* The entries are below data_slots_end and within the allocation.
THEOREM AlwaysCovered == Spec => []Covered
  BY InvCovered, Invariance, PTL

\* delete() finds what lookups find, but for multiples of the hash.
THEOREM DeleteAlwaysFinds == Spec => []DeleteFinds
  BY InvDeleteFinds, Invariance, PTL

-----------------------------------------------------------------------------
\* What stops a call.
Causes ==
  /\ fate' = "hang" => ~sound
  /\ fate' = "panic" /\ sound => data = <<>>
  /\ fate' = "undefined" /\ sound => \E id \in Ids \ Stored : DeletePastEnd(id)

\* push() fails its assertion only where nothing is stored.
LEMMA PanicEmpty ==
  ASSUME ShapeIs, ~hash_disabled, PushPanics
  PROVE  data = <<>>
  <1>1. /\ data_slots_end \in Nat /\ hash \in Nat
        /\ data_slots_end < hash + MAX_COLLISION_PACK_DISTANCE
        /\ data_slots = Cardinality(DOMAIN data) /\ IsFiniteSet(DOMAIN data)
        /\ data = [i \in DOMAIN data |-> data[i]]
    BY DEF ShapeIs, ShapeOf, IsSlots
  <1>2. data_slots # 0 => DataHashLen(data_slots) = hash + MAX_COLLISION_PACK_DISTANCE
    BY DEF DataHashLen
  <1> DEFINE len == DataHashLen(data_slots)
  <1>3. len \in Nat
    BY <1>1 DEF DataHashLen, MAX_COLLISION_PACK_DISTANCE
  <1>4. data_slots_end = (len + 1) - 1
    BY DEF PushPanics
  <1> HIDE DEF len
  <1>5. data_slots_end = len
    BY <1>3, <1>4
  <1>6. data_slots = 0
    BY <1>1, <1>2, <1>5 DEF len, MAX_COLLISION_PACK_DISTANCE
  <1>7. DOMAIN data = {}
    BY <1>1, <1>6, FS_EmptySet
  <1> QED
    BY <1>1, <1>7

\* Every step that stops the program has one of the causes.
LEMMA StepCauses == IInv /\ [Next]_vars => [Causes]_vars
  <1> SUFFICES ASSUME IInv, Next PROVE Causes
    OBVIOUS
  <1>1. fate = "ok" /\ ShapeIs
    BY StepOf DEF IInv
  <1>2. ASSUME NEW id \in Ids, NEW val \in Vals, Set(id, val),
               sound' = (sound /\ fate' = "ok" /\ ~Displaces(id))
        PROVE  Causes
    <2>1. sound /\ fate' # "ok" => fate' = "panic" /\ PushPanics
      BY <1>1, <1>2, SetStep
    <2>2. fate' # "ok" => ~hash_disabled
      BY <1>1, <1>2, SetSlots
    <2> QED
      BY <1>1, <2>1, <2>2, PanicEmpty DEF Causes
  <1>3. ASSUME NEW id \in Ids, Delete(id), sound' = (sound /\ fate' = "ok" /\ ~Orphans(id))
        PROVE  Causes
    <2>1. sound => fate' = "ok"
      BY <1>1, <1>3, DeleteStep
    <2> QED
      BY <2>1 DEF Causes
  <1>4. ASSUME NEW id \in Ids, DeletePastEnd(id),
               sound' = (sound /\ fate' = "ok" /\ ~Orphans(id))
        PROVE  Causes
    <2>1. fate' = "undefined"
      BY <1>4 DEF DeletePastEnd
    <2>2. ASSUME sound PROVE id \notin Stored
      <3>1. DeletePastEnd(id) => Home(id) \in DOMAIN data /\ DeleteIndex(id) = Nowhere
        BY DEF DeletePastEnd
      <3>2. Home(id) # 0
        BY <1>1, <1>4, <3>1 DEF ShapeIs, ShapeOf
      <3>3. id \in Stored => DeleteIndex(id) # Nowhere
        BY <2>2, <3>2, InvDeleteFinds DEF DeleteFinds
      <3> QED
        BY <1>4, <3>1, <3>3
    <2> QED
      BY <1>4, <2>1, <2>2 DEF Causes
  <1>5. ASSUME Drop, sound' = TRUE PROVE Causes
    BY <1>1, <1>5, DropStep DEF Causes
  <1> QED
    BY <1>2, <1>3, <1>4, <1>5, StepOf

\* A call of a sound array returns, but for a set() that finds the array emptied by
\* delete() and for a delete() of an id that is not stored.
THEOREM StopsExplained == Spec => StopCauses
  BY Invariance, StepCauses, PTL DEF Spec, StopCauses, Causes

-----------------------------------------------------------------------------
(* The refinement *)

\* What the map holds, as the entries of the slots give it.
Contents == [id \in Stored |-> data[Get(id)].val]
\* c maps the ids of the entries E to their values.
Maps(c, E) ==
  /\ c = [id \in DOMAIN c |-> c[id]]
  /\ \A id : id \in DOMAIN c <=> \E x \in E : x.id = id
  /\ \A x \in E : c[x.id] = x.val

\* What the lookups of a sound array find are its entries.
LEMMA ContentsAre ==
  ASSUME ShapeIs, SoundOf(data, hash)
  PROVE  Maps(Contents, EntriesOf(data)) /\ DOMAIN Contents \subseteq Ids
  <1>1. /\ \A i \in DOMAIN data : Get(data[i].id) = i
        /\ Stored = IdsAt(data, DOMAIN data)
    BY GetIs
  <1>2. Contents = [id \in DOMAIN Contents |-> Contents[id]] /\ DOMAIN Contents = Stored
    BY DEF Contents
  <1>3. \A id : id \in Stored <=> \E x \in EntriesOf(data) : x.id = id
    BY <1>1 DEF IdsAt, EntriesOf
  <1>4. ASSUME NEW x \in EntriesOf(data) PROVE Contents[x.id] = x.val
    <2>1. PICK i \in DOMAIN data : x = data[i]
      BY DEF EntriesOf
    <2>2. x.id \in Stored /\ Get(x.id) = i
      BY <1>1, <1>3, <2>1
    <2> QED
      BY <2>1, <2>2 DEF Contents
  <1> QED
    BY <1>2, <1>3, <1>4 DEF Maps, Stored

\* The map that set(id, val) leaves, and the one delete(id) leaves.
LEMMA MapsSets ==
  ASSUME NEW d, NEW e, NEW c, NEW g, Maps(c, EntriesOf(d)), Maps(g, EntriesOf(e)),
         NEW id \in Ids, NEW val \in Vals, Sets(e, d, id, val)
  PROVE  g = [k \in DOMAIN c \cup {id} |-> IF k = id THEN val ELSE c[k]]
  <1> DEFINE E == EntriesOf(d)
             F == EntriesOf(e)
             x == Entry(id, val)
  <1>1. x.id = id /\ x.val = val
    BY NewEntryIs
  <1> HIDE DEF x
  <1>2. \A y : y \in F <=> (y \in E /\ y.id # id) \/ y = x
    BY DEF Sets, x
  <1>3. /\ g = [k \in DOMAIN g |-> g[k]]
        /\ \A k : k \in DOMAIN g <=> \E y \in F : y.id = k
        /\ \A y \in F : g[y.id] = y.val
        /\ \A k : k \in DOMAIN c <=> \E y \in E : y.id = k
        /\ \A y \in E : c[y.id] = y.val
    BY DEF Maps
  <1> HIDE DEF E, F
  <1>4. \A k : k \in DOMAIN g <=> k \in DOMAIN c \/ k = id
    BY <1>1, <1>2, <1>3
  <1>5. g[id] = val
    BY <1>1, <1>2, <1>3
  <1>6. ASSUME NEW k \in DOMAIN g, k # id PROVE g[k] = c[k]
    <2>1. PICK y \in F : y.id = k
      BY <1>3
    <2>2. y \in E
      BY <1>1, <1>2, <1>6, <2>1
    <2> QED
      BY <1>3, <2>1, <2>2
  <1>7. DOMAIN g = DOMAIN c \cup {id}
    BY <1>4
  <1> QED
    BY <1>3, <1>5, <1>6, <1>7

\* Without the entry of id, the map is without id.
LEMMA MapsDrops ==
  ASSUME NEW d, NEW e, NEW c, NEW g, Maps(c, EntriesOf(d)), Maps(g, EntriesOf(e)),
         NEW id, Drops(e, d, id)
  PROVE  g = [k \in DOMAIN c \ {id} |-> c[k]]
  <1> DEFINE E == EntriesOf(d)
             F == EntriesOf(e)
  <1>1. \A y : y \in F <=> y \in E /\ y.id # id
    BY DEF Drops
  <1>2. /\ g = [k \in DOMAIN g |-> g[k]]
        /\ \A k : k \in DOMAIN g <=> \E y \in F : y.id = k
        /\ \A y \in F : g[y.id] = y.val
        /\ \A k : k \in DOMAIN c <=> \E y \in E : y.id = k
        /\ \A y \in E : c[y.id] = y.val
    BY DEF Maps
  <1> HIDE DEF E, F
  <1>3. \A k : k \in DOMAIN g <=> k \in DOMAIN c /\ k # id
    BY <1>1, <1>2
  <1>4. ASSUME NEW k \in DOMAIN g PROVE g[k] = c[k]
    <2>1. PICK y \in F : y.id = k
      BY <1>2
    <2> QED
      BY <1>1, <1>2, <2>1
  <1>5. DOMAIN g = DOMAIN c \ {id}
    BY <1>3
  <1> QED
    BY <1>2, <1>4, <1>5

\* An empty array is an empty map.
LEMMA EmptyContents ==
  ASSUME ShapeIs, SoundOf(data, hash), data = <<>>
  PROVE  Contents = <<>>
  <1>1. Stored = {}
    BY GetIs, EmptyIs
  <1> QED
    BY <1>1 DEF Contents

\* What the invariant says of the map of a sound array, before a step and after it.
SoundMap ==
  sound => Maps(Contents, EntriesOf(data)) /\ (data = <<>> => Contents = <<>>)

\* The lookups of a sound array are a map of its entries.
LEMMA SoundMapIs == IInv => SoundMap
  <1> SUFFICES ASSUME IInv, sound
               PROVE  /\ Maps(Contents, EntriesOf(data))
                      /\ data = <<>> => Contents = <<>>
    BY DEF SoundMap
  <1>1. ShapeIs /\ SoundOf(data, hash)
    BY SoundIs
  <1> QED
    BY <1>1, ContentsAre, EmptyContents

\* A new array is an empty map.
LEMMA InitMap == Init => Map!Init
  <1> SUFFICES ASSUME Init PROVE Map!Init
    OBVIOUS
  <1>1. sound = TRUE /\ data = <<>>
    BY DEF Init
  <1>2. Contents = <<>>
    BY <1>1, InitIInv, SoundMapIs DEF SoundMap
  <1> QED
    BY <1>1, <1>2 DEF Map!Init, Contents

\* Every step of the array is one of the map, or leaves it alone.
LEMMA StepMap == IInv /\ IInv' /\ [Next]_vars => [Map!Next]_(Map!vars)
  <1> SUFFICES ASSUME IInv, IInv', [Next]_vars
               PROVE  Map!Next \/ UNCHANGED Map!vars
    OBVIOUS
  <1>1. CASE UNCHANGED vars
    BY <1>1 DEF vars, slots, Map!vars, Stored, IdAt, Get, Home, Reach, DataHashLen
  <1>2. CASE Next /\ ~sound'
    BY <1>2 DEF Map!Next, Map!Break
  <1>3. CASE Next /\ sound'
    <2>1. fate = "ok" /\ sound \in BOOLEAN /\ sound' \in BOOLEAN
      BY <1>3, StepOf DEF IInv, TypeOK
    <2>2. SoundMap /\ SoundMap'
      <3>1. (IInv => SoundMap)'
        BY SoundMapIs, PTL
      <3> QED
        BY <3>1, SoundMapIs
    <2>3. ASSUME NEW id \in Ids, NEW val \in Vals, Set(id, val),
                 sound' = (sound /\ fate' = "ok" /\ ~Displaces(id))
          PROVE  Map!Next
      <3>1. sound /\ sound' = sound /\ Sets(data', data, id, val)
        BY <1>3, <2>1, <2>3, SetStep
      <3>2. Maps(Contents, EntriesOf(data)) /\ Maps(Contents', EntriesOf(data'))
        BY <1>3, <2>2, <3>1 DEF SoundMap, EntriesOf
      <3>3. Contents' = [k \in DOMAIN Contents \cup {id} |->
                           IF k = id THEN val ELSE Contents[k]]
        <4>1. PICK c, g : c = Contents /\ g = Contents'
          OBVIOUS
        <4>2. PICK d, e : d = data /\ e = data'
          OBVIOUS
        <4>3. Maps(c, EntriesOf(d)) /\ Maps(g, EntriesOf(e)) /\ Sets(e, d, id, val)
          BY <3>1, <3>2, <4>1, <4>2
        <4>4. g = [k \in DOMAIN c \cup {id} |-> IF k = id THEN val ELSE c[k]]
          BY ONLY <4>3, MapsSets
        <4> QED
          BY <4>1, <4>4
      <3>4. Map!Set(id, val)
        BY <3>1, <3>3 DEF Map!Set, Map!With, Contents
      <3> QED
        BY <3>4 DEF Map!Next
    <2>4. ASSUME NEW id \in Ids, Delete(id), sound' = (sound /\ fate' = "ok" /\ ~Orphans(id))
          PROVE  Map!Next
      <3>1. sound /\ sound' = sound /\ Drops(data', data, id) /\ DeleteIndex(id) # Nowhere
        BY <1>3, <2>1, <2>4, DeleteStep
      <3>2. Maps(Contents, EntriesOf(data)) /\ Maps(Contents', EntriesOf(data'))
        BY <1>3, <2>2, <3>1 DEF SoundMap, EntriesOf
      <3>3. Contents' = [k \in DOMAIN Contents \ {id} |-> Contents[k]]
        BY <3>1, <3>2, MapsDrops
      <3>4. id \in DOMAIN Contents
        <4>1. ShapeIs
          BY <3>1, SoundIs
        <4>2. DeleteIndex(id) \in DOMAIN data /\ data[DeleteIndex(id)].id = id
          BY <3>1, <4>1, DeleteIndexIs
        <4> QED
          BY <3>2, <4>2 DEF Maps, EntriesOf
      <3>5. Map!Delete(id)
        BY <3>1, <3>3, <3>4 DEF Map!Delete, Contents
      <3> QED
        BY <3>5 DEF Map!Next
    <2>5. ASSUME NEW id \in Ids, DeletePastEnd(id),
                 sound' = (sound /\ fate' = "ok" /\ ~Orphans(id))
          PROVE  Map!Next
      BY <1>3, <2>1, <2>5, DeletePastEndStep
    <2>6. ASSUME Drop, sound' = TRUE PROVE Map!Next
      <3>1. data' = <<>>
        BY <2>6 DEF Drop
      <3>2. Contents' = <<>>
        BY <1>3, <2>2, <3>1 DEF SoundMap
      <3>3. Map!Drop
        BY <2>6, <3>2 DEF Map!Drop, Contents
      <3> QED
        BY <3>3 DEF Map!Next
    <2> QED
      BY <1>3, <2>3, <2>4, <2>5, <2>6, StepOf
  <1> QED
    BY <1>1, <1>2, <1>3

\* While sound, set, delete and the lookups are those of a map from ids to values.
THEOREM Refinement == Spec => ImplementsIdMap
  BY InitMap, Invariance, StepMap, PTL DEF Spec, ImplementsIdMap, Map!Spec
=============================================================================
