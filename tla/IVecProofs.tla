----------------------------- MODULE IVecProofs -----------------------------
(***************************************************************************)
(* Proofs about IVec, for every set of threads and of ids.                 *)
(***************************************************************************)
EXTENDS IVec, ExtremaProofs, TLAPS

-----------------------------------------------------------------------------
(* The inductive invariant *)

\* The snapshots from s on, for any prev.
Behind(p, s) ==
  LET closed == {C \in SUBSET Snaps :
        /\ s = 0 \/ s \in C
        /\ \A c \in C : p[c] = 0 \/ p[c] \in C}
  IN {x \in Snaps : \A C \in closed : x \in C}

Places == {"idle", "search", "cas", "need", "mark", "register", "return"}
Locals == [id : Ids \cup {0}, insert : BOOLEAN, rootPtr : Snaps \cup {0},
           new : Snaps \cup {0}, obj : Objects \cup {0}, snap : Snaps \cup {0},
           elem : Ids \cup {0}]

\* Calls in flight have an id; the static snapshot is empty.
Types ==
  /\ TypeOK
  /\ pc \in [Threads -> Places]
  /\ loc \in [Threads -> Locals]
  /\ \A t \in Threads : pc[t] \in {"search", "cas"} => loc[t].id \in Ids
  /\ DOMAIN data = Snaps \cup {0} /\ data[0] = Empty

\* The published snapshots: none is empty, each has its own number of ids, and the root
\* has the ids of all.
Ordered ==
  /\ \A s \in Chain(root) : DOMAIN data[s] # {} /\ DOMAIN data[s] \subseteq DOMAIN data[root]
  /\ \A r, s \in Chain(root) : r # s =>
       Cardinality(DOMAIN data[r]) # Cardinality(DOMAIN data[s])

\* A private copy is the snapshot it was made of with one item more.
Copies == \A t \in InFlight :
  LET l == loc[t]
  IN /\ l.new \in Snaps /\ prev[l.new] = l.rootPtr
     /\ l.id \notin DOMAIN data[l.rootPtr]
     /\ DOMAIN data[l.new] = DOMAIN data[l.rootPtr] \cup {l.id}
     /\ data[l.new][l.id] = l.obj
     /\ \A i \in DOMAIN data[l.rootPtr] : data[l.new][i] = data[l.rootPtr][i]

\* Where the objects are: no two places share one, and none is nowhere.
Owned ==
  /\ \A o \in Objects : drops[o] # 0 => o <= created
  /\ \A i \in DOMAIN data[root] :
       data[root][i] \in 1 .. created /\ drops[data[root][i]] = 0
  /\ \A i, j \in DOMAIN data[root] : data[root][i] = data[root][j] => i = j
  /\ \A t \in InFlight :
       /\ loc[t].obj \in 1 .. created /\ drops[loc[t].obj] = 0
       /\ \A i \in DOMAIN data[root] : data[root][i] # loc[t].obj
  /\ \A s, t \in InFlight : loc[s].obj = loc[t].obj => s = t
  /\ \A o \in 1 .. created :
       \/ drops[o] = 1
       \/ \E i \in DOMAIN data[root] : data[root][i] = o
       \/ \E t \in InFlight : loc[t].obj = o

\* Who registers has seen need_disposing unset, before anybody had registered.
Marking == {t \in Threads : pc[t] \in {"mark", "register"}}

Registering ==
  /\ registered + Cardinality(Marking) <= Cardinality(Threads)
  /\ ~needDisposing => registered = 0 /\ \A t \in Threads : pc[t] # "register"
  /\ needDisposing => registered > 0 \/ \E t \in Threads : pc[t] = "register"
  /\ disposable /\ root # 0 /\ prev[root] # 0 =>
       needDisposing \/ \E t \in Threads : pc[t] \in {"need", "mark"}

\* The next copy a thread makes is of a snapshot with at least that many ids.
Size(s) == Cardinality(DOMAIN data[s])
Least(t) ==
  IF pc[t] = "search" THEN Size(loc[t].rootPtr)
  ELSE IF pc[t] = "cas" THEN Size(loc[t].rootPtr) + 1 ELSE Size(root)

\* The objects still to come: a thread makes at most one for each number of ids.
ToCome == {p \in Threads \X (0 .. Cardinality(Ids) - 1) : Least(p[1]) <= p[2]}
Budget == created + Cardinality(ToCome) <= MaxObjects

IInv == Types /\ SnapshotsAccounted /\ Ordered /\ Copies /\ Owned /\ Registering /\ Budget

-----------------------------------------------------------------------------
(* Chains of snapshots *)

\* Chain, before and after a step.
LEMMA ChainIs ==
  /\ \A s : Chain(s) = Behind(prev, s)
  /\ Chain(root)' = Behind(prev', root')
  BY DEF Chain, Behind

\* The static snapshot has nothing behind it; another is in its own chain, with the prev
\* of each member.
LEMMA BehindClosed ==
  ASSUME NEW p, NEW s \in Snaps \cup {0}, \A c \in Snaps : p[c] \in Snaps \cup {0}
  PROVE  /\ Behind(p, s) \subseteq Snaps
         /\ s \in Behind(p, s) \cup {0}
         /\ \A c \in Behind(p, s) : p[c] \in Behind(p, s) \cup {0}
  BY DEF Behind

\* It is in every set with the snapshot that has the prev of its members.
LEMMA BehindLeast ==
  ASSUME NEW p, NEW s, NEW C \in SUBSET Snaps,
         s \in C \cup {0}, \A c \in C : p[c] \in C \cup {0}
  PROVE  Behind(p, s) \subseteq C
  BY DEF Behind

\* There is nothing behind the static snapshot.
LEMMA BehindStatic == \A p : Behind(p, 0) = {}
  <1> TAKE p
  <1> DEFINE C == {}
  <1>1. C \in SUBSET Snaps /\ 0 \in C \cup {0} /\ \A c \in C : p[c] \in C \cup {0}
    OBVIOUS
  <1>2. \A x \in C : FALSE
    OBVIOUS
  <1> HIDE DEF C
  <1>3. Behind(p, 0) \subseteq C
    BY <1>1, BehindLeast
  <1> QED
    BY <1>2, <1>3

\* It stays what it is if its members keep their prev.
LEMMA BehindKept ==
  ASSUME NEW p, NEW q, NEW s \in Snaps \cup {0},
         \A c \in Snaps : p[c] \in Snaps \cup {0},
         \A c \in Snaps : q[c] \in Snaps \cup {0},
         \A c \in Behind(p, s) : q[c] = p[c]
  PROVE  Behind(q, s) = Behind(p, s)
  <1>1. Behind(q, s) \subseteq Behind(p, s)
    BY BehindClosed, BehindLeast
  <1>2. Behind(p, s) \subseteq Behind(q, s)
    <2>1. \A c \in Behind(q, s) : p[c] \in Behind(q, s) \cup {0}
      BY <1>1, BehindClosed
    <2> QED
      BY <2>1, BehindClosed, BehindLeast
  <1> QED
    BY <1>1, <1>2

\* A new snapshot goes in front of the one it was copied from.
LEMMA BehindNew ==
  ASSUME NEW p, NEW s \in Snaps, \A c \in Snaps : p[c] \in Snaps \cup {0}
  PROVE  Behind(p, s) = {s} \cup Behind(p, p[s])
  <1> DEFINE r == p[s]
  <1>1. r \in Snaps \cup {0}
    OBVIOUS
  <1>2. Behind(p, s) \subseteq {s} \cup Behind(p, r)
    <2> DEFINE C == {s} \cup Behind(p, r)
    <2>1. C \subseteq Snaps /\ \A c \in C : p[c] \in C \cup {0}
      BY <1>1, BehindClosed
    <2> HIDE DEF r
    <2> QED
      BY <2>1, BehindLeast
  <1>3. s \in Behind(p, s) /\ r \in Behind(p, s) \cup {0}
    <2>1. s \in Behind(p, s) \cup {0} /\ s # 0
      BY BehindClosed, IVecAssumption DEF Snaps
    <2> QED
      BY <2>1, BehindClosed
  <1>4. Behind(p, r) \subseteq Behind(p, s)
    BY <1>3, BehindClosed, BehindLeast
  <1> QED
    BY <1>2, <1>3, <1>4

-----------------------------------------------------------------------------
(* Counting *)

\* The constants.
LEMMA Constants ==
  /\ Cardinality(Ids) \in Nat /\ Cardinality(Threads) \in Nat
  /\ IsFiniteSet(Ids) /\ IsFiniteSet(Threads)
  /\ MaxSnaps \in Nat /\ MaxObjects \in Nat
  /\ Snaps \subseteq Nat /\ 0 \notin Snaps
  /\ IsFiniteSet(Snaps) /\ Cardinality(Snaps) = MaxSnaps
  <1>1. IsFiniteSet(Snaps) /\ Cardinality(Snaps) = MaxSnaps
    BY IVecAssumption, FS_Interval DEF Snaps
  <1> QED
    BY <1>1, IVecAssumption, FS_CardinalityType DEF Snaps

\* A snapshot has no more ids than there are, and one with more ids is larger.
LEMMA Sizes ==
  ASSUME NEW D, D \subseteq Ids
  PROVE  /\ Cardinality(D) \in 0 .. Cardinality(Ids) /\ IsFiniteSet(D)
         /\ D # {} => Cardinality(D) > 0
         /\ \A E : E \subseteq D =>
              /\ Cardinality(E) <= Cardinality(D)
              /\ E # D => Cardinality(E) < Cardinality(D)
         /\ \A i \in Ids \ D : Cardinality(D \cup {i}) = Cardinality(D) + 1
  <1>1. IsFiniteSet(D) /\ Cardinality(D) <= Cardinality(Ids) /\ Cardinality(D) \in Nat
    BY IVecAssumption, FS_Subset, FS_CardinalityType
  <1>2. D # {} => Cardinality(D) > 0
    BY <1>1, FS_EmptySet
  <1>3. ASSUME NEW E, E \subseteq D
        PROVE  Cardinality(E) <= Cardinality(D) /\ (E # D => Cardinality(E) < Cardinality(D))
    <2>1. /\ Cardinality(E) <= Cardinality(D) /\ IsFiniteSet(E)
          /\ Cardinality(D) = Cardinality(E) => D = E
      BY <1>1, <1>3, FS_Subset
    <2>2. Cardinality(E) \in Nat
      BY <2>1, FS_CardinalityType
    <2> QED
      BY <1>1, <2>1, <2>2
  <1>4. \A i \in Ids \ D : Cardinality(D \cup {i}) = Cardinality(D) + 1
    BY <1>1, FS_AddElement
  <1> QED
    BY <1>1, <1>2, <1>3, <1>4, Constants

\* The snapshots published are ordered by their number of ids.
LEMMA RootIsLargest ==
  ASSUME IInv
  PROVE  /\ \A s \in Snaps \cup {0} : Size(s) \in 0 .. Cardinality(Ids)
         /\ \A s \in Chain(root) \cup {0} :
              /\ s \in Snaps \cup {0} /\ DOMAIN data[s] \subseteq DOMAIN data[root]
              /\ Size(s) <= Size(root)
              /\ s # root => DOMAIN data[s] # DOMAIN data[root] /\ Size(s) < Size(root)
  <1>1. /\ \A s \in Snaps \cup {0} : DOMAIN data[s] \subseteq Ids
        /\ \A c \in Snaps : prev[c] \in Snaps \cup {0}
        /\ root \in Snaps \cup {0} /\ DOMAIN data[0] = {}
    BY DEF IInv, Types, TypeOK, Empty
  <1>2. \A s \in Snaps \cup {0} : Size(s) \in 0 .. Cardinality(Ids)
    BY <1>1, Sizes DEF Size
  <1>3. Chain(root) \subseteq Snaps /\ root \in Chain(root) \cup {0}
    BY <1>1, ChainIs, BehindClosed
  <1>4. ASSUME NEW s \in Chain(root) \cup {0}
        PROVE  /\ s \in Snaps \cup {0} /\ DOMAIN data[s] \subseteq DOMAIN data[root]
               /\ s # root => DOMAIN data[s] # DOMAIN data[root]
    <2>1. CASE s = 0
      BY <1>1, <1>3, <2>1 DEF IInv, Ordered
    <2>2. CASE s \in Chain(root)
      <3>1. root # 0
        BY <2>2, ChainIs, BehindStatic
      <3> QED
        BY <1>3, <2>2, <3>1 DEF IInv, Ordered
    <2> QED
      BY <2>1, <2>2
  <1>5. ASSUME NEW s \in Chain(root) \cup {0}
        PROVE  Size(s) <= Size(root) /\ (s # root => Size(s) < Size(root))
    <2> DEFINE D == DOMAIN data[root]
               E == DOMAIN data[s]
    <2>1. D \subseteq Ids /\ E \subseteq D /\ (s # root => E # D)
      BY <1>1, <1>4
    <2>2. Cardinality(E) <= Cardinality(D) /\ (E # D => Cardinality(E) < Cardinality(D))
      <3> HIDE DEF D, E
      <3> QED
        BY <2>1, Sizes
    <2> QED
      BY <2>1, <2>2 DEF Size
  <1> QED
    BY <1>2, <1>4, <1>5

\* There is room on the heap for the copy of a thread that has none.
LEMMA RoomForCopy ==
  ASSUME IInv, NEW t \in Threads, pc[t] # "cas"
  PROVE  Min(Snaps \ alloc) \in Snaps \ alloc
  <1> DEFINE chain == Chain(root)
             sizes == 1 .. Cardinality(Ids)
             f == [s \in chain |-> Size(s)]
             news == {loc[u].new : u \in InFlight}
             g == [u \in InFlight |-> loc[u].new]
             others == Threads \ {t}
  <1>1. IsFiniteSet(chain) /\ Cardinality(chain) <= Cardinality(Ids)
    <2>1. f \in Injection(chain, sizes)
      <3>1. \A s \in chain : Size(s) \in sizes
        <4>1. \A s \in chain : DOMAIN data[s] # {} /\ DOMAIN data[s] \subseteq Ids
          BY RootIsLargest DEF IInv, Ordered, Types, TypeOK
        <4> QED
          BY <4>1, Sizes, Constants DEF Size
      <3>2. \A r, s \in chain : f[r] = f[s] => r = s
        BY DEF IInv, Ordered, Size
      <3> HIDE DEF chain, sizes
      <3> QED
        BY <3>1, <3>2 DEF Injection, IsInjective
    <2>2. IsFiniteSet(sizes) /\ Cardinality(sizes) = Cardinality(Ids)
      BY Constants, FS_Interval
    <2> HIDE DEF chain, sizes, f
    <2> QED
      BY <2>1, <2>2, FS_Injection
  <1>2. IsFiniteSet(news) /\ Cardinality(news) <= Cardinality(Threads) - 1
    <2>1. IsFiniteSet(others) /\ Cardinality(others) = Cardinality(Threads) - 1
      BY IVecAssumption, FS_RemoveElement
    <2>2. InFlight \subseteq others
      BY DEF InFlight
    <2>3. IsFiniteSet(InFlight) /\ Cardinality(InFlight) <= Cardinality(others)
      BY <2>1, <2>2, FS_Subset
    <2>4. g \in Surjection(InFlight, news)
      BY DEF Surjection
    <2>5. IsFiniteSet(news) /\ Cardinality(news) <= Cardinality(InFlight)
      <3> HIDE DEF g, news
      <3> QED
        BY <2>3, <2>4, FS_Surjection
    <2>6. Cardinality(news) \in Nat /\ Cardinality(InFlight) \in Nat
      BY <2>3, <2>5, FS_CardinalityType
    <2> HIDE DEF news, others
    <2> QED
      BY <2>1, <2>3, <2>5, <2>6, Constants
  <1>3. alloc = chain \cup news
    BY DEF IInv, SnapshotsAccounted
  <1> HIDE DEF chain, news
  <1>4. IsFiniteSet(alloc) /\ Cardinality(alloc) < MaxSnaps
    <2>1. /\ IsFiniteSet(alloc)
          /\ Cardinality(alloc) = Cardinality(chain) + Cardinality(news)
                                  - Cardinality(chain \cap news)
      BY <1>1, <1>2, <1>3, FS_Union
    <2>2. IsFiniteSet(chain \cap news)
      BY <1>1, FS_Intersection
    <2>3. /\ Cardinality(chain) \in Nat /\ Cardinality(news) \in Nat
          /\ Cardinality(chain \cap news) \in Nat
      BY <1>1, <1>2, <2>2, FS_CardinalityType
    <2> QED
      BY <1>1, <1>2, <2>1, <2>3, Constants, IVecAssumption
  <1>5. Snaps \ alloc # {}
    <2> SUFFICES ASSUME Snaps \ alloc = {} PROVE FALSE
      OBVIOUS
    <2>1. Snaps \in SUBSET alloc
      OBVIOUS
    <2>2. Cardinality(Snaps) <= Cardinality(alloc)
      BY <1>4, <2>1, FS_Subset
    <2>3. Cardinality(alloc) \in Nat
      BY <1>4, FS_CardinalityType
    <2> QED
      BY <1>4, <2>2, <2>3, Constants
  <1> QED
    BY <1>5, Constants, LeastOf

\* A thread and a number of ids: as many as the bound leaves room for.
LEMMA AllToCome ==
  LET all == Threads \X (0 .. Cardinality(Ids) - 1)
  IN /\ IsFiniteSet(all) /\ Cardinality(all) \in Nat
     /\ Cardinality(all) = Cardinality(Ids) * Cardinality(Threads)
  <1> DEFINE K == 0 .. Cardinality(Ids) - 1
             all == Threads \X K
  <1>1. IsFiniteSet(K) /\ Cardinality(K) = Cardinality(Ids)
    <2> DEFINE last == Cardinality(Ids) - 1
    <2>1. last \in Int /\ last >= -1 /\ Cardinality(Ids) = last + 1
      BY Constants
    <2>2. K = 0 .. last
      OBVIOUS
    <2> HIDE DEF last, K
    <2>3. IsFiniteSet(0 .. last) /\ Cardinality(0 .. last) = last + 1
      BY <2>1, FS_Interval
    <2> QED
      BY <2>1, <2>2, <2>3
  <1>2. /\ IsFiniteSet(all) /\ Cardinality(all) \in Nat
        /\ Cardinality(all) = Cardinality(Ids) * Cardinality(Threads)
    <2> HIDE DEF K
    <2>1. IsFiniteSet(all) /\ Cardinality(all) = Cardinality(Threads) * Cardinality(K)
      BY <1>1, Constants, FS_Product
    <2>2. Cardinality(all) \in Nat
      BY <2>1, FS_CardinalityType
    <2> QED
      BY <1>1, <2>1, <2>2, Constants
  <1> QED
    BY <1>2

\* The objects still to come are no more.
LEMMA ToComeFinite ==
  /\ IsFiniteSet(ToCome) /\ Cardinality(ToCome) \in Nat
  /\ Cardinality(ToCome') \in Nat
  /\ Cardinality(ToCome') <= Cardinality(Ids) * Cardinality(Threads)
  <1> DEFINE all == Threads \X (0 .. Cardinality(Ids) - 1)
  <1>1. ToCome \subseteq all /\ ToCome' \subseteq all
    BY DEF ToCome
  <1>2. /\ IsFiniteSet(all) /\ Cardinality(all) \in Nat
        /\ Cardinality(all) = Cardinality(Ids) * Cardinality(Threads)
    BY AllToCome
  <1> HIDE DEF all
  <1>3. IsFiniteSet(ToCome) /\ IsFiniteSet(ToCome') /\ Cardinality(ToCome') <= Cardinality(all)
    BY <1>1, <1>2, FS_Subset
  <1> QED
    BY <1>2, <1>3, FS_CardinalityType

\* The budget is kept when nobody falls back.
LEMMA BudgetKept ==
  ASSUME Budget, created \in Nat, created' = created,
         \A u \in Threads : Least(u) \in Int /\ Least(u)' \in Int /\ Least(u) <= Least(u)'
  PROVE  Budget'
  <1>1. ToCome' \subseteq ToCome
    BY DEF ToCome
  <1>2. Cardinality(ToCome') <= Cardinality(ToCome)
    BY <1>1, ToComeFinite, FS_Subset
  <1> QED
    BY <1>2, ToComeFinite, Constants DEF Budget

-----------------------------------------------------------------------------
(* Locals *)

\* What the steps of a call make of its locals.
LEMMA NewLocals == NoLocals \in Locals
  BY DEF NoLocals, Locals

LEMMA Found ==
  ASSUME NEW l \in Locals, NEW r \in Snaps \cup {0}, NEW i \in Ids
  PROVE  [l EXCEPT !.snap = r, !.elem = i] \in Locals
  BY DEF Locals

-----------------------------------------------------------------------------
(* Steps that leave the snapshots alone *)

\* The bounds of every thread are numbers.
LEMMA LeastIsNumber ==
  ASSUME IInv
  PROVE  /\ Size(root) \in Int
         /\ \A u \in Threads : loc[u].rootPtr \in Snaps \cup {0} /\ Size(loc[u].rootPtr) \in Int
         /\ \A u \in Threads : Least(u) \in Int
  <1>1. root \in Snaps \cup {0} /\ \A u \in Threads : loc[u].rootPtr \in Snaps \cup {0}
    BY DEF IInv, Types, TypeOK, Locals
  <1>2. Size(root) \in Int /\ \A u \in Threads : Size(loc[u].rootPtr) \in Int
    BY <1>1, RootIsLargest
  <1> QED
    BY <1>1, <1>2 DEF Least

\* A step of a thread outside the switch, on its own locals: all but the registration.
LEMMA LocalStep ==
  ASSUME IInv, NEW t \in Threads, NEW to \in Places \ {"cas"}, NEW l \in Locals,
         pc[t] # "cas",
         pc' = [pc EXCEPT ![t] = to], loc' = [loc EXCEPT ![t] = l],
         UNCHANGED <<heap, objects, disposable>>,
         needDisposing' \in BOOLEAN, registered' \in 0 .. Cardinality(Threads),
         to = "search" => l.id \in Ids,
         to = "search" => l.rootPtr \in Chain(root) \cup {0},
         Least(t) <= IF to = "search" THEN Size(l.rootPtr) ELSE Size(root)
  PROVE  Types' /\ SnapshotsAccounted' /\ Ordered' /\ Copies' /\ Owned' /\ Budget'
  <1>1. /\ pc \in [Threads -> Places] /\ loc \in [Threads -> Locals]
        /\ root' = root /\ data' = data /\ prev' = prev /\ alloc' = alloc
        /\ created' = created /\ drops' = drops /\ disposable' = disposable
    BY DEF IInv, Types, heap, objects
  <1>2. /\ \A u \in Threads \ {t} : pc'[u] = pc[u] /\ loc'[u] = loc[u]
        /\ pc'[t] = to /\ loc'[t] = l
        /\ pc' \in [Threads -> Places] /\ loc' \in [Threads -> Locals]
    BY <1>1
  <1>3. InFlight' = InFlight /\ \A u \in InFlight : u \in Threads /\ loc'[u] = loc[u]
    BY <1>2 DEF InFlight
  <1>4. Chain(root)' = Chain(root)
    BY <1>1 DEF Chain
  <1>5. Types'
    BY <1>1, <1>2 DEF IInv, Types, TypeOK
  <1>6. SnapshotsAccounted'
    BY <1>1, <1>2, <1>3, <1>4 DEF IInv, SnapshotsAccounted
  <1>7. Ordered'
    BY <1>1, <1>4 DEF IInv, Ordered
  <1>8. Copies'
    BY <1>1, <1>3 DEF IInv, Copies
  <1>9. Owned'
    BY <1>1, <1>3 DEF IInv, Owned
  <1>10. Budget'
    <2>1. /\ \A u \in Threads \ {t} : Least(u)' = Least(u)
          /\ Least(t)' = IF to = "search" THEN Size(l.rootPtr) ELSE Size(root)
      BY <1>1, <1>2 DEF Least, Size
    <2>2. l.rootPtr \in Snaps \cup {0}
      BY DEF Locals
    <2>3. Size(l.rootPtr) \in Int
      BY <2>2, RootIsLargest
    <2>4. created \in Nat
      BY DEF IInv, Types, TypeOK
    <2>5. \A u \in Threads : Least(u)' \in Int /\ Least(u) <= Least(u)'
      BY <2>1, <2>3, LeastIsNumber
    <2> QED
      BY <1>1, <2>4, <2>5, LeastIsNumber, BudgetKept DEF IInv
  <1> QED
    BY <1>5, <1>6, <1>7, <1>8, <1>9, <1>10

\* A step outside the registration.
LEMMA RegisteringKept ==
  ASSUME Registering, pc \in [Threads -> Places],
         NEW t \in Threads, NEW to \in Places \ {"need", "mark", "register"},
         pc[t] \notin {"need", "mark", "register"},
         pc' = [pc EXCEPT ![t] = to], UNCHANGED frame,
         root' # 0 /\ prev'[root'] # 0 => root # 0 /\ prev[root] # 0
  PROVE  Registering'
  <1>1. \A u \in Threads : \A p \in {"need", "mark", "register"} : pc'[u] = p <=> pc[u] = p
    OBVIOUS
  <1>2. Marking' = Marking
    BY <1>1 DEF Marking
  <1> QED
    BY <1>1, <1>2 DEF Registering, frame

\* A step of a call that is not switching or registering.
LEMMA QuietStep ==
  ASSUME IInv, NEW t \in Threads, NEW l \in Locals,
         NEW from \in {"idle", "search", "return"},
         NEW to \in {"idle", "search", "return"},
         Step(t, from, to), Set(t, l), UNCHANGED <<heap, frame, objects>>,
         to = "search" => l.id \in Ids,
         to = "search" => l.rootPtr \in Chain(root) \cup {0},
         Least(t) <= IF to = "search" THEN Size(l.rootPtr) ELSE Size(root)
  PROVE  IInv'
  <1>1. /\ pc[t] = from /\ pc' = [pc EXCEPT ![t] = to] /\ loc' = [loc EXCEPT ![t] = l]
        /\ from # "cas" /\ to \in Places \ {"cas"}
        /\ to \in Places \ {"need", "mark", "register"}
        /\ from \notin {"need", "mark", "register"}
    BY DEF Step, Set, Places
  <1>2. /\ UNCHANGED <<heap, objects, disposable>> /\ UNCHANGED frame
        /\ needDisposing' \in BOOLEAN /\ registered' \in 0 .. Cardinality(Threads)
        /\ root' = root /\ prev' = prev
    BY DEF IInv, Types, TypeOK, frame, heap
  <1>3. Types' /\ SnapshotsAccounted' /\ Ordered' /\ Copies' /\ Owned' /\ Budget'
    BY <1>1, <1>2, LocalStep
  <1>4. Registering'
    BY <1>1, <1>2, RegisteringKept DEF IInv, Types
  <1> QED
    BY <1>3, <1>4 DEF IInv

LEMMA CallStep ==
  ASSUME IInv, NEW t \in Threads, Call(t)
  PROVE  IInv'
  <1>1. PICK id \in Ids, insert \in BOOLEAN :
          /\ Step(t, "idle", "search")
          /\ Set(t, [NoLocals EXCEPT !.id = id, !.insert = insert, !.rootPtr = root])
          /\ UNCHANGED <<heap, frame, objects>>
    BY DEF Call
  <1> DEFINE l == [NoLocals EXCEPT !.id = id, !.insert = insert, !.rootPtr = root]
  <1>2. root \in Snaps \cup {0}
    BY DEF IInv, Types, TypeOK
  <1>3. l \in Locals /\ l.id \in Ids /\ l.rootPtr = root
    BY <1>2 DEF NoLocals, Locals
  <1>4. Set(t, l)
    BY <1>1
  <1> HIDE DEF l
  <1>5. root \in Chain(root) \cup {0}
    BY ChainIs, BehindClosed DEF IInv, Types, TypeOK
  <1>6. Least(t) <= Size(root)
    BY <1>1, LeastIsNumber DEF Least, Step
  <1> QED
    BY <1>1, <1>3, <1>4, <1>5, <1>6, QuietStep

\* A thread searches a snapshot no larger than the root.
LEMMA Searching ==
  ASSUME IInv, NEW t \in Threads, pc[t] = "search"
  PROVE  /\ loc[t] \in Locals /\ loc[t].id \in Ids
         /\ loc[t].rootPtr \in Chain(root) \cup {0} /\ loc[t].rootPtr \in Snaps \cup {0}
         /\ Least(t) = Size(loc[t].rootPtr) /\ Least(t) <= Size(root)
  <1>1. /\ loc[t] \in Locals /\ loc[t].id \in Ids
        /\ loc[t].rootPtr \in Chain(root) \cup {0}
    BY DEF IInv, Types, SnapshotsAccounted
  <1> QED
    BY <1>1, RootIsLargest DEF Least

LEMMA FindStep ==
  ASSUME IInv, NEW t \in Threads, Find(t)
  PROVE  IInv'
  <1> DEFINE l == [loc[t] EXCEPT !.snap = loc[t].rootPtr, !.elem = loc[t].id]
  <1>1. Step(t, "search", "return") /\ Set(t, l) /\ UNCHANGED <<heap, frame, objects>>
    BY DEF Find
  <1>2. l \in Locals
    BY <1>1, Searching, Found DEF Step
  <1> HIDE DEF l
  <1>3. Least(t) <= Size(root)
    BY <1>1, Searching DEF Step
  <1> QED
    BY <1>1, <1>2, <1>3, QuietStep

LEMMA FindNoneStep ==
  ASSUME IInv, NEW t \in Threads, FindNone(t)
  PROVE  IInv'
  <1>1. Step(t, "search", "idle") /\ Set(t, NoLocals) /\ UNCHANGED <<heap, frame, objects>>
    BY DEF FindNone
  <1>2. Least(t) <= Size(root)
    BY <1>1, Searching DEF Step
  <1> QED
    BY <1>1, <1>2, NewLocals, QuietStep

LEMMA ReturnStep ==
  ASSUME IInv, NEW t \in Threads, Return(t)
  PROVE  IInv'
  <1>1. Step(t, "return", "idle") /\ Set(t, NoLocals) /\ UNCHANGED <<heap, frame, objects>>
    BY DEF Return
  <1>2. Least(t) <= Size(root)
    BY <1>1, LeastIsNumber DEF Step, Least
  <1> QED
    BY <1>1, <1>2, NewLocals, QuietStep

-----------------------------------------------------------------------------
(* Registering *)

\* A step of the registration: all but the registration itself.
LEMMA FrameStep ==
  ASSUME IInv, NEW t \in Threads, NEW from \in {"need", "mark", "register"},
         NEW to \in {"mark", "register", "return"},
         Step(t, from, to), UNCHANGED <<heap, disposable, objects, loc>>,
         needDisposing' \in BOOLEAN, registered' \in 0 .. Cardinality(Threads)
  PROVE  Types' /\ SnapshotsAccounted' /\ Ordered' /\ Copies' /\ Owned' /\ Budget'
  <1> DEFINE l == loc[t]
  <1>1. l \in Locals /\ loc' = [loc EXCEPT ![t] = l]
    BY DEF IInv, Types
  <1> HIDE DEF l
  <1>2. /\ pc[t] # "cas" /\ pc[t] # "search" /\ pc' = [pc EXCEPT ![t] = to]
        /\ to \in Places \ {"cas"} /\ to # "search"
        /\ UNCHANGED <<heap, objects, disposable>>
    BY DEF Step, Places
  <1>3. Least(t) <= Size(root)
    BY <1>2, LeastIsNumber DEF Least
  <1> QED
    BY <1>1, <1>2, <1>3, LocalStep

\* The threads that mark and register are finitely many.
LEMMA MarkingFinite ==
  /\ IsFiniteSet(Marking) /\ Cardinality(Marking) \in 0 .. Cardinality(Threads)
  /\ Cardinality(Marking') \in 0 .. Cardinality(Threads)
  <1>1. Marking \subseteq Threads /\ Marking' \subseteq Threads
    BY DEF Marking
  <1>2. /\ IsFiniteSet(Marking) /\ Cardinality(Marking) <= Cardinality(Threads)
        /\ IsFiniteSet(Marking') /\ Cardinality(Marking') <= Cardinality(Threads)
    BY <1>1, Constants, FS_Subset
  <1> QED
    BY <1>2, FS_CardinalityType

LEMMA CheckNeedStep ==
  ASSUME IInv, NEW t \in Threads, CheckNeed(t)
  PROVE  IInv'
  <1> DEFINE to == IF needDisposing THEN "return" ELSE "mark"
  <1>1. /\ Step(t, "need", to) /\ to \in {"return", "mark"}
        /\ UNCHANGED <<heap, disposable, objects, loc>> /\ UNCHANGED frame
        /\ root' = root /\ prev' = prev
    BY DEF CheckNeed, heap, frame
  <1>2. /\ pc \in [Threads -> Places] /\ pc[t] = "need" /\ pc' = [pc EXCEPT ![t] = to]
        /\ needDisposing \in BOOLEAN /\ registered \in 0 .. Cardinality(Threads)
        /\ needDisposing' = needDisposing /\ registered' = registered
        /\ disposable' = disposable
    BY <1>1 DEF Step, IInv, Types, TypeOK, frame
  <1>3. to = IF needDisposing THEN "return" ELSE "mark"
    OBVIOUS
  <1> HIDE DEF to
  <1>4. Types' /\ SnapshotsAccounted' /\ Ordered' /\ Copies' /\ Owned' /\ Budget'
    BY <1>1, <1>2, FrameStep
  <1>5. Registering'
    <2>1. Registering
      BY DEF IInv
    <2>2. CASE needDisposing
      <3>1. /\ Marking' = Marking
            /\ \A u \in Threads : pc[u] = "register" <=> pc'[u] = "register"
        BY <1>2, <1>3, <2>2 DEF Marking
      <3> QED
        BY <1>1, <1>2, <2>1, <2>2, <3>1 DEF Registering
    <2>3. CASE ~needDisposing
      <3>1. pc'[t] = "mark" /\ \A u \in Threads : pc[u] = "register" <=> pc'[u] = "register"
        BY <1>2, <1>3, <2>3
      <3>2. registered = 0
        BY <2>1, <2>3 DEF Registering
      <3>3. registered' + Cardinality(Marking') <= Cardinality(Threads)
        BY <1>2, <3>2, MarkingFinite, Constants
      <3>4. registered' = 0 /\ ~needDisposing' /\ \A u \in Threads : pc'[u] # "register"
        BY <1>2, <2>1, <2>3, <3>1, <3>2 DEF Registering
      <3> QED
        BY <1>1, <1>2, <3>1, <3>3, <3>4 DEF Registering
    <2> QED
      BY <1>2, <2>2, <2>3
  <1> QED
    BY <1>4, <1>5 DEF IInv

LEMMA MarkStep ==
  ASSUME IInv, NEW t \in Threads, Mark(t)
  PROVE  IInv'
  <1>1. /\ Step(t, "mark", "register") /\ UNCHANGED <<heap, disposable, objects, loc>>
        /\ needDisposing' = TRUE /\ registered' = registered
        /\ disposable' = disposable
        /\ root' = root /\ prev' = prev
    BY DEF Mark, heap
  <1>2. /\ pc \in [Threads -> Places] /\ pc[t] = "mark" /\ pc' = [pc EXCEPT ![t] = "register"]
        /\ registered \in 0 .. Cardinality(Threads)
    BY <1>1 DEF Step, IInv, Types, TypeOK
  <1>3. Types' /\ SnapshotsAccounted' /\ Ordered' /\ Copies' /\ Owned' /\ Budget'
    BY <1>1, <1>2, FrameStep
  <1>4. Marking' = Marking /\ pc'[t] = "register"
    BY <1>2 DEF Marking
  <1>5. Registering'
    BY <1>1, <1>4 DEF IInv, Registering
  <1> QED
    BY <1>3, <1>5 DEF IInv

LEMMA RegisterStep ==
  ASSUME IInv, NEW t \in Threads, Register(t)
  PROVE  IInv'
  <1>1. /\ Step(t, "register", "return") /\ UNCHANGED <<heap, disposable, objects, loc>>
        /\ needDisposing' = needDisposing /\ registered' = registered + 1
        /\ disposable' = disposable
        /\ root' = root /\ prev' = prev
    BY DEF Register, heap
  <1>2. /\ pc \in [Threads -> Places] /\ pc[t] = "register" /\ pc' = [pc EXCEPT ![t] = "return"]
        /\ needDisposing \in BOOLEAN /\ registered \in Nat
        /\ Registering
    BY <1>1 DEF Step, IInv, Types, TypeOK
  <1>3. t \in Marking /\ Marking' = Marking \ {t}
    BY <1>2 DEF Marking
  <1>4. Cardinality(Marking') = Cardinality(Marking) - 1
    BY <1>3, MarkingFinite, FS_RemoveElement
  <1>5. registered' + Cardinality(Marking') <= Cardinality(Threads)
    BY <1>1, <1>2, <1>4, MarkingFinite, Constants DEF Registering
  <1>6. registered' \in 0 .. Cardinality(Threads)
    BY <1>1, <1>2, <1>5, MarkingFinite, <1>4, <1>3, FS_EmptySet, Constants DEF Registering
  <1>7. Types' /\ SnapshotsAccounted' /\ Ordered' /\ Copies' /\ Owned' /\ Budget'
    BY <1>1, <1>2, <1>6, FrameStep
  <1>8. needDisposing /\ registered' > 0
    BY <1>1, <1>2 DEF Registering
  <1>9. Registering'
    BY <1>1, <1>5, <1>8 DEF Registering
  <1> QED
    BY <1>7, <1>9 DEF IInv

-----------------------------------------------------------------------------
(* Building a copy *)

\* The thread that builds a copy has one of the objects to come.
LEMMA RoomForObject ==
  ASSUME IInv, NEW t \in Threads, pc[t] = "search",
         loc[t].id \notin DOMAIN data[loc[t].rootPtr]
  PROVE  /\ created + 1 \in Objects
         /\ Size(loc[t].rootPtr) \in Nat
         /\ <<t, Size(loc[t].rootPtr)>> \in ToCome
  <1> DEFINE D == DOMAIN data[loc[t].rootPtr]
             n == Size(loc[t].rootPtr)
  <1>1. D \subseteq Ids /\ loc[t].id \in Ids \ D
    BY Searching DEF IInv, Types, TypeOK
  <1>2. n = Cardinality(D)
    BY DEF Size
  <1>3. Least(t) = n
    BY Searching
  <1> HIDE DEF D, n
  <1>4. n \in Nat /\ n < Cardinality(Ids)
    <2>1. D \cup {loc[t].id} \subseteq Ids
      BY <1>1
    <2>2. Cardinality(D \cup {loc[t].id}) = Cardinality(D) + 1 /\ Cardinality(D) \in Nat
      BY <1>1, Sizes
    <2>3. Cardinality(D \cup {loc[t].id}) <= Cardinality(Ids)
      BY <2>1, Sizes
    <2> QED
      BY <1>2, <2>2, <2>3, Constants
  <1>5. <<t, n>> \in ToCome
    BY <1>3, <1>4, Constants DEF ToCome
  <1>6. Cardinality(ToCome) > 0
    BY <1>5, ToComeFinite, FS_EmptySet
  <1>7. created + 1 \in Objects
    BY <1>6, ToComeFinite, Constants DEF IInv, Types, TypeOK, Budget, Objects
  <1> QED
    BY <1>4, <1>5, <1>7 DEF n

\* Where the threads with a private copy are.
LEMMA Private ==
  ASSUME IInv, NEW u \in InFlight
  PROVE  /\ u \in Threads /\ pc[u] = "cas"
         /\ loc[u] \in Locals /\ loc[u].id \in Ids
         /\ loc[u].new \in Snaps /\ loc[u].new \in alloc /\ loc[u].new \notin Chain(root)
         /\ loc[u].rootPtr \in Chain(root) \cup {0} /\ loc[u].rootPtr \in Snaps \cup {0}
  <1>1. u \in Threads /\ pc[u] = "cas"
    BY DEF InFlight
  <1>2. loc[u] \in Locals /\ loc[u].id \in Ids
    BY <1>1 DEF IInv, Types
  <1>3. /\ loc[u].new \in Snaps /\ loc[u].new \in alloc /\ loc[u].new \notin Chain(root)
        /\ loc[u].rootPtr \in Chain(root) \cup {0}
    BY <1>1 DEF IInv, SnapshotsAccounted, Copies
  <1> QED
    BY <1>1, <1>2, <1>3, RootIsLargest

\* The snapshots published are on the heap.
LEMMA Published ==
  ASSUME IInv
  PROVE  /\ Chain(root) \subseteq Snaps /\ Chain(root) \subseteq alloc
         /\ root \in Chain(root) \cup {0} /\ root \in Snaps \cup {0}
         /\ 0 \notin Chain(root) /\ 0 \notin Snaps
         /\ \A c \in Snaps : prev[c] \in Snaps \cup {0}
         /\ Chain(root) = Behind(prev, root)
  <1>1. root \in Snaps \cup {0} /\ \A c \in Snaps : prev[c] \in Snaps \cup {0}
    BY DEF IInv, Types, TypeOK
  <1>2. Chain(root) \subseteq alloc
    BY DEF IInv, SnapshotsAccounted
  <1>3. Chain(root) = Behind(prev, root)
    BY ChainIs
  <1> QED
    BY <1>1, <1>2, <1>3, Constants, BehindClosed

LEMMA BuildStep ==
  ASSUME IInv, NEW t \in Threads, Build(t)
  PROVE  IInv'
  <1> DEFINE r == loc[t].rootPtr
             id == loc[t].id
             s == Min(Snaps \ alloc)
             o == created + 1
             l == [loc[t] EXCEPT !.new = s, !.obj = o]
             copy == [i \in DOMAIN data[r] \cup {id} |-> IF i = id THEN o ELSE data[r][i]]
  <1>1. /\ pc[t] = "search" /\ pc' = [pc EXCEPT ![t] = "cas"]
        /\ id \notin DOMAIN data[r]
        /\ alloc' = alloc \cup {s} /\ data' = [data EXCEPT ![s] = copy]
        /\ prev' = [prev EXCEPT ![s] = r]
        /\ created' = o /\ loc' = [loc EXCEPT ![t] = l]
        /\ root' = root /\ drops' = drops /\ UNCHANGED frame
    BY DEF Build, Step, Set
  <1>2. s \in Snaps /\ s \notin alloc
    BY <1>1, RoomForCopy
  <1>3. o \in Objects /\ created \in Nat /\ o = created + 1
    <2>1. o \in Objects
      BY <1>1, RoomForObject
    <2> QED
      BY <2>1 DEF IInv, Types, TypeOK
  <1>4. /\ loc[t] \in Locals /\ id \in Ids
        /\ r \in Chain(root) \cup {0} /\ r \in Snaps \cup {0}
    BY <1>1, Searching
  <1>5. /\ l \in Locals /\ l.id = id /\ l.rootPtr = r /\ l.new = s /\ l.obj = o
    <2>1. /\ loc[t] \in Locals /\ s \in Snaps /\ o \in Objects
          /\ l = [loc[t] EXCEPT !.new = s, !.obj = o]
      BY <1>2, <1>3, <1>4
    <2> HIDE DEF s, o, l
    <2> QED
      BY <2>1 DEF Locals
  <1>6. /\ DOMAIN copy = DOMAIN data[r] \cup {id} /\ copy[id] = o
        /\ \A i \in DOMAIN data[r] : copy[i] = data[r][i]
    BY <1>1
  <1>7. /\ pc \in [Threads -> Places] /\ loc \in [Threads -> Locals]
        /\ DOMAIN data = Snaps \cup {0} /\ prev \in [Snaps -> Snaps \cup {0}]
        /\ "cas" \in Places
    BY DEF IInv, Types, TypeOK, Places
  <1> HIDE DEF r, id, s, o, l, copy
  <1>8. /\ DOMAIN data' = Snaps \cup {0} /\ data'[s] = copy
        /\ \A x \in Snaps \cup {0} : x # s => data'[x] = data[x]
        /\ prev' \in [Snaps -> Snaps \cup {0}] /\ prev'[s] = r
        /\ \A x \in Snaps : x # s => prev'[x] = prev[x]
    BY <1>1, <1>2, <1>4, <1>7
  <1>9. /\ pc' \in [Threads -> Places] /\ loc' \in [Threads -> Locals]
        /\ \A u \in Threads \ {t} : pc'[u] = pc[u] /\ loc'[u] = loc[u]
        /\ pc'[t] = "cas" /\ loc'[t] = l
    BY <1>1, <1>5, <1>7
  <1>10. /\ t \notin InFlight /\ InFlight' = InFlight \cup {t}
         /\ \A u \in InFlight : u \in Threads \ {t}
    BY <1>1, <1>9 DEF InFlight
  <1>11. \A x \in Chain(root) \cup {0} : x # s
    BY <1>2, Published
  <1>12. root # s /\ r # s /\ data'[root] = data[root] /\ data'[r] = data[r]
    BY <1>4, <1>8, <1>11, Published
  <1>13. Chain(root)' = Chain(root)
    <2>1. \A c \in Behind(prev, root) : prev'[c] = prev[c]
      BY <1>8, <1>11, Published
    <2>2. \A c \in Snaps : prev'[c] \in Snaps \cup {0}
      BY <1>8
    <2>3. Behind(prev', root) = Behind(prev, root)
      BY <2>1, <2>2, Published, BehindKept
    <2> QED
      BY <1>1, <2>3, ChainIs
  <1>14. Types'
    <2>1. \A x \in Snaps \cup {0} : DOMAIN data'[x] \subseteq Ids
      BY <1>4, <1>6, <1>8 DEF IInv, Types, TypeOK
    <2>2. data'[0] = Empty
      BY <1>8, <1>11 DEF IInv, Types
    <2>3. \A u \in Threads : pc'[u] \in {"search", "cas"} => loc'[u].id \in Ids
      BY <1>4, <1>5, <1>9 DEF IInv, Types
    <2>4. /\ root' \in Snaps \cup {0} /\ alloc' \subseteq Snaps
          /\ created' \in 0 .. MaxObjects /\ drops' \in [Objects -> 0 .. 1]
          /\ disposable' \in BOOLEAN /\ needDisposing' \in BOOLEAN
          /\ registered' \in 0 .. Cardinality(Threads)
      BY <1>1, <1>2, <1>3 DEF IInv, Types, TypeOK, Objects, frame
    <2> QED
      BY <1>8, <1>9, <2>1, <2>2, <2>3, <2>4 DEF Types, TypeOK
  <1>15. SnapshotsAccounted'
    <2>1. /\ alloc = Chain(root) \cup {loc[u].new : u \in InFlight}
          /\ \A u, v \in InFlight : u # v => loc[u].new # loc[v].new
          /\ \A u \in Threads : pc[u] \in {"search", "cas"} =>
                loc[u].rootPtr \in Chain(root) \cup {0}
      BY DEF IInv, SnapshotsAccounted
    <2>2. \A u \in InFlight : loc[u].new \in alloc /\ loc[u].new \notin Chain(root)
      BY Private
    <2>3. {loc'[u].new : u \in InFlight'} = {loc[u].new : u \in InFlight} \cup {s}
      BY <1>5, <1>9, <1>10
    <2>4. alloc' = Chain(root) \cup {loc'[u].new : u \in InFlight'}
      BY <1>1, <2>1, <2>3
    <2>5. \A u, v \in InFlight' : u # v => loc'[u].new # loc'[v].new
      BY <1>2, <1>5, <1>9, <1>10, <2>1, <2>2
    <2>6. \A u \in InFlight' : loc'[u].new \notin Chain(root)
      BY <1>5, <1>9, <1>10, <1>11, <2>2
    <2>7. \A u \in Threads : pc'[u] \in {"search", "cas"} =>
            loc'[u].rootPtr \in Chain(root) \cup {0}
      BY <1>4, <1>5, <1>9, <2>1
    <2> QED
      BY <1>13, <2>4, <2>5, <2>6, <2>7 DEF SnapshotsAccounted
  <1>16. Ordered'
    <2>1. \A x \in Chain(root) : data'[x] = data[x]
      BY <1>8, <1>11, Published
    <2> QED
      BY <1>1, <1>12, <1>13, <2>1 DEF IInv, Ordered
  <1>17. Copies'
    <2>1. ASSUME NEW u \in InFlight
          PROVE  /\ loc'[u] = loc[u] /\ loc[u].new # s /\ loc[u].rootPtr # s
                 /\ data'[loc[u].new] = data[loc[u].new]
                 /\ data'[loc[u].rootPtr] = data[loc[u].rootPtr]
                 /\ prev'[loc[u].new] = prev[loc[u].new]
      <3>1. loc[u].new # s /\ loc[u].rootPtr # s /\ loc'[u] = loc[u]
        BY <1>2, <1>9, <1>10, <1>11, Private
      <3> QED
        BY <1>8, <3>1, Private
    <2>2. \A u \in InFlight :
            LET m == loc'[u]
            IN /\ m.new \in Snaps /\ prev'[m.new] = m.rootPtr
               /\ m.id \notin DOMAIN data'[m.rootPtr]
               /\ DOMAIN data'[m.new] = DOMAIN data'[m.rootPtr] \cup {m.id}
               /\ data'[m.new][m.id] = m.obj
               /\ \A i \in DOMAIN data'[m.rootPtr] : data'[m.new][i] = data'[m.rootPtr][i]
      BY <2>1 DEF IInv, Copies
    <2>3. /\ l.new \in Snaps /\ prev'[l.new] = l.rootPtr
          /\ l.id \notin DOMAIN data'[l.rootPtr]
          /\ DOMAIN data'[l.new] = DOMAIN data'[l.rootPtr] \cup {l.id}
          /\ data'[l.new][l.id] = l.obj
          /\ \A i \in DOMAIN data'[l.rootPtr] : data'[l.new][i] = data'[l.rootPtr][i]
      BY <1>1, <1>2, <1>5, <1>6, <1>8, <1>12
    <2> QED
      BY <1>9, <1>10, <2>2, <2>3 DEF Copies
  <1>18. Owned'
    <2>1. Owned /\ drops \in [Objects -> 0 .. 1]
      BY DEF IInv, Types, TypeOK
    <2>2. o \notin 1 .. created /\ 1 .. o = (1 .. created) \cup {o} /\ drops[o] = 0
      BY <1>3, <2>1 DEF Owned, Objects
    <2>3. \A u \in InFlight : loc'[u] = loc[u]
      BY <1>9, <1>10
    <2>4. \A x \in Objects : drops'[x] # 0 => x <= created'
      BY <1>1, <1>3, <2>1 DEF Owned, Objects
    <2>5. /\ \A i \in DOMAIN data'[root'] :
                data'[root'][i] \in 1 .. created' /\ drops'[data'[root'][i]] = 0
          /\ \A i, j \in DOMAIN data'[root'] : data'[root'][i] = data'[root'][j] => i = j
      BY <1>1, <1>12, <2>1, <2>2 DEF Owned
    <2>6. \A u \in InFlight' :
            /\ loc'[u].obj \in 1 .. created' /\ drops'[loc'[u].obj] = 0
            /\ \A i \in DOMAIN data'[root'] : data'[root'][i] # loc'[u].obj
      BY <1>1, <1>5, <1>9, <1>10, <1>12, <2>1, <2>2, <2>3 DEF Owned
    <2>7. \A u, v \in InFlight' : loc'[u].obj = loc'[v].obj => u = v
      BY <1>5, <1>9, <1>10, <2>1, <2>2, <2>3 DEF Owned
    <2>8. \A x \in 1 .. created' :
            \/ drops'[x] = 1
            \/ \E i \in DOMAIN data'[root'] : data'[root'][i] = x
            \/ \E u \in InFlight' : loc'[u].obj = x
      BY <1>1, <1>5, <1>9, <1>10, <1>12, <2>1, <2>2, <2>3 DEF Owned
    <2> QED
      BY <2>4, <2>5, <2>6, <2>7, <2>8 DEF Owned
  <1>19. Registering'
    <2>1. /\ Registering /\ "cas" \in Places \ {"need", "mark", "register"}
          /\ pc[t] \notin {"need", "mark", "register"}
      BY <1>1 DEF IInv, Places
    <2>2. root' # 0 /\ prev'[root'] # 0 => root # 0 /\ prev[root] # 0
      BY <1>1, <1>8, <1>12, Published
    <2> QED
      BY <1>1, <1>7, <2>1, <2>2, RegisteringKept
  <1>20. Budget'
    <2> DEFINE n == Size(r)
    <2>1. n \in Nat /\ <<t, n>> \in ToCome /\ Least(t) = n
      BY <1>1, RoomForObject, Searching DEF r, id
    <2>2. Least(t)' = n + 1
      BY <1>5, <1>9, <1>12 DEF Least, Size
    <2>3. ASSUME NEW u \in Threads \ {t} PROVE Least(u)' = Least(u)
      <3>1. pc'[u] = pc[u] /\ loc'[u] = loc[u] /\ root' = root
        BY <1>1, <1>9
      <3>2. pc[u] \in {"search", "cas"} => data'[loc[u].rootPtr] = data[loc[u].rootPtr]
        BY <1>8, <1>11, LeastIsNumber DEF IInv, SnapshotsAccounted
      <3> QED
        BY <1>12, <3>1, <3>2 DEF Least, Size
    <2> HIDE DEF n
    <2>4. ToCome' \subseteq ToCome \ {<<t, n>>}
      BY <2>1, <2>2, <2>3 DEF ToCome
    <2>5. /\ IsFiniteSet(ToCome \ {<<t, n>>})
          /\ Cardinality(ToCome \ {<<t, n>>}) = Cardinality(ToCome) - 1
      BY <2>1, ToComeFinite, FS_RemoveElement
    <2>6. Cardinality(ToCome') <= Cardinality(ToCome) - 1
      BY <2>4, <2>5, FS_Subset
    <2> QED
      BY <1>1, <1>3, <2>6, ToComeFinite, Constants DEF IInv, Budget
  <1> QED
    BY <1>14, <1>15, <1>16, <1>17, <1>18, <1>19, <1>20 DEF IInv

-----------------------------------------------------------------------------
(* Switching *)

\* The copy in flight holds one id more than the snapshot it was made of.
LEMMA CopyIsLarger ==
  ASSUME IInv, NEW u \in InFlight
  PROVE  /\ Size(loc[u].new) = Size(loc[u].rootPtr) + 1
         /\ Least(u) = Size(loc[u].new)
         /\ Last(loc[u].new) \in Ids
  <1> DEFINE D == DOMAIN data[loc[u].rootPtr]
             E == DOMAIN data[loc[u].new]
             id == loc[u].id
  <1>1. /\ D \subseteq Ids /\ E \subseteq Ids /\ id \in Ids \ D /\ E = D \cup {id}
    BY Private DEF IInv, Types, TypeOK, Copies
  <1>2. /\ Size(loc[u].rootPtr) = Cardinality(D) /\ Size(loc[u].new) = Cardinality(E)
        /\ Last(loc[u].new) = Max(E)
    BY DEF Size, Last
  <1> HIDE DEF D, E, id
  <1>3. Cardinality(E) = Cardinality(D) + 1
    BY <1>1, Sizes
  <1>4. Max(E) \in E
    <2>1. E \subseteq Nat /\ E # {} /\ IsFiniteSet(E)
      BY <1>1, IVecAssumption, Sizes
    <2> QED
      BY <2>1, GreatestOf
  <1>5. pc[u] = "cas"
    BY Private
  <1> QED
    BY <1>1, <1>2, <1>3, <1>4, <1>5 DEF Least

LEMMA WinStep ==
  ASSUME IInv, NEW t \in Threads,
         Step(t, "cas", IF disposable THEN "need" ELSE "return"),
         root = loc[t].rootPtr, root' = loc[t].new,
         Set(t, [loc[t] EXCEPT !.snap = loc[t].new, !.elem = Last(loc[t].new)]),
         UNCHANGED <<data, alloc, drops>>, UNCHANGED <<prev, frame, created>>
  PROVE  IInv'
  <1> DEFINE s == loc[t].new
             o == loc[t].obj
             id == loc[t].id
             l == [loc[t] EXCEPT !.snap = s, !.elem = Last(s)]
             to == IF disposable THEN "need" ELSE "return"
  <1>1. /\ pc[t] = "cas" /\ pc' = [pc EXCEPT ![t] = to] /\ loc' = [loc EXCEPT ![t] = l]
        /\ root = loc[t].rootPtr /\ root' = s
        /\ data' = data /\ alloc' = alloc /\ drops' = drops
        /\ prev' = prev /\ created' = created /\ UNCHANGED frame
        /\ to = IF disposable THEN "need" ELSE "return"
    BY DEF Step, Set
  <1>2. t \in InFlight
    BY <1>1 DEF InFlight
  <1>3. /\ loc[t] \in Locals /\ id \in Ids
        /\ s \in Snaps /\ s \in alloc /\ s \notin Chain(root)
    BY <1>2, Private
  <1>4. /\ prev[s] = root /\ id \notin DOMAIN data[root]
        /\ DOMAIN data[s] = DOMAIN data[root] \cup {id} /\ data[s][id] = o
        /\ \A i \in DOMAIN data[root] : data[s][i] = data[root][i]
    BY <1>1, <1>2 DEF IInv, Copies
  <1>5. Size(s) = Size(root) + 1 /\ Least(t) = Size(s) /\ Last(s) \in Ids
    BY <1>1, <1>2, CopyIsLarger
  <1>6. l \in Locals
    BY <1>3, <1>5, Found
  <1>7. /\ pc \in [Threads -> Places] /\ loc \in [Threads -> Locals]
        /\ "need" \in Places /\ "return" \in Places
    BY DEF IInv, Types, Places
  <1> HIDE DEF s, o, id, l, to
  <1>8. /\ pc' \in [Threads -> Places] /\ loc' \in [Threads -> Locals]
        /\ \A u \in Threads \ {t} : pc'[u] = pc[u] /\ loc'[u] = loc[u]
        /\ pc'[t] = to /\ to \in {"need", "return"} /\ loc'[t] = l
    BY <1>1, <1>6, <1>7
  <1>9. InFlight' = InFlight \ {t} /\ \A u \in InFlight' : u \in Threads /\ loc'[u] = loc[u]
    BY <1>2, <1>8 DEF InFlight
  <1>10. Chain(root)' = Chain(root) \cup {s}
    BY <1>1, <1>3, <1>4, ChainIs, Published, BehindNew
  <1>11. Types'
    BY <1>1, <1>3, <1>8 DEF IInv, Types, TypeOK, frame
  <1>12. SnapshotsAccounted'
    <2>1. /\ alloc = Chain(root) \cup {loc[u].new : u \in InFlight}
          /\ \A u, v \in InFlight : u # v => loc[u].new # loc[v].new
          /\ \A u \in InFlight : loc[u].new \notin Chain(root)
          /\ \A u \in Threads : pc[u] \in {"search", "cas"} =>
                loc[u].rootPtr \in Chain(root) \cup {0}
      BY DEF IInv, SnapshotsAccounted
    <2>2. {loc[u].new : u \in InFlight} = {loc'[u].new : u \in InFlight'} \cup {s}
      BY <1>2, <1>9 DEF s
    <2>3. \A u \in InFlight' : loc'[u].new # s
      BY <1>2, <1>9, <2>1 DEF s
    <2> QED
      BY <1>1, <1>8, <1>9, <1>10, <2>1, <2>2, <2>3 DEF SnapshotsAccounted
  <1>13. Ordered'
    <2>1. \A x \in Chain(root) : DOMAIN data[x] # {} /\ DOMAIN data[x] \subseteq DOMAIN data[s]
      BY <1>4 DEF IInv, Ordered
    <2>2. \A x \in Chain(root) : Size(x) # Size(s)
      <3>1. \A x \in Chain(root) : Size(x) <= Size(root) /\ Size(x) \in Int
        BY RootIsLargest, Published
      <3> QED
        BY <1>5, <3>1, LeastIsNumber
    <2> QED
      BY <1>1, <1>4, <1>10, <2>1, <2>2 DEF IInv, Ordered, Size
  <1>14. Copies'
    BY <1>1, <1>9 DEF IInv, Copies
  <1>15. Owned'
    <2>1. /\ o \in 1 .. created /\ drops[o] = 0
          /\ \A i \in DOMAIN data[root] : data[root][i] # o
          /\ \A u \in InFlight' : loc[u].obj # o
      BY <1>2, <1>9 DEF o, IInv, Owned
    <2>2. /\ \A i \in DOMAIN data[s] : data[s][i] \in 1 .. created /\ drops[data[s][i]] = 0
          /\ \A i, j \in DOMAIN data[s] : data[s][i] = data[s][j] => i = j
      BY <1>4, <2>1 DEF IInv, Owned
    <2>3. \A u \in InFlight' :
            /\ loc[u].obj \in 1 .. created /\ drops[loc[u].obj] = 0
            /\ \A i \in DOMAIN data[s] : data[s][i] # loc[u].obj
      BY <1>4, <1>9, <2>1 DEF IInv, Owned
    <2>4. \A u, v \in InFlight' : loc[u].obj = loc[v].obj => u = v
      BY <1>9 DEF IInv, Owned
    <2>5. \A x \in 1 .. created :
            \/ drops[x] = 1
            \/ \E i \in DOMAIN data[s] : data[s][i] = x
            \/ \E u \in InFlight' : loc[u].obj = x
      <3>1. \A x \in 1 .. created :
              \/ drops[x] = 1
              \/ \E i \in DOMAIN data[root] : data[root][i] = x
              \/ \E u \in InFlight : loc[u].obj = x
        BY DEF IInv, Owned
      <3> QED
        BY <1>4, <1>9, <3>1 DEF o
    <2>6. \A x \in Objects : drops[x] # 0 => x <= created
      BY DEF IInv, Owned
    <2> QED
      BY <1>1, <1>9, <2>2, <2>3, <2>4, <2>5, <2>6 DEF Owned
  <1>16. Registering'
    <2>1. \A u \in Threads \ {t} : pc'[u] = pc[u]
      BY <1>8
    <2>2. Marking' = Marking
      BY <1>1, <1>8 DEF Marking
    <2>3. \A u \in Threads : pc'[u] = "register" <=> pc[u] = "register"
      BY <1>1, <1>8
    <2>4. disposable => pc'[t] = "need"
      BY <1>1, <1>8
    <2> QED
      BY <1>1, <2>2, <2>3, <2>4 DEF IInv, Registering, frame
  <1>17. Budget'
    <2>1. Least(t)' = Least(t)
      BY <1>1, <1>5, <1>8 DEF Least, Size
    <2>2. ASSUME NEW u \in Threads \ {t}
          PROVE  Least(u)' \in Int /\ Least(u) <= Least(u)'
      <3>1. pc'[u] = pc[u] /\ loc'[u] = loc[u]
        BY <1>8
      <3>2. Least(u)' = IF pc[u] \in {"search", "cas"} THEN Least(u) ELSE Size(s)
        BY <1>1, <3>1 DEF Least, Size
      <3>3. pc[u] \notin {"search", "cas"} => Least(u) = Size(root)
        BY DEF Least
      <3> QED
        BY <1>5, <3>2, <3>3, LeastIsNumber
    <2>3. created \in Nat
      BY DEF IInv, Types, TypeOK
    <2> QED
      BY <1>1, <2>1, <2>2, <2>3, LeastIsNumber, BudgetKept DEF IInv
  <1> QED
    BY <1>11, <1>12, <1>13, <1>14, <1>15, <1>16, <1>17 DEF IInv

LEMMA LossStep ==
  ASSUME IInv, NEW t \in Threads, Step(t, "cas", "search"), root # loc[t].rootPtr,
         drops' = [drops EXCEPT ![loc[t].obj] = @ + 1],
         alloc' = alloc \ {loc[t].new},
         data' = [data EXCEPT ![loc[t].new] = Empty],
         Set(t, [loc[t] EXCEPT !.rootPtr = root, !.new = 0, !.obj = 0]),
         UNCHANGED root, UNCHANGED <<prev, frame, created>>
  PROVE  IInv'
  <1> DEFINE s == loc[t].new
             o == loc[t].obj
             r == loc[t].rootPtr
             l == [loc[t] EXCEPT !.rootPtr = root, !.new = 0, !.obj = 0]
  <1>1. /\ pc[t] = "cas" /\ pc' = [pc EXCEPT ![t] = "search"] /\ loc' = [loc EXCEPT ![t] = l]
        /\ root # r /\ root' = root
        /\ data' = [data EXCEPT ![s] = Empty] /\ alloc' = alloc \ {s}
        /\ drops' = [drops EXCEPT ![o] = @ + 1]
        /\ prev' = prev /\ created' = created /\ UNCHANGED frame
        /\ l = [loc[t] EXCEPT !.rootPtr = root, !.new = 0, !.obj = 0]
    BY DEF Step, Set
  <1>2. t \in InFlight
    BY <1>1 DEF InFlight
  <1>3. /\ loc[t] \in Locals /\ loc[t].id \in Ids
        /\ s \in Snaps /\ s \in alloc /\ s \notin Chain(root)
        /\ r \in Chain(root) \cup {0}
    BY <1>2, Private
  <1>4. Size(s) = Size(r) + 1 /\ Least(t) = Size(s)
    BY <1>2, CopyIsLarger
  <1>5. /\ pc \in [Threads -> Places] /\ loc \in [Threads -> Locals]
        /\ DOMAIN data = Snaps \cup {0} /\ "search" \in Places
        /\ drops \in [Objects -> 0 .. 1] /\ created \in 0 .. MaxObjects
    BY DEF IInv, Types, TypeOK, Places
  <1>6. o \in 1 .. created /\ drops[o] = 0
    BY <1>2 DEF IInv, Owned
  <1> HIDE DEF s, o, r, l
  <1>7. l \in Locals /\ l.id = loc[t].id /\ l.rootPtr = root
    BY <1>1, <1>3, Published DEF Locals
  <1>8. /\ pc' \in [Threads -> Places] /\ loc' \in [Threads -> Locals]
        /\ \A u \in Threads \ {t} : pc'[u] = pc[u] /\ loc'[u] = loc[u]
        /\ pc'[t] = "search" /\ loc'[t] = l
    BY <1>1, <1>5, <1>7
  <1>9. InFlight' = InFlight \ {t} /\ \A u \in InFlight' : u \in Threads /\ loc'[u] = loc[u]
    BY <1>2, <1>8 DEF InFlight
  <1>10. Chain(root)' = Chain(root)
    BY <1>1 DEF Chain
  <1>11. /\ DOMAIN data' = Snaps \cup {0} /\ data'[s] = Empty /\ DOMAIN Empty = {}
         /\ \A x \in Snaps \cup {0} : x # s => data'[x] = data[x]
    BY <1>1, <1>3, <1>5 DEF Empty
  <1>12. \A x \in Chain(root) \cup {0} : x # s /\ x \in Snaps \cup {0} /\ data'[x] = data[x]
    BY <1>3, <1>11, Published
  <1>13. data'[root] = data[root]
    BY <1>12, Published
  <1>14. o \in Objects /\ drops'[o] = 1 /\ \A x \in Objects : x # o => drops'[x] = drops[x]
    <2>1. o \in Objects
      BY <1>5, <1>6, Constants DEF Objects
    <2> QED
      BY <1>1, <1>5, <1>6, <2>1
  <1>15. Types'
    <2>1. \A x \in Snaps \cup {0} : DOMAIN data'[x] \subseteq Ids
      BY <1>11 DEF IInv, Types, TypeOK
    <2>2. data'[0] = Empty
      BY <1>12 DEF IInv, Types
    <2>3. \A u \in Threads : pc'[u] \in {"search", "cas"} => loc'[u].id \in Ids
      BY <1>3, <1>7, <1>8 DEF IInv, Types
    <2>4. drops' \in [Objects -> 0 .. 1]
      BY <1>1, <1>5, <1>14
    <2>5. /\ root' \in Snaps \cup {0} /\ alloc' \subseteq Snaps
          /\ prev' \in [Snaps -> Snaps \cup {0}] /\ created' \in 0 .. MaxObjects
          /\ disposable' \in BOOLEAN /\ needDisposing' \in BOOLEAN
          /\ registered' \in 0 .. Cardinality(Threads)
      BY <1>1 DEF IInv, Types, TypeOK, frame
    <2> QED
      BY <1>8, <1>11, <2>1, <2>2, <2>3, <2>4, <2>5 DEF Types, TypeOK
  <1>16. SnapshotsAccounted'
    <2>1. /\ alloc = Chain(root) \cup {loc[u].new : u \in InFlight}
          /\ \A u, v \in InFlight : u # v => loc[u].new # loc[v].new
          /\ \A u \in InFlight : loc[u].new \notin Chain(root)
          /\ \A u \in Threads : pc[u] \in {"search", "cas"} =>
                loc[u].rootPtr \in Chain(root) \cup {0}
      BY DEF IInv, SnapshotsAccounted
    <2>2. {loc[u].new : u \in InFlight} = {loc'[u].new : u \in InFlight'} \cup {s}
      BY <1>2, <1>9 DEF s
    <2>3. \A u \in InFlight' : loc'[u].new # s
      BY <1>2, <1>9, <2>1 DEF s
    <2>4. alloc' = Chain(root) \cup {loc'[u].new : u \in InFlight'}
      <3> DEFINE news == {loc'[u].new : u \in InFlight'}
      <3>1. alloc = Chain(root) \cup (news \cup {s}) /\ s \notin news
        BY <2>1, <2>2, <2>3
      <3> HIDE DEF news
      <3>2. alloc' = Chain(root) \cup news
        BY <1>1, <1>3, <3>1
      <3> QED
        BY <3>2 DEF news
    <2>5. \A u \in Threads : pc'[u] \in {"search", "cas"} =>
            loc'[u].rootPtr \in Chain(root) \cup {0}
      BY <1>7, <1>8, <2>1, Published
    <2> QED
      BY <1>9, <1>10, <2>1, <2>4, <2>5 DEF SnapshotsAccounted
  <1>17. Ordered'
    BY <1>1, <1>10, <1>12, <1>13 DEF IInv, Ordered
  <1>18. Copies'
    <2>1. ASSUME NEW u \in InFlight'
          PROVE  /\ loc'[u] = loc[u] /\ u \in InFlight
                 /\ data'[loc[u].new] = data[loc[u].new]
                 /\ data'[loc[u].rootPtr] = data[loc[u].rootPtr]
      <3>1. loc[u].new # loc[t].new /\ u \in InFlight
        BY <1>2, <1>9 DEF IInv, SnapshotsAccounted
      <3> QED
        BY <1>9, <1>11, <1>12, <3>1, Private DEF s
    <2>2. ASSUME NEW u \in InFlight'
          PROVE  LET m == loc[u]
                 IN /\ m.new \in Snaps /\ prev'[m.new] = m.rootPtr
                    /\ m.id \notin DOMAIN data'[m.rootPtr]
                    /\ DOMAIN data'[m.new] = DOMAIN data'[m.rootPtr] \cup {m.id}
                    /\ data'[m.new][m.id] = m.obj
                    /\ \A i \in DOMAIN data'[m.rootPtr] : data'[m.new][i] = data'[m.rootPtr][i]
      <3>1. /\ u \in InFlight /\ data'[loc[u].new] = data[loc[u].new]
            /\ data'[loc[u].rootPtr] = data[loc[u].rootPtr] /\ prev' = prev
        BY <1>1, <2>1
      <3> QED
        BY <3>1 DEF IInv, Copies
    <2> QED
      BY <2>1, <2>2 DEF Copies
  <1>19. Owned'
    <2>1. /\ \A i \in DOMAIN data[root] :
               data[root][i] \in 1 .. created /\ drops[data[root][i]] = 0 /\ data[root][i] # o
          /\ \A u \in InFlight' : loc[u].obj # o
      BY <1>2, <1>9 DEF o, IInv, Owned
    <2>2. \A x \in 1 .. created : x \in Objects
      BY <1>5, Constants DEF Objects
    <2>3. /\ \A i \in DOMAIN data[root] :
                data[root][i] \in 1 .. created /\ drops'[data[root][i]] = 0
          /\ \A i, j \in DOMAIN data[root] : data[root][i] = data[root][j] => i = j
      BY <1>14, <2>1, <2>2 DEF IInv, Owned
    <2>4. \A u \in InFlight' :
            /\ loc[u].obj \in 1 .. created /\ drops'[loc[u].obj] = 0
            /\ \A i \in DOMAIN data[root] : data[root][i] # loc[u].obj
      BY <1>9, <1>14, <2>1, <2>2 DEF IInv, Owned
    <2>5. \A u, v \in InFlight' : loc[u].obj = loc[v].obj => u = v
      BY <1>9 DEF IInv, Owned
    <2>6. \A x \in 1 .. created :
            \/ drops'[x] = 1
            \/ \E i \in DOMAIN data[root] : data[root][i] = x
            \/ \E u \in InFlight' : loc[u].obj = x
      <3>1. \A x \in 1 .. created :
              \/ drops[x] = 1
              \/ \E i \in DOMAIN data[root] : data[root][i] = x
              \/ \E u \in InFlight : loc[u].obj = x
        BY DEF IInv, Owned
      <3> QED
        BY <1>9, <1>14, <2>2, <3>1 DEF o
    <2>7. \A x \in Objects : drops'[x] # 0 => x <= created
      BY <1>5, <1>6, <1>14 DEF IInv, Owned
    <2> QED
      BY <1>1, <1>9, <1>13, <2>3, <2>4, <2>5, <2>6, <2>7 DEF Owned
  <1>20. Registering'
    BY <1>1, <1>5, RegisteringKept DEF IInv, Places
  <1>21. Budget'
    <2>1. Size(r) < Size(root) /\ Size(r) \in Int
      BY <1>1, <1>3, RootIsLargest
    <2>2. Least(t)' = Size(root)
      BY <1>1, <1>7, <1>8, <1>13 DEF Least, Size
    <2>3. Least(t) <= Least(t)' /\ Least(t)' \in Int
      BY <1>4, <2>1, <2>2, LeastIsNumber
    <2>4. ASSUME NEW u \in Threads \ {t} PROVE Least(u)' = Least(u)
      <3>1. pc'[u] = pc[u] /\ loc'[u] = loc[u]
        BY <1>8
      <3>2. pc[u] \in {"search", "cas"} => data'[loc[u].rootPtr] = data[loc[u].rootPtr]
        BY <1>12 DEF IInv, SnapshotsAccounted
      <3> QED
        BY <1>1, <1>13, <3>1, <3>2 DEF Least, Size
    <2>5. \A u \in Threads : Least(u)' \in Int /\ Least(u) <= Least(u)'
      BY <2>3, <2>4, LeastIsNumber
    <2> QED
      BY <1>1, <1>5, <2>5, LeastIsNumber, BudgetKept DEF IInv
  <1> QED
    BY <1>15, <1>16, <1>17, <1>18, <1>19, <1>20, <1>21 DEF IInv

LEMMA SwitchStep ==
  ASSUME IInv, NEW t \in Threads, Switch(t)
  PROVE  IInv'
  BY WinStep, LossStep DEF Switch

-----------------------------------------------------------------------------
(* Clearing, disposing and dropping *)

\* With no call in flight there is nothing but what is published.
LEMMA Alone ==
  ASSUME IInv, Idle
  PROVE  /\ InFlight = {} /\ alloc = Chain(root)
         /\ \A u \in Threads : Least(u) = Size(root)
         /\ \A o \in 1 .. created :
              drops[o] = 1 \/ \E i \in DOMAIN data[root] : data[root][i] = o
  <1>1. \A u \in Threads : pc[u] = "idle"
    BY DEF Idle
  <1>2. \A u : u \notin InFlight
    BY <1>1 DEF InFlight
  <1>3. InFlight = {}
    BY <1>2
  <1>4. \A x : x \notin {loc[u].new : u \in InFlight}
    BY <1>2
  <1>5. alloc = Chain(root)
    BY <1>4 DEF IInv, SnapshotsAccounted
  <1>6. \A u \in Threads : Least(u) = Size(root)
    BY <1>1 DEF Least
  <1>7. \A o \in 1 .. created :
          drops[o] = 1 \/ \E i \in DOMAIN data[root] : data[root][i] = o
    BY <1>2 DEF IInv, Owned
  <1> QED
    BY <1>3, <1>5, <1>6, <1>7

\* Clearing leaves the root alone, with nothing behind it: all but the registration.
LEMMA ClearPrevStep ==
  ASSUME IInv, Idle, ClearPrev, UNCHANGED <<root, disposable, objects, pc, loc>>,
         needDisposing' \in BOOLEAN, registered' \in 0 .. Cardinality(Threads)
  PROVE  /\ Types' /\ SnapshotsAccounted' /\ Ordered' /\ Copies' /\ Owned' /\ Budget'
         /\ root # 0 => prev'[root] = 0
  <1> DEFINE chain == Chain(root)
             old == chain \ {root}
  <1>1. /\ alloc' = alloc \ old
        /\ data' = [s \in Snaps \cup {0} |-> IF s \in old THEN Empty ELSE data[s]]
        /\ prev' = [s \in Snaps |-> IF s = root \/ s \in old THEN 0 ELSE prev[s]]
        /\ root' = root /\ disposable' = disposable /\ created' = created /\ drops' = drops
        /\ pc' = pc /\ loc' = loc
    BY DEF ClearPrev, objects
  <1>2. /\ chain \subseteq Snaps /\ root \in chain \cup {0} /\ root \in Snaps \cup {0}
        /\ 0 \notin chain /\ 0 \notin Snaps
        /\ \A c \in Snaps : prev[c] \in Snaps \cup {0}
    BY Published
  <1>3. /\ InFlight = {} /\ alloc = chain /\ \A u \in Threads : Least(u) = Size(root)
    BY Alone
  <1> HIDE DEF chain
  <1>4. /\ DOMAIN data' = Snaps \cup {0} /\ data'[root] = data[root] /\ data'[0] = data[0]
        /\ \A s \in Snaps \cup {0} : data'[s] = Empty \/ data'[s] = data[s]
    BY <1>1, <1>2
  <1>5. prev' \in [Snaps -> Snaps \cup {0}] /\ (root # 0 => prev'[root] = 0)
    BY <1>1, <1>2
  <1>6. Chain(root)' = chain \cap {root} /\ alloc' = chain \cap {root}
    <2>1. alloc' = chain \cap {root}
      BY <1>1, <1>3
    <2>2. CASE root = 0
      <3>1. Chain(root)' = {}
        BY <1>1, <2>2, ChainIs, BehindStatic
      <3> QED
        BY <1>2, <2>1, <2>2, <3>1
    <2>3. CASE root # 0
      <3>1. root \in Snaps /\ prev'[root] = 0 /\ \A c \in Snaps : prev'[c] \in Snaps \cup {0}
        BY <1>2, <1>5, <2>3
      <3>2. Behind(prev', root) = {root} \cup Behind(prev', prev'[root])
        BY <3>1, BehindNew
      <3>3. Behind(prev', root) = {root}
        BY <3>1, <3>2, BehindStatic
      <3> QED
        BY <1>1, <1>2, <2>1, <2>3, <3>3, ChainIs
    <2> QED
      BY <2>2, <2>3
  <1>7. InFlight' = {}
    BY <1>1, <1>3 DEF InFlight
  <1>8. Types'
    <2>1. \A s \in Snaps \cup {0} : DOMAIN data'[s] \subseteq Ids
      BY <1>4 DEF IInv, Types, TypeOK, Empty
    <2>2. alloc' \subseteq Snaps
      BY <1>2, <1>6
    <2> QED
      BY <1>1, <1>4, <1>5, <2>1, <2>2 DEF IInv, Types, TypeOK
  <1>9. SnapshotsAccounted'
    <2>1. \A x : x \notin {loc'[u].new : u \in InFlight'}
      BY <1>7
    <2>2. \A u \in Threads : pc'[u] \notin {"search", "cas"}
      BY <1>1 DEF Idle
    <2>3. alloc' = Chain(root)' \cup {loc'[u].new : u \in InFlight'}
      BY <1>6, <2>1
    <2> QED
      BY <1>7, <2>2, <2>3 DEF SnapshotsAccounted
  <1>10. Ordered'
    <2>1. root \in chain => DOMAIN data[root] # {}
      BY DEF IInv, Ordered, chain
    <2> QED
      BY <1>1, <1>4, <1>6, <2>1 DEF Ordered
  <1>11. Copies'
    BY <1>7 DEF Copies
  <1>12. Owned'
    BY <1>1, <1>3, <1>4, <1>7 DEF IInv, Owned
  <1>13. Budget'
    <2>1. \A u \in Threads : Least(u)' = Size(root)
      BY <1>1, <1>4 DEF Least, Size, Idle
    <2>2. created \in Nat
      BY DEF IInv, Types, TypeOK
    <2> QED
      BY <1>1, <1>3, <2>1, <2>2, LeastIsNumber, BudgetKept DEF IInv
  <1> QED
    BY <1>5, <1>8, <1>9, <1>10, <1>11, <1>12, <1>13

LEMMA ClearStep ==
  ASSUME IInv, Clear
  PROVE  IInv'
  <1>1. /\ Idle /\ ClearPrev /\ UNCHANGED <<root, disposable, objects, pc, loc>>
        /\ root' = root /\ root # 0 /\ disposable' = disposable /\ pc' = pc
        /\ needDisposing' = needDisposing /\ registered' = registered
        /\ needDisposing' \in BOOLEAN /\ registered' \in 0 .. Cardinality(Threads)
    BY DEF Clear, frame, IInv, Types, TypeOK
  <1>2. /\ Types' /\ SnapshotsAccounted' /\ Ordered' /\ Copies' /\ Owned' /\ Budget'
        /\ prev'[root] = 0
    BY <1>1, ClearPrevStep
  <1>3. Marking' = Marking
    BY <1>1 DEF Marking
  <1>4. Registering'
    BY <1>1, <1>2, <1>3 DEF IInv, Registering
  <1> QED
    BY <1>2, <1>4 DEF IInv

LEMMA DisposeStep ==
  ASSUME IInv, Dispose
  PROVE  IInv'
  <1>1. /\ Idle /\ ClearPrev /\ UNCHANGED <<root, disposable, objects, pc, loc>>
        /\ root' = root /\ pc' = pc
        /\ needDisposing' = FALSE /\ registered' = 0
        /\ needDisposing' \in BOOLEAN /\ registered' \in 0 .. Cardinality(Threads)
    <2>1. 0 \in 0 .. Cardinality(Threads)
      BY Constants
    <2>2. needDisposing' = FALSE /\ registered' = 0
      BY DEF Dispose
    <2> QED
      BY <2>1, <2>2 DEF Dispose
  <1>2. /\ Types' /\ SnapshotsAccounted' /\ Ordered' /\ Copies' /\ Owned' /\ Budget'
        /\ root # 0 => prev'[root] = 0
    BY <1>1, ClearPrevStep
  <1>3. \A u \in Threads : pc'[u] # "register"
    BY <1>1 DEF Idle
  <1>4. Registering'
    BY <1>1, <1>2, <1>3, MarkingFinite, Constants DEF Registering
  <1> QED
    BY <1>2, <1>4 DEF IInv

LEMMA DropStep ==
  ASSUME IInv, Drop
  PROVE  IInv'
  <1> DEFINE chain == Chain(root)
             held(o) == \E i \in DOMAIN data[root] : data[root][i] = o
  <1>1. /\ Idle /\ ~disposable /\ root # 0
        /\ created + Cardinality(Ids) * Cardinality(Threads) <= MaxObjects
        /\ drops' = [o \in Objects |-> drops[o] + IF held(o) THEN 1 ELSE 0]
        /\ alloc' = alloc \ chain
        /\ data' = [s \in Snaps \cup {0} |-> IF s \in chain THEN Empty ELSE data[s]]
        /\ prev' = [s \in Snaps |-> IF s \in chain THEN 0 ELSE prev[s]]
        /\ root' = 0 /\ UNCHANGED frame /\ created' = created /\ pc' = pc /\ loc' = loc
    BY DEF Drop
  <1>2. /\ 0 \notin chain /\ \A c \in Snaps : prev[c] \in Snaps \cup {0}
    BY Published
  <1>3. InFlight = {} /\ alloc = chain /\ \A o \in 1 .. created : drops[o] = 1 \/ held(o)
    BY <1>1, Alone
  <1>4. \A o \in Objects : held(o) => o <= created /\ drops[o] = 0
    BY DEF IInv, Owned
  <1>5. drops \in [Objects -> 0 .. 1] /\ \A o \in Objects : drops[o] # 0 => o <= created
    BY DEF IInv, Types, TypeOK, Owned
  <1>6. \A o \in 1 .. created : o \in Objects
    BY Constants DEF IInv, Types, TypeOK, Objects
  <1> HIDE DEF chain, held
  <1>7. /\ drops' \in [Objects -> 0 .. 1]
        /\ \A o \in Objects : drops'[o] # 0 => o <= created
        /\ \A o \in 1 .. created : drops'[o] = 1
    BY <1>1, <1>3, <1>4, <1>5, <1>6
  <1>8. /\ DOMAIN data' = Snaps \cup {0} /\ data'[0] = Empty /\ DOMAIN Empty = {}
        /\ \A s \in Snaps \cup {0} : data'[s] = Empty \/ data'[s] = data[s]
    BY <1>1, <1>2 DEF IInv, Types, Empty
  <1>9. Chain(root)' = {} /\ alloc' = {}
    BY <1>1, <1>3, ChainIs, BehindStatic
  <1>10. InFlight' = {}
    BY <1>1, <1>3 DEF InFlight
  <1>11. Types'
    <2>1. \A s \in Snaps \cup {0} : DOMAIN data'[s] \subseteq Ids
      BY <1>8 DEF IInv, Types, TypeOK
    <2>2. prev' \in [Snaps -> Snaps \cup {0}]
      BY <1>1, <1>2
    <2> QED
      BY <1>1, <1>7, <1>8, <1>9, <2>1, <2>2 DEF IInv, Types, TypeOK, frame
  <1>12. SnapshotsAccounted'
    <2>1. \A x : x \notin {loc'[u].new : u \in InFlight'}
      BY <1>10
    <2>2. \A u \in Threads : pc'[u] \notin {"search", "cas"}
      BY <1>1 DEF Idle
    <2>3. alloc' = Chain(root)' \cup {loc'[u].new : u \in InFlight'}
      BY <1>9, <2>1
    <2> QED
      BY <1>10, <2>2, <2>3 DEF SnapshotsAccounted
  <1>13. Ordered'
    BY <1>9 DEF Ordered
  <1>14. Copies'
    BY <1>10 DEF Copies
  <1>15. Owned'
    BY <1>1, <1>7, <1>8, <1>10 DEF Owned
  <1>16. Registering'
    <2>1. Marking' = Marking
      BY <1>1 DEF Marking
    <2> QED
      BY <1>1, <2>1 DEF IInv, Registering, frame
  <1>17. Budget'
    <2>1. created \in Nat
      BY DEF IInv, Types, TypeOK
    <2> DEFINE most == Cardinality(Ids) * Cardinality(Threads)
    <2>2. most \in Int /\ created + most <= MaxObjects
      BY <1>1, Constants
    <2>3. Cardinality(ToCome') <= most
      BY ToComeFinite
    <2> HIDE DEF most
    <2> QED
      BY <1>1, <2>1, <2>2, <2>3, ToComeFinite, Constants DEF Budget
  <1> QED
    BY <1>11, <1>12, <1>13, <1>14, <1>15, <1>16, <1>17 DEF IInv

-----------------------------------------------------------------------------
(* The theorems *)

LEMMA Initial ==
  ASSUME Init
  PROVE  IInv
  <1>1. /\ root = 0 /\ data = [s \in Snaps \cup {0} |-> Empty] /\ DOMAIN Empty = {}
        /\ \A t \in Threads : pc[t] = "idle"
    BY DEF Init, Empty
  <1>2. Chain(root) = {}
    BY <1>1, ChainIs, BehindStatic
  <1>3. \A t : t \notin InFlight
    BY <1>1 DEF InFlight
  <1>4. Marking = {}
    <2>1. \A t : t \notin Marking
      BY <1>1 DEF Marking
    <2> QED
      BY <2>1
  <1>5. Types
    <2>1. NoLocals \in Locals
      BY NewLocals
    <2>2. pc \in [Threads -> Places] /\ loc \in [Threads -> Locals]
      BY <2>1 DEF Init, Places
    <2>3. drops \in [Objects -> 0 .. 1]
      <3>1. 0 \in 0 .. 1
        OBVIOUS
      <3> QED
        BY <3>1 DEF Init
    <2>4. created \in 0 .. MaxObjects /\ registered \in 0 .. Cardinality(Threads)
      BY Constants DEF Init
    <2>5. prev \in [Snaps -> Snaps \cup {0}] /\ alloc \subseteq Snaps
      BY DEF Init
    <2>6. /\ \A s \in Snaps \cup {0} : DOMAIN data[s] \subseteq Ids
          /\ DOMAIN data = Snaps \cup {0} /\ data[0] = Empty
      BY <1>1
    <2> QED
      BY <1>1, <2>2, <2>3, <2>4, <2>5, <2>6 DEF Init, Types, TypeOK
  <1>6. SnapshotsAccounted
    <2>1. \A x : x \notin {loc[t].new : t \in InFlight}
      BY <1>3
    <2>2. alloc = Chain(root) \cup {loc[t].new : t \in InFlight}
      BY <1>2, <2>1 DEF Init
    <2>3. \A t \in Threads : pc[t] \notin {"search", "cas"}
      BY <1>1
    <2> QED
      BY <1>3, <2>2, <2>3 DEF SnapshotsAccounted
  <1>7. Ordered
    BY <1>2 DEF Ordered
  <1>8. Copies
    BY <1>3 DEF Copies
  <1>9. Owned
    BY <1>1, <1>3, Constants DEF Owned, Init, Objects
  <1>10. Registering
    BY <1>1, <1>4, FS_EmptySet, Constants DEF Registering, Init
  <1>11. Budget
    <2>1. ToCome \subseteq Threads \X (0 .. Cardinality(Ids) - 1)
      BY DEF ToCome
    <2>2. Cardinality(ToCome) <= Cardinality(Ids) * Cardinality(Threads)
      BY <2>1, AllToCome, FS_Subset
    <2> DEFINE most == Cardinality(Ids) * Cardinality(Threads)
    <2>3. most \in Int /\ most <= MaxObjects /\ Cardinality(ToCome) <= most
      BY <2>2, Constants, IVecAssumption
    <2> HIDE DEF most
    <2> QED
      BY <2>3, ToComeFinite, Constants DEF Budget, Init
  <1> QED
    BY <1>5, <1>6, <1>7, <1>8, <1>9, <1>10, <1>11 DEF IInv

LEMMA Stutter ==
  ASSUME IInv, UNCHANGED vars
  PROVE  IInv'
  <1>1. /\ root' = root /\ data' = data /\ prev' = prev /\ alloc' = alloc
        /\ disposable' = disposable /\ needDisposing' = needDisposing
        /\ registered' = registered /\ created' = created /\ drops' = drops
        /\ pc' = pc /\ loc' = loc
    BY DEF vars, heap, frame, objects
  <1>2. InFlight' = InFlight /\ Marking' = Marking /\ Chain(root)' = Chain(root)
    BY <1>1 DEF InFlight, Marking, Chain
  <1>3. ToCome' = ToCome
    BY <1>1 DEF ToCome, Least, Size
  <1>4. Types' /\ SnapshotsAccounted' /\ Ordered'
    BY <1>1, <1>2 DEF IInv, Types, TypeOK, SnapshotsAccounted, Ordered
  <1>5. Copies' /\ Owned'
    BY <1>1, <1>2 DEF IInv, Copies, Owned
  <1>6. Registering' /\ Budget'
    BY <1>1, <1>2, <1>3 DEF IInv, Registering, Budget
  <1> QED
    BY <1>4, <1>5, <1>6 DEF IInv

LEMMA Inductive ==
  ASSUME IInv, [Next]_vars
  PROVE  IInv'
  <1>1. ASSUME NEW t \in Threads, Call(t) \/ GetOrInsert(t)
        PROVE  IInv'
    BY <1>1, CallStep, FindStep, FindNoneStep, BuildStep, SwitchStep,
       CheckNeedStep, MarkStep, RegisterStep, ReturnStep DEF GetOrInsert
  <1> QED
    BY <1>1, ClearStep, DisposeStep, DropStep, Stutter DEF Next

\* The inductive invariant holds of every behaviour of the vector.
THEOREM Invariance == Spec => []IInv
  <1>1. Init => IInv
    BY Initial
  <1>2. IInv /\ [Next]_vars => IInv'
    BY Inductive
  <1> QED
    BY <1>1, <1>2, PTL DEF Spec

\* Roots, snapshots, counters and objects are of their types: nothing is dropped twice, the
\* vector is registered no more often than there are threads, and no thread makes more
\* objects than the bound leaves room for, though no guard stops it.
THEOREM TypeCorrect == Spec => []TypeOK
  <1>1. IInv => TypeOK
    BY DEF IInv, Types
  <1> QED
    BY <1>1, Invariance, PTL

\* No snapshot leaks, none is freed twice, and no copy is made of a freed one.
THEOREM NoSnapshotLost == Spec => []SnapshotsAccounted
  <1>1. IInv => SnapshotsAccounted
    BY DEF IInv
  <1> QED
    BY <1>1, Invariance, PTL

\* The cardinality of a set of at most one element.
LEMMA AtMostOne ==
  ASSUME NEW S, \A x, y \in S : x = y
  PROVE  Cardinality(S) = IF S = {} THEN 0 ELSE 1
  <1>1. CASE S = {}
    BY <1>1, FS_EmptySet
  <1>2. CASE S # {}
    <2>1. PICK x \in S : TRUE
      BY <1>2
    <2>2. S = {x}
      BY <2>1
    <2> QED
      BY <1>2, <2>2, FS_Singleton
  <1> QED
    BY <1>1, <1>2

\* Every object init_data made is in one place: in the root, in a private copy, or dropped.
THEOREM ObjectsDroppedOnce == Spec => []DroppedOnce
  <1>1. ASSUME IInv, NEW o \in 1 .. created
        PROVE  drops[o] + Cardinality({i \in DOMAIN data[root] : data[root][i] = o})
                 + Cardinality({t \in InFlight : loc[t].obj = o}) = 1
    <2> DEFINE held == {i \in DOMAIN data[root] : data[root][i] = o}
               made == {t \in InFlight : loc[t].obj = o}
    <2>1. drops[o] \in 0 .. 1
      BY <1>1, Constants DEF IInv, Types, TypeOK, Objects
    <2>2. Cardinality(held) = IF held = {} THEN 0 ELSE 1
      <3>1. \A i, j \in held : i = j
        BY <1>1 DEF IInv, Owned
      <3> QED
        BY <3>1, AtMostOne
    <2>3. Cardinality(made) = IF made = {} THEN 0 ELSE 1
      <3>1. \A s, t \in made : s = t
        BY <1>1 DEF IInv, Owned
      <3> QED
        BY <3>1, AtMostOne
    <2>4. held # {} => drops[o] = 0 /\ made = {}
      BY <1>1 DEF IInv, Owned
    <2>5. made # {} => drops[o] = 0
      BY <1>1 DEF IInv, Owned
    <2>6. drops[o] = 0 => held # {} \/ made # {}
      BY <1>1 DEF IInv, Owned
    <2> HIDE DEF held, made
    <2>7. drops[o] + Cardinality(held) + Cardinality(made) = 1
      BY <2>1, <2>2, <2>3, <2>4, <2>5, <2>6
    <2> QED
      BY <2>7 DEF held, made
  <1>2. IInv => DroppedOnce
    BY <1>1 DEF DroppedOnce
  <1> QED
    BY <1>2, Invariance, PTL

\* With no call in flight, a disposable vector with snapshots to free is registered.
THEOREM StaleRegistered == Spec => []StaleIsRegistered
  <1>1. ASSUME IInv, Idle PROVE \A t \in Threads : pc[t] \notin {"need", "mark", "register"}
    BY <1>1 DEF Idle
  <1>2. IInv => StaleIsRegistered
    BY <1>1 DEF IInv, Registering, StaleIsRegistered
  <1> QED
    BY <1>2, Invariance, PTL

\* A step of a thread moves no other.
LEMMA OnlyItself ==
  ASSUME IInv, NEW u \in Threads, Call(u) \/ GetOrInsert(u), NEW t \in Threads, t # u
  PROVE  pc'[t] = pc[t]
  <1>1. pc \in [Threads -> Places]
    BY DEF IInv, Types
  <1>2. \A from, to : Step(u, from, to) => pc'[t] = pc[t]
    BY <1>1 DEF Step
  <1> QED
    BY <1>2 DEF Call, GetOrInsert, Find, FindNone, Build, Switch, CheckNeed, Mark,
                Register, Return

\* Who goes from the switch to the search has lost.
LEMMA OnlyLosersSearch ==
  ASSUME IInv, [Next]_vars, NEW t \in Threads, pc[t] = "cas", pc'[t] = "search"
  PROVE  /\ root # loc[t].rootPtr /\ root' = root
         /\ Set(t, [loc[t] EXCEPT !.rootPtr = root, !.new = 0, !.obj = 0])
  <1>1. pc \in [Threads -> Places]
    BY DEF IInv, Types
  <1>2. PICK u \in Threads : Call(u) \/ GetOrInsert(u)
    BY DEF Next, vars, Clear, Dispose, Drop
  <1>3. u = t
    BY <1>2, OnlyItself
  <1>4. \A from, to : Step(t, from, to) => from = "cas" /\ to = "search"
    BY <1>1 DEF Step
  <1>5. Switch(t)
    <2>1. \A to : /\ ~Step(t, "idle", to) /\ ~Step(t, "search", to)
                 /\ ~Step(t, "need", to) /\ ~Step(t, "mark", to) /\ ~Step(t, "register", to)
                 /\ ~Step(t, "return", to)
      BY <1>4
    <2>2. /\ ~Call(t) /\ ~Find(t) /\ ~FindNone(t) /\ ~Build(t)
          /\ ~CheckNeed(t) /\ ~Mark(t) /\ ~Register(t) /\ ~Return(t)
      BY <2>1 DEF Call, Find, FindNone, Build, CheckNeed, Mark, Register, Return
    <2> QED
      BY <1>2, <1>3, <2>2 DEF GetOrInsert
  <1>6. ~Step(t, "cas", IF disposable THEN "need" ELSE "return")
    BY <1>4
  <1> QED
    BY <1>5, <1>6 DEF Switch

\* The loser of a switch searches a snapshot with more ids, so it loses no more often than
\* there are ids.
THEOREM LossIsProgress == Spec => LossMeansProgress
  <1>1. ASSUME IInv, [Next]_vars, NEW t \in Threads, pc[t] = "cas", pc'[t] = "search"
        PROVE  /\ DOMAIN data[loc[t].rootPtr] \subseteq DOMAIN data[loc'[t].rootPtr]
               /\ DOMAIN data[loc'[t].rootPtr] # DOMAIN data[loc[t].rootPtr]
    <2>1. /\ root # loc[t].rootPtr
          /\ Set(t, [loc[t] EXCEPT !.rootPtr = root, !.new = 0, !.obj = 0])
      BY <1>1, OnlyLosersSearch
    <2>2. t \in InFlight
      BY <1>1 DEF InFlight
    <2>3. loc[t] \in Locals /\ loc[t].rootPtr \in Chain(root) \cup {0}
      BY <1>1, <2>2, Private
    <2>4. loc'[t].rootPtr = root
      BY <1>1, <2>1, <2>3 DEF Set, Locals, IInv, Types
    <2> QED
      BY <1>1, <2>1, <2>3, <2>4, RootIsLargest
  <1>2. IInv /\ [Next]_vars =>
          [\A t \in Threads : pc[t] = "cas" /\ pc'[t] = "search" =>
             LET ids(s) == DOMAIN data[s]
             IN ids(loc[t].rootPtr) \subseteq ids(loc'[t].rootPtr)
                /\ ids(loc'[t].rootPtr) # ids(loc[t].rootPtr)]_vars
    BY <1>1
  <1> QED
    BY <1>2, Invariance, PTL DEF Spec, LossMeansProgress

\* Only a switch that is won, and a drop, change what the root holds.
LEMMA RootKept ==
  ASSUME IInv, [Next]_vars, ~Drop, NEW i \in DOMAIN data[root]
  PROVE  i \in DOMAIN data'[root'] /\ data'[root'][i] = data[root][i]
  <1>1. /\ DOMAIN data = Snaps \cup {0} /\ root \in Snaps \cup {0}
        /\ root \in Chain(root) \cup {0}
    BY Published DEF IInv, Types
  <1>2. ASSUME root' = root, data'[root] = data[root]
        PROVE  i \in DOMAIN data'[root'] /\ data'[root'][i] = data[root][i]
    BY <1>2
  <1>3. ASSUME root' = root, data' = data
        PROVE  i \in DOMAIN data'[root'] /\ data'[root'][i] = data[root][i]
    BY <1>3
  <1>4. ASSUME NEW t \in Threads, Build(t)
        PROVE  i \in DOMAIN data'[root'] /\ data'[root'][i] = data[root][i]
    <2> DEFINE s == Min(Snaps \ alloc)
    <2>1. /\ root' = root
          /\ \E copy : data' = [data EXCEPT ![s] = copy]
      BY <1>4 DEF Build
    <2>2. s \notin alloc /\ s \in Snaps
      BY <1>4, RoomForCopy DEF Build, Step
    <2> HIDE DEF s
    <2>3. root # s
      BY <1>1, <2>2, Published
    <2> QED
      BY <1>1, <1>2, <2>1, <2>3
  <1>5. ASSUME NEW t \in Threads, Switch(t)
        PROVE  i \in DOMAIN data'[root'] /\ data'[root'][i] = data[root][i]
    <2>1. t \in InFlight
      BY <1>5 DEF Switch, Step, InFlight
    <2>2. loc[t].new \in Snaps /\ loc[t].new \notin Chain(root)
      BY <2>1, Private
    <2>3. CASE root = loc[t].rootPtr /\ root' = loc[t].new /\ data' = data
      BY <2>1, <2>3 DEF IInv, Copies
    <2>4. CASE root' = root /\ data' = [data EXCEPT ![loc[t].new] = Empty]
      <3>1. root # loc[t].new
        BY <1>1, <2>2, Constants
      <3> QED
        BY <1>1, <1>2, <2>4, <3>1
    <2> QED
      BY <1>5, <2>3, <2>4 DEF Switch
  <1>6. ASSUME ClearPrev, root' = root
        PROVE  i \in DOMAIN data'[root'] /\ data'[root'][i] = data[root][i]
    <2>1. data'[root] = data[root]
      BY <1>1, <1>6 DEF ClearPrev
    <2> QED
      BY <1>2, <1>6, <2>1
  <1>7. ASSUME NEW t \in Threads, Call(t) \/ GetOrInsert(t)
        PROVE  i \in DOMAIN data'[root'] /\ data'[root'][i] = data[root][i]
    BY <1>3, <1>4, <1>5, <1>7 DEF Call, GetOrInsert, Find, FindNone, CheckNeed,
                                  Mark, Register, Return, heap
  <1>8. CASE UNCHANGED vars
    BY <1>3, <1>8 DEF vars, heap
  <1> QED
    BY <1>6, <1>7, <1>8 DEF Next, Clear, Dispose

\* An item inserted stays the item of its id until the vector is dropped.
THEOREM InsertedStay == Spec => InsertedForever
  <1>1. IInv /\ [Next]_vars =>
          [Drop \/ \A i \in DOMAIN data[root] :
             i \in DOMAIN data'[root'] /\ data'[root'][i] = data[root][i]]_vars
    BY RootKept
  <1> QED
    BY <1>1, Invariance, PTL DEF Spec, InsertedForever

-----------------------------------------------------------------------------
(* What a call returns *)

Returning == {"need", "mark", "register", "return"}

\* The published snapshots have the items of the root.
Agree == \A s \in Chain(root) : \A i \in DOMAIN data[s] : data[root][i] = data[s][i]

ReturnInv == IInv /\ Agree /\ ReturnsItem

\* l are the locals of a call about to return, r the root and d the items of the snapshots.
Result(chain, d, r, l) ==
  /\ l.snap \in chain
  /\ l.elem \in DOMAIN d[l.snap] \cap DOMAIN d[r]
  /\ d[r][l.elem] = d[l.snap][l.elem]
  /\ l.elem # l.id =>
       /\ l.snap = l.new
       /\ l.id \in DOMAIN d[l.new] /\ l.id < l.elem
       /\ \A i \in DOMAIN d[l.new] : i <= l.elem

\* What a call does when it starts.
LEMMA CallIs ==
  ASSUME NEW t \in Threads, Call(t)
  PROVE  Step(t, "idle", "search") /\ UNCHANGED heap /\ \E l : Set(t, l)
  <1>1. PICK id \in Ids, insert \in BOOLEAN :
          /\ Step(t, "idle", "search")
          /\ Set(t, [NoLocals EXCEPT !.id = id, !.insert = insert, !.rootPtr = root])
          /\ UNCHANGED <<heap, frame, objects>>
    BY Zenon DEF Call
  <1> DEFINE l == [NoLocals EXCEPT !.id = id, !.insert = insert, !.rootPtr = root]
  <1>2. Set(t, l)
    BY <1>1
  <1> HIDE DEF l
  <1> QED
    BY <1>1, <1>2

\* A step of a thread leaves what is published as it is, and a switch that is won puts one
\* snapshot in front of it, with its items.
LEMMA ChainKept ==
  ASSUME IInv, NEW t \in Threads, Call(t) \/ GetOrInsert(t)
  PROVE  /\ \A s \in Chain(root) : data'[s] = data[s]
         /\ \/ Chain(root)' = Chain(root) /\ root' = root
            \/ /\ t \in InFlight /\ root = loc[t].rootPtr /\ root' = loc[t].new
               /\ data' = data /\ Chain(root)' = Chain(root) \cup {root'}
  <1>1. CASE UNCHANGED heap
    <2>1. root' = root /\ data' = data /\ prev' = prev
      BY <1>1 DEF heap
    <2>2. Chain(root)' = Chain(root)
      BY <2>1, ChainIs
    <2> QED
      BY <2>1, <2>2
  <1>2. CASE Build(t)
    <2> DEFINE s == Min(Snaps \ alloc)
               r == loc[t].rootPtr
    <2>1. /\ root' = root /\ prev' = [prev EXCEPT ![s] = r] /\ pc[t] = "search"
          /\ \E copy : data' = [data EXCEPT ![s] = copy]
      BY <1>2 DEF Build, Step
    <2>2. s \in Snaps /\ s \notin alloc
      BY <1>2, RoomForCopy DEF Build, Step
    <2>3. r \in Snaps \cup {0}
      BY <2>1, Searching
    <2>4. prev \in [Snaps -> Snaps \cup {0}] /\ DOMAIN data = Snaps \cup {0}
      BY DEF IInv, Types, TypeOK
    <2> HIDE DEF s, r
    <2>5. \A x \in Chain(root) : x # s /\ x \in Snaps
      BY <2>2, Published
    <2>6. \A x \in Chain(root) : data'[x] = data[x]
      BY <2>1, <2>4, <2>5
    <2>7. \A c \in Snaps : prev'[c] \in Snaps \cup {0}
      BY <2>1, <2>2, <2>3, <2>4
    <2>8. \A c \in Behind(prev, root) : prev'[c] = prev[c]
      BY <2>1, <2>4, <2>5, Published
    <2>9. Behind(prev', root) = Behind(prev, root)
      BY <2>7, <2>8, Published, BehindKept
    <2> QED
      BY <2>1, <2>6, <2>9, ChainIs
  <1>3. CASE Switch(t)
    <2> DEFINE s == loc[t].new
    <2>1. t \in InFlight /\ prev' = prev
      BY <1>3 DEF Switch, Step, InFlight
    <2>2. s \in Snaps /\ s \notin Chain(root)
      BY <2>1, Private
    <2>3. CASE root = loc[t].rootPtr /\ root' = s /\ data' = data
      <3>1. prev[s] = root
        BY <2>1, <2>3 DEF IInv, Copies
      <3>2. Behind(prev, s) = {s} \cup Behind(prev, prev[s])
        BY <2>2, Published, BehindNew
      <3>3. Chain(root)' = Chain(root) \cup {root'}
        BY <2>1, <2>3, <3>1, <3>2, ChainIs
      <3> QED
        BY <2>1, <2>3, <3>3
    <2>4. CASE root' = root /\ data' = [data EXCEPT ![s] = Empty]
      <3>1. Chain(root)' = Chain(root)
        BY <2>1, <2>4, ChainIs
      <3>2. DOMAIN data = Snaps \cup {0}
        BY DEF IInv, Types
      <3>3. \A x \in Chain(root) : data'[x] = data[x]
        BY <2>2, <2>4, <3>2, Published
      <3> QED
        BY <2>4, <3>1, <3>3
    <2> QED
      BY <1>3, <2>3, <2>4 DEF Switch
  <1>4. CASE Call(t)
    BY <1>1, <1>4, CallIs
  <1>5. CASE Find(t) \/ FindNone(t) \/ CheckNeed(t) \/ Mark(t) \/ Register(t) \/ Return(t)
    BY <1>1, <1>5 DEF Find, FindNone, CheckNeed, Mark, Register, Return
  <1> QED
    BY <1>2, <1>3, <1>4, <1>5 DEF GetOrInsert

\* After clearing, the root alone is published.
LEMMA ChainCleared ==
  ASSUME IInv, ClearPrev, root' = root
  PROVE  Chain(root)' \subseteq {root}
  <1>1. /\ prev' = [s \in Snaps |->
             IF s = root \/ s \in Chain(root) \ {root} THEN 0 ELSE prev[s]]
        /\ root \in Snaps \cup {0}
    BY Published DEF ClearPrev
  <1>2. CASE root = 0
    BY <1>2, ChainIs, BehindStatic
  <1>3. CASE root # 0
    <2> DEFINE C == {root}
    <2>1. C \in SUBSET Snaps /\ root \in C \cup {0} /\ \A c \in C : prev'[c] \in C \cup {0}
      BY <1>1, <1>3
    <2> HIDE DEF C
    <2>2. Behind(prev', root) \subseteq C
      BY <2>1, BehindLeast
    <2> QED
      BY <2>2, ChainIs DEF C
  <1> QED
    BY <1>2, <1>3

\* A step of a thread is none of the owner of the vector.
LEMMA NoDrop ==
  ASSUME IInv, NEW t \in Threads, Call(t) \/ GetOrInsert(t)
  PROVE  ~Drop
  <1>1. pc \in [Threads -> Places]
    BY DEF IInv, Types
  <1>2. \A from, to : Step(t, from, to) /\ from # to => pc' # pc
    BY <1>1 DEF Step
  <1>3. CASE Call(t)
    <2>1. Step(t, "idle", "search")
      BY <1>3, CallIs
    <2> QED
      BY <1>2, <2>1 DEF Drop
  <1>4. CASE Find(t) \/ FindNone(t) \/ Build(t) \/ CheckNeed(t) \/ Mark(t) \/ Register(t)
             \/ Return(t)
    <2>1. pc[t] # "idle"
      BY <1>4 DEF Find, FindNone, Build, CheckNeed, Mark, Register, Return, Step
    <2> QED
      BY <2>1 DEF Drop, Idle
  <1>5. CASE Switch(t)
    <2>1. pc[t] # "idle"
      BY <1>5 DEF Switch, Step
    <2> QED
      BY <2>1 DEF Drop, Idle
  <1> QED
    BY <1>3, <1>4, <1>5 DEF GetOrInsert

\* Published snapshots go on to agree.
LEMMA AgreeKept ==
  ASSUME IInv, Agree, [Next]_vars
  PROVE  Agree'
  <1>1. ASSUME NEW t \in Threads, Call(t) \/ GetOrInsert(t)
        PROVE  Agree'
    <2>1. ~Drop
      BY <1>1, NoDrop
    <2>2. ASSUME NEW s \in Chain(root), NEW i \in DOMAIN data'[s]
          PROVE  data'[root'][i] = data'[s][i]
      <3>1. data'[s] = data[s] /\ i \in DOMAIN data[s] /\ data[root][i] = data[s][i]
        BY <1>1, <2>2, ChainKept DEF Agree
      <3>2. i \in DOMAIN data[root]
        BY <3>1, RootIsLargest
      <3> QED
        BY <2>1, <3>1, <3>2, RootKept
    <2>3. \A s \in Chain(root)' : s \in Chain(root) \/ s = root'
      BY <1>1, ChainKept
    <2> QED
      BY <2>2, <2>3 DEF Agree
  <1>2. CASE Clear \/ Dispose
    BY <1>2, ChainCleared DEF Clear, Dispose, Agree
  <1>3. CASE Drop
    <2>1. Chain(root)' = {}
      BY <1>3, ChainIs, BehindStatic DEF Drop
    <2> QED
      BY <2>1 DEF Agree
  <1>4. CASE UNCHANGED vars
    BY <1>4, ChainIs DEF vars, heap, Agree
  <1> QED
    BY <1>1, <1>2, <1>3, <1>4 DEF Next

\* A result stays one while others switch the root.
LEMMA ResultKept ==
  ASSUME IInv, NEW t \in Threads, Call(t) \/ GetOrInsert(t), NEW l,
         Result(Chain(root), data, root, l)
  PROVE  Result(Chain(root)', data', root', l)
  <1>2. ~Drop /\ [Next]_vars
    BY NoDrop DEF Next
  <1>3. l.snap \in Chain(root)' /\ data'[l.snap] = data[l.snap]
    BY ChainKept DEF Result
  <1>4. l.elem \in DOMAIN data'[root'] /\ data'[root'][l.elem] = data[root][l.elem]
    BY <1>2, RootKept DEF Result
  <1> QED
    BY <1>3, <1>4 DEF Result

\* A step of a thread changes no other's locals.
LEMMA OthersKeep ==
  ASSUME IInv, NEW t \in Threads, Call(t) \/ GetOrInsert(t), NEW u \in Threads, u # t
  PROVE  pc'[u] = pc[u] /\ loc'[u] = loc[u]
  <1>1. loc \in [Threads -> Locals]
    BY DEF IInv, Types
  <1>2. \A l : Set(t, l) => loc'[u] = loc[u]
    BY <1>1 DEF Set
  <1>3. loc'[u] = loc[u]
    <2>1. CASE Call(t)
      BY <1>2, <2>1, CallIs
    <2>2. CASE Find(t) \/ FindNone(t) \/ Return(t)
      BY <1>2, <2>2 DEF Find, FindNone, Return
    <2>3. CASE Build(t)
      BY <1>2, <2>3 DEF Build
    <2>4. CASE Switch(t)
      BY <1>2, <2>4 DEF Switch
    <2>5. CASE CheckNeed(t) \/ Mark(t) \/ Register(t)
      BY <2>5 DEF CheckNeed, Mark, Register
    <2> QED
      BY <2>1, <2>2, <2>3, <2>4, <2>5 DEF GetOrInsert
  <1> QED
    BY <1>3, OnlyItself

\* The result of an id that was found, in whatever snapshot the call searched.
LEMMA FoundResult ==
  ASSUME IInv, Agree, NEW t \in Threads, Find(t)
  PROVE  Result(Chain(root)', data', root', loc'[t])
  <1> DEFINE r == loc[t].rootPtr
             id == loc[t].id
  <1>1. /\ pc[t] = "search" /\ id \in DOMAIN data[r]
        /\ loc' = [loc EXCEPT ![t] = [loc[t] EXCEPT !.snap = r, !.elem = id]]
        /\ UNCHANGED heap
    BY DEF Find, Step, Set
  <1>2. loc[t] \in Locals /\ r \in Chain(root) \cup {0} /\ r \in Snaps \cup {0}
    BY <1>1, Searching
  <1>3. /\ loc'[t].snap = r /\ loc'[t].elem = id /\ loc'[t].id = id
    BY <1>1, <1>2 DEF IInv, Types, Locals
  <1>4. r \in Chain(root)
    <2>1. DOMAIN data[0] = {}
      BY DEF IInv, Types, Empty
    <2> QED
      BY <1>1, <1>2, <2>1
  <1>5. id \in DOMAIN data[root] /\ data[root][id] = data[r][id]
    BY <1>1, <1>4, RootIsLargest DEF Agree
  <1>6. root' = root /\ data' = data /\ Chain(root)' = Chain(root)
    BY <1>1, ChainIs DEF heap
  <1> QED
    BY <1>1, <1>3, <1>4, <1>5, <1>6 DEF Result

\* The result of a switch that was won is the greatest item of the new root.
LEMMA WonResult ==
  ASSUME IInv, NEW t \in Threads, Switch(t), pc'[t] \in Returning
  PROVE  Result(Chain(root)', data', root', loc'[t])
  <1> DEFINE s == loc[t].new
             id == loc[t].id
             D == DOMAIN data[s]
  <1>1. t \in InFlight /\ pc \in [Threads -> Places] /\ loc \in [Threads -> Locals]
    BY DEF Switch, Step, InFlight, IInv, Types
  <1>2. /\ root' = s /\ data' = data /\ prev' = prev
        /\ loc' = [loc EXCEPT ![t] = [loc[t] EXCEPT !.snap = s, !.elem = Max(D)]]
    <2>1. ~Step(t, "cas", "search")
      BY <1>1 DEF Step, Returning
    <2> QED
      BY <2>1 DEF Switch, Set, Last
  <1>3. s \in Snaps /\ loc[t] \in Locals /\ id \in Ids
    BY <1>1, Private
  <1>4. id \in D /\ D \subseteq Ids
    BY <1>1, <1>3 DEF IInv, Copies, Types, TypeOK
  <1>5. Max(D) \in D /\ \A i \in D : i <= Max(D)
    <2>1. D \subseteq Nat /\ D # {} /\ IsFiniteSet(D) /\ Ids \subseteq Nat
      BY <1>4, IVecAssumption, FS_Subset
    <2> HIDE DEF D
    <2> QED
      BY <2>1, GreatestOf
  <1>6. s \in Chain(root)'
    <2>1. Behind(prev, s) = {s} \cup Behind(prev, prev[s])
      BY <1>3, Published, BehindNew
    <2> QED
      BY <1>2, <2>1, ChainIs
  <1>7. /\ loc'[t].snap = s /\ loc'[t].elem = Max(D) /\ loc'[t].id = id /\ loc'[t].new = s
    BY <1>1, <1>2, <1>3 DEF Locals
  <1>8. Max(D) # id => id < Max(D)
    <2>1. id \in Nat /\ Max(D) \in Nat /\ id <= Max(D)
      BY <1>4, <1>5, IVecAssumption
    <2> HIDE DEF id, D
    <2> QED
      BY <2>1
  <1> HIDE DEF s, id
  <1> QED
    BY <1>2, <1>4, <1>5, <1>6, <1>7, <1>8 DEF Result

\* Every step leaves the calls about to return with a result.
LEMMA ReturnsKept ==
  ASSUME ReturnInv, [Next]_vars
  PROVE  ReturnsItem'
  <1>1. /\ IInv /\ Agree
        /\ \A t \in Threads : pc[t] \in Returning => Result(Chain(root), data, root, loc[t])
    BY DEF ReturnInv, ReturnsItem, Result, Returning
  <1>2. pc \in [Threads -> Places] /\ loc \in [Threads -> Locals]
    BY <1>1 DEF IInv, Types
  <1> DEFINE Kept(u) == pc'[u] \in Returning => Result(Chain(root)', data', root', loc'[u])
  <1>3. ASSUME NEW t \in Threads, Call(t) \/ GetOrInsert(t), NEW u \in Threads
        PROVE  Kept(u)
    <2>1. ASSUME pc[u] \in Returning, loc'[u] = loc[u]
          PROVE  Kept(u)
      <3>1. Result(Chain(root), data, root, loc[u])
        BY <1>1, <2>1
      <3> QED
        BY <1>1, <1>3, <2>1, <3>1, ResultKept
    <2>2. CASE u # t
      BY <1>1, <1>3, <2>1, <2>2, OthersKeep
    <2>3. CASE u = t /\ Find(t)
      BY <1>1, <2>3, FoundResult
    <2>4. CASE u = t /\ Switch(t)
      BY <1>1, <2>4, WonResult
    <2>5. CASE u = t /\ (CheckNeed(t) \/ Mark(t) \/ Register(t))
      BY <2>1, <2>5 DEF CheckNeed, Mark, Register, Step, Returning
    <2>6. CASE u = t /\ (Call(t) \/ FindNone(t) \/ Build(t) \/ Return(t))
      <3>1. \E from \in Places, to \in {"idle", "search", "cas"} : Step(t, from, to)
        <4>1. CASE Call(t)
          BY <4>1, CallIs DEF Places
        <4>2. CASE FindNone(t) \/ Return(t)
          BY <4>2 DEF FindNone, Return, Places
        <4>3. CASE Build(t)
          BY <4>3 DEF Build, Places
        <4> QED
          BY <2>6, <4>1, <4>2, <4>3
      <3>2. pc'[t] \in {"idle", "search", "cas"}
        BY <1>2, <1>3, <3>1 DEF Step
      <3> QED
        BY <2>6, <3>2 DEF Returning
    <2> QED
      BY <1>3, <2>2, <2>3, <2>4, <2>5, <2>6 DEF GetOrInsert
  <1>4. ASSUME Clear \/ Dispose \/ Drop, NEW u \in Threads
        PROVE  Kept(u)
    BY <1>4 DEF Clear, Dispose, Drop, Idle, Returning
  <1>5. ASSUME UNCHANGED vars, NEW u \in Threads
        PROVE  Kept(u)
    <2>1. Chain(root)' = Chain(root)
      BY <1>5, ChainIs DEF vars, heap
    <2> QED
      BY <1>1, <1>5, <2>1 DEF vars, heap
  <1>6. \A u \in Threads : Kept(u)
    BY <1>3, <1>4, <1>5 DEF Next
  <1> QED
    BY <1>6 DEF ReturnsItem, Result, Returning

\* A call returns a reference into a snapshot that is not freed, to the item the root has
\* under its id: the one asked for, or the greatest of the snapshot the call made.
THEOREM ReturnsAnItem == Spec => []ReturnsItem
  <1>1. Init => ReturnInv
    <2>1. ASSUME Init PROVE Agree /\ ReturnsItem
      <3>1. Chain(root) = {} /\ \A t \in Threads : pc[t] = "idle"
        BY <2>1, ChainIs, BehindStatic DEF Init
      <3> QED
        BY <3>1 DEF Agree, ReturnsItem
    <2> QED
      BY <2>1, Initial DEF ReturnInv
  <1>2. ReturnInv /\ [Next]_vars => ReturnInv'
    BY Inductive, AgreeKept, ReturnsKept DEF ReturnInv
  <1>3. ReturnInv => ReturnsItem
    BY DEF ReturnInv
  <1> QED
    BY <1>1, <1>2, <1>3, PTL DEF Spec
=============================================================================
