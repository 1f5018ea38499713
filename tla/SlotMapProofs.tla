---------------------------- MODULE SlotMapProofs ----------------------------
(***************************************************************************)
(* Proofs about SlotMap, each invariant on the one before.  IInv: every    *)
(* position of a vector that is claimed is paid for by a push of its own,  *)
(* which bounds the counters.  KeyInvariant: every step takes a key from   *)
(* one place to another or leaves it where it is.  SlotInvariant: the slot *)
(* of a key that waits for reuse is disabled, which holds as long as the   *)
(* walks to the slots are exact: within the root chunk (RootInvariant), or *)
(* for one caller, whose walk no other push disturbs (OneInvariant).       *)
(***************************************************************************)
EXTENDS SlotMap, TLAPS, FiniteSetTheorems

-----------------------------------------------------------------------------
(* The inductive invariant *)

\* The threads whose next access is one of S.
At(S) == {t \in Threads : pc[t] \in S}

\* The types of the locals of a call.
Locals ==
  [loadKey : Nat, storeKey : Nat, lo : Nat, hi : Nat, i : Nat, miss : Nat,
   key : Keys, item : Items \cup {0}, at : Nat, found : BOOLEAN]

\* What a call at p has found out, when idx is n.  The vector it swaps in is the one
\* behind that it loaded from, so idx grows by each swap.
Fits(p, l, n) ==
  /\ p \in PushPC => l.item \in Items
  /\ p \in {"store", "max", "drained", "refill", "swap", "lo", "hi", "peek"} => l.key = 0
  /\ p \in {"take", "advance", "reach", "reuse"} \cup DeletePC => l.key # 0
  /\ p = "store" => l.loadKey <= n
  /\ p \in {"max", "drained", "refill", "swap"} =>
       l.loadKey < l.storeKey /\ l.storeKey <= n + 1
  /\ p \in {"peek", "take"} => l.hi <= MaxItems
  /\ p = "take" => l.i < MaxItems

\* Every call has found out what its place says.
Calls ==
  /\ loc \in [Threads -> Locals]
  /\ \A t \in Threads : Fits(pc[t], loc[t], idx)

\* Pushes that may still claim a slot, and pushes between claim and announcement.
Seeking == At(PushPC \ {"fill", "len", "announce"})
Filling == At({"fill", "len", "announce"})
\* Calls that may still put a key back, and deletes between claim and announcement.
Busy == At((PushPC \cup DeletePC) \ {"dwrite", "dannounce", "count"})
Appending(v) == {t \in At({"dwrite", "dannounce"}) : StoreVec(t) = v}

\* Every slot and every cell claimed goes back to a push of its own.
Budget ==
  /\ slotsSize + Cardinality(Filling) = slotsClaimed
  /\ slotsClaimed + Cardinality(Seeking) <= pushed
  /\ claimed[0] + claimed[1] + Cardinality(held) + Cardinality(Busy) <= pushed
  /\ \A v \in Vecs : size[v] + Cardinality(Appending(v)) = claimed[v]

\* The inductive invariant of the counters.
IInv == TypeOK /\ Calls /\ Budget

-----------------------------------------------------------------------------
(* Locals *)

\* The places of a call.
PCs == {"idle"} \cup PushPC \cup DeletePC

\* The constants are numbers, and there is a key.
LEMMA Consts ==
  /\ IsFiniteSet(Threads)
  /\ K \in Nat /\ K > 0 /\ KS \in Nat /\ KS > 0 /\ KeySpace \in Nat /\ KeySpace > 0
  /\ MaxItems \in Nat /\ MaxSwaps \in Nat
  /\ 0 \in Keys
  BY SlotMapAssumption DEF SlotMapAssumption, Keys

\* A call starts without locals.
LEMMA NoLocalsType ==
  /\ NoLocals \in Locals
  /\ NoLocals.key = 0 /\ NoLocals.found = FALSE /\ NoLocals.i = 0 /\ NoLocals.hi = 0
  BY Consts DEF NoLocals, Locals

\* A push that has its item.
Starting(x) == [NoLocals EXCEPT !.item = x]
\* What a push starts with, in its types.
LEMMA SetItem ==
  ASSUME NEW x \in Items
  PROVE  LET l == Starting(x)
         IN  l \in Locals /\ l.item = x /\ l.key = 0 /\ l.found = FALSE
  BY Consts DEF Starting, NoLocals, Locals

\* The vector it loads from is known.
Loading(k, x) == [NoLocals EXCEPT !.loadKey = k, !.item = x]
\* The rest of its locals starts anew.
LEMMA SetLoad ==
  ASSUME NEW x \in Items \cup {0}, NEW k \in Nat
  PROVE  LET l == Loading(k, x)
         IN  /\ l \in Locals /\ l.item = x /\ l.key = 0 /\ l.found = FALSE
             /\ l.loadKey = k
  BY Consts DEF Loading, NoLocals, Locals

\* Its key is known.
Carrying(k, x) == [NoLocals EXCEPT !.key = k, !.item = x]
\* The rest of its locals starts anew.
LEMMA SetKey ==
  ASSUME NEW x \in Items \cup {0}, NEW k \in Keys
  PROVE  LET l == Carrying(k, x)
         IN  l \in Locals /\ l.item = x /\ l.key = k /\ l.found = FALSE
  BY Consts DEF Carrying, NoLocals, Locals

\* Its slot is known.
Claiming(x, p) == [NoLocals EXCEPT !.item = x, !.at = p]
\* The rest of its locals starts anew.
LEMMA SetAt ==
  ASSUME NEW x \in Items \cup {0}, NEW p \in Nat
  PROVE  LET l == Claiming(x, p)
         IN  l \in Locals /\ l.item = x /\ l.at = p /\ l.key = 0 /\ l.found = FALSE
  BY Consts DEF Claiming, NoLocals, Locals

\* The vector a call stores to is known.
WithStore(l, k) == [l EXCEPT !.storeKey = k]
\* Its other locals stay.
LEMMA SetStore ==
  ASSUME NEW l \in Locals, NEW k \in Nat
  PROVE  LET m == WithStore(l, k)
         IN  /\ m \in Locals /\ m.item = l.item /\ m.key = l.key /\ m.found = l.found
             /\ m.loadKey = l.loadKey /\ m.storeKey = k /\ m.at = l.at
  BY DEF WithStore, Locals

\* The end of the keys stored.
WithHi(l, k) == [l EXCEPT !.hi = k]
\* Its other locals stay.
LEMMA SetHi ==
  ASSUME NEW l \in Locals, NEW k \in Nat
  PROVE  LET m == WithHi(l, k)
         IN  /\ m \in Locals /\ m.item = l.item /\ m.key = l.key /\ m.found = l.found
             /\ m.loadKey = l.loadKey /\ m.storeKey = l.storeKey
  BY DEF WithHi, Locals

\* Where the lookup begins.
WithLo(l, k) == [l EXCEPT !.lo = k]
\* Its other locals stay.
LEMMA SetLo ==
  ASSUME NEW l \in Locals, NEW k \in Nat
  PROVE  LET m == WithLo(l, k)
         IN  m \in Locals /\ m.item = l.item /\ m.key = l.key /\ m.found = l.found
  BY DEF WithLo, Locals

\* The range of a scan.
WithRange(l, j, k) == [l EXCEPT !.i = j, !.hi = k]
\* Its other locals stay.
LEMMA SetRange ==
  ASSUME NEW l \in Locals, NEW j \in Nat, NEW k \in Nat
  PROVE  LET m == WithRange(l, j, k)
         IN  /\ m \in Locals /\ m.item = l.item /\ m.key = l.key /\ m.found = l.found
             /\ m.i = j /\ m.hi = k
  BY DEF WithRange, Locals

\* The next cell.
WithI(l, j) == [l EXCEPT !.i = j]
\* Its other locals stay.
LEMMA SetI ==
  ASSUME NEW l \in Locals, NEW j \in Nat
  PROVE  LET m == WithI(l, j)
         IN  /\ m \in Locals /\ m.item = l.item /\ m.key = l.key /\ m.found = l.found
             /\ m.i = j /\ m.hi = l.hi
  BY DEF WithI, Locals

\* The key seen in a cell.
WithKey(l, k) == [l EXCEPT !.key = k]
\* Its other locals stay.
LEMMA SetSeen ==
  ASSUME NEW l \in Locals, NEW k \in Keys
  PROVE  LET m == WithKey(l, k)
         IN  /\ m \in Locals /\ m.item = l.item /\ m.key = k /\ m.i = l.i
             /\ m.hi = l.hi /\ m.loadKey = l.loadKey
  BY DEF WithKey, Locals

\* A key another push took first.
WithMissed(l, k, n, j) == [l EXCEPT !.key = k, !.miss = n, !.i = j]
\* Its other locals stay.
LEMMA SetMissed ==
  ASSUME NEW l \in Locals, NEW k \in Keys, NEW n \in Nat, NEW j \in Nat
  PROVE  LET m == WithMissed(l, k, n, j)
         IN  /\ m \in Locals /\ m.item = l.item /\ m.key = k /\ m.hi = l.hi
  BY DEF WithMissed, Locals

\* The key was put; the scan goes on elsewhere.
WithFound(l, j) == [l EXCEPT !.found = TRUE, !.i = j]
\* Its other locals stay.
LEMMA SetFound ==
  ASSUME NEW l \in Locals, NEW j \in Nat
  PROVE  LET m == WithFound(l, j)
         IN  /\ m \in Locals /\ m.item = l.item /\ m.key = l.key /\ m.found = TRUE
             /\ m.i = j /\ m.hi = l.hi
  BY DEF WithFound, Locals

\* A cell another delete filled first.
WithPassed(l, n, j) == [l EXCEPT !.miss = n, !.i = j]
\* Its other locals stay.
LEMMA SetPassed ==
  ASSUME NEW l \in Locals, NEW n \in Nat, NEW j \in Nat
  PROVE  LET m == WithPassed(l, n, j)
         IN  /\ m \in Locals /\ m.item = l.item /\ m.key = l.key /\ m.found = l.found
             /\ m.i = j /\ m.hi = l.hi
  BY DEF WithPassed, Locals

\* The position claimed.
WithAt(l, p) == [l EXCEPT !.at = p]
\* Its other locals stay.
LEMMA SetPlace ==
  ASSUME NEW l \in Locals, NEW p \in Nat
  PROVE  LET m == WithAt(l, p)
         IN  /\ m \in Locals /\ m.item = l.item /\ m.key = l.key /\ m.found = l.found
             /\ m.at = p /\ m.storeKey = l.storeKey
  BY DEF WithAt, Locals

-----------------------------------------------------------------------------
(* Steps of one thread *)

\* A step takes one thread from one place to another.
LEMMA Moved ==
  ASSUME NEW t \in Threads, NEW from, NEW to \in PCs, pc \in [Threads -> PCs],
         Step(t, from, to)
  PROVE  /\ pc' \in [Threads -> PCs]
         /\ pc[t] = from /\ pc'[t] = to
         /\ \A u \in Threads \ {t} : pc'[u] = pc[u]
  BY DEF Step

\* It sets the locals of that thread.
LEMMA Located ==
  ASSUME NEW t \in Threads, NEW l \in Locals, loc \in [Threads -> Locals], Set(t, l)
  PROVE  /\ loc' \in [Threads -> Locals]
         /\ loc'[t] = l
         /\ \A u \in Threads \ {t} : loc'[u] = loc[u]
  BY DEF Set

\* The threads at some places are finitely many.
LEMMA AtFinite ==
  ASSUME NEW S
  PROVE  IsFiniteSet(At(S)) /\ Cardinality(At(S)) \in Nat
  <1>1. IsFiniteSet(Threads) /\ At(S) \in SUBSET Threads
    BY Consts DEF At
  <1> QED
    BY <1>1, FS_Subset, FS_CardinalityType

\* A step counts as one who arrives, one who leaves, or neither.
LEMMA AtMove ==
  ASSUME NEW t \in Threads, NEW from, NEW to \in PCs, pc \in [Threads -> PCs],
         Step(t, from, to), NEW S
  PROVE  /\ Cardinality(At(S)) \in Nat /\ Cardinality(At(S))' \in Nat
         /\ (from \in S <=> to \in S) => At(S)' = At(S)
         /\ from \in S /\ to \notin S => Cardinality(At(S))' = Cardinality(At(S)) - 1
         /\ from \notin S /\ to \in S => Cardinality(At(S))' = Cardinality(At(S)) + 1
  <1>1. /\ pc[t] = from /\ pc'[t] = to
        /\ \A u \in Threads \ {t} : pc'[u] = pc[u]
    BY Moved
  <1>2. IsFiniteSet(At(S)) /\ Cardinality(At(S)) \in Nat
    BY AtFinite
  <1>3. Cardinality(At(S))' \in Nat
    <2>1. IsFiniteSet(Threads) /\ At(S)' \in SUBSET Threads
      BY Consts DEF At
    <2> QED
      BY <2>1, FS_Subset, FS_CardinalityType
  <1>4. ASSUME from \in S <=> to \in S PROVE At(S)' = At(S)
    BY <1>1, <1>4 DEF At
  <1>5. ASSUME from \in S, to \notin S
        PROVE  Cardinality(At(S))' = Cardinality(At(S)) - 1
    <2>1. At(S)' = At(S) \ {t} /\ t \in At(S)
      BY <1>1, <1>5 DEF At
    <2> QED
      BY <2>1, <1>2, FS_RemoveElement
  <1>6. ASSUME from \notin S, to \in S
        PROVE  Cardinality(At(S))' = Cardinality(At(S)) + 1
    <2>1. At(S)' = At(S) \cup {t} /\ t \notin At(S)
      BY <1>1, <1>6 DEF At
    <2> QED
      BY <2>1, <1>2, FS_AddElement
  <1> QED
    BY <1>2, <1>3, <1>4, <1>5, <1>6

-----------------------------------------------------------------------------
(* Calls *)

\* A call that goes on to a place its locals fit to, while idx grows.
LEMMA CallKept ==
  ASSUME pc \in [Threads -> PCs], Calls, idx \in Nat, idx' \in Nat, idx <= idx',
         NEW t \in Threads, NEW from, NEW to \in PCs, Step(t, from, to),
         NEW l \in Locals, Set(t, l), Fits(to, l, idx')
  PROVE  Calls' /\ pc' \in [Threads -> PCs]
  <1>1. /\ pc' \in [Threads -> PCs] /\ pc'[t] = to
        /\ \A u \in Threads \ {t} : pc'[u] = pc[u]
    BY Moved
  <1>2. /\ loc' \in [Threads -> Locals] /\ loc'[t] = l
        /\ \A u \in Threads \ {t} : loc'[u] = loc[u]
    BY Located DEF Calls
  <1>3. ASSUME NEW u \in Threads \ {t} PROVE Fits(pc'[u], loc'[u], idx')
    <2>1. Fits(pc[u], loc[u], idx)
      BY DEF Calls
    <2>2. pc'[u] = pc[u] /\ loc'[u] = loc[u] /\ loc[u] \in Locals
      BY <1>1, <1>2 DEF Calls
    <2>3. loc[u].loadKey \in Nat /\ loc[u].storeKey \in Nat
      BY <2>2 DEF Locals
    <2> QED
      BY <2>1, <2>2, <2>3 DEF Fits
  <1> QED
    BY <1>1, <1>2, <1>3 DEF Calls

\* A call that keeps its locals.
LEMMA Walked ==
  ASSUME pc \in [Threads -> PCs], Calls, idx \in Nat, idx' \in Nat, idx <= idx',
         NEW t \in Threads, NEW from, NEW to \in PCs, Step(t, from, to),
         UNCHANGED loc, Fits(to, loc[t], idx')
  PROVE  Calls' /\ pc' \in [Threads -> PCs]
  <1>1. loc[t] \in Locals /\ Set(t, loc[t])
    BY DEF Calls, Set
  <1> QED
    BY <1>1, CallKept

\* What is known of a call when it is at a place.
LEMMA CallAt ==
  ASSUME TypeOK, Calls, NEW t \in Threads, NEW from, pc[t] = from
  PROVE  /\ Fits(from, loc[t], idx) /\ loc[t] \in Locals
         /\ loc[t].loadKey \in Nat /\ loc[t].storeKey \in Nat
         /\ loc[t].lo \in Nat /\ loc[t].hi \in Nat /\ loc[t].i \in Nat
         /\ loc[t].miss \in Nat /\ loc[t].key \in Keys
         /\ loc[t].item \in Items \cup {0} /\ loc[t].at \in Nat
         /\ loc[t].found \in BOOLEAN
         /\ LoadVec(t) \in Vecs /\ StoreVec(t) \in Vecs
         /\ pc \in [Threads -> PCs] /\ idx \in Nat /\ idx <= MaxSwaps
         /\ storeIter \in [Vecs -> Nat] /\ loadIter \in [Vecs -> Nat]
         /\ size \in [Vecs -> Nat] /\ \A v \in Vecs : size[v] <= MaxItems
         /\ claimed \in [Vecs -> Nat]
         /\ cells \in [Vecs -> [Positions -> Keys]]
  <1>1. loc[t] \in Locals /\ Fits(from, loc[t], idx)
    BY DEF Calls
  <1>2. /\ loc[t].loadKey \in Nat /\ loc[t].storeKey \in Nat
        /\ loc[t].lo \in Nat /\ loc[t].hi \in Nat /\ loc[t].i \in Nat
        /\ loc[t].miss \in Nat /\ loc[t].key \in Keys
        /\ loc[t].item \in Items \cup {0} /\ loc[t].at \in Nat
        /\ loc[t].found \in BOOLEAN
    BY <1>1 DEF Locals
  <1>3. LoadVec(t) \in Vecs /\ StoreVec(t) \in Vecs
    BY <1>2 DEF LoadVec, StoreVec, Vecs
  <1>4. /\ pc \in [Threads -> PCs] /\ idx \in Nat /\ idx <= MaxSwaps
        /\ storeIter \in [Vecs -> Nat] /\ loadIter \in [Vecs -> Nat]
        /\ size \in [Vecs -> Nat] /\ \A v \in Vecs : size[v] <= MaxItems
        /\ claimed \in [Vecs -> Nat]
        /\ cells \in [Vecs -> [Positions -> Keys]]
    BY Consts DEF TypeOK, PCs
  <1> QED
    BY <1>1, <1>2, <1>3, <1>4

\* The lookup of push().
Lookup(t) ==
  \/ LoadKey(t) \/ StoreKey(t) \/ LoadMax(t) \/ Drained(t) \/ Refill(t)
  \/ Swap(t) \/ ResetLoad(t) \/ ResetStore(t) \/ RangeLo(t) \/ RangeHi(t)
  \/ Peek(t) \/ Take(t) \/ StillSame(t) \/ SkipTaken(t) \/ Advance(t)

\* The lookup keeps what is known of calls.
LEMMA LookupCalls ==
  ASSUME TypeOK, Calls, NEW t \in Threads, Lookup(t)
  PROVE  Calls' /\ pc' \in [Threads -> PCs] /\ idx \in Nat /\ idx' \in 0 .. MaxSwaps
         /\ idx <= idx'
  <1> DEFINE l == loc[t]
  <1>0. /\ pc \in [Threads -> PCs] /\ idx \in Nat /\ idx <= MaxSwaps
        /\ storeIter \in [Vecs -> Nat] /\ loadIter \in [Vecs -> Nat]
        /\ size \in [Vecs -> Nat] /\ (\A v \in Vecs : size[v] <= MaxItems)
        /\ l \in Locals /\ l.item \in Items \cup {0} /\ Fits(pc[t], l, idx)
        /\ l.key \in Keys /\ l.i \in Nat /\ l.miss \in Nat /\ l.lo \in Nat /\ l.hi \in Nat
        /\ cells \in [Vecs -> [Positions -> Keys]]
        /\ LoadVec(t) \in Vecs /\ StoreVec(t) \in Vecs
    BY CallAt
  <1>1. CASE LoadKey(t)
    <2> DEFINE m == Loading(idx, l.item)
    <2>1. /\ m \in Locals /\ m.item = l.item /\ m.key = 0 /\ m.loadKey = idx
      BY <1>0, SetLoad
    <2>2. Step(t, "load", "store") /\ Set(t, m) /\ idx' = idx
      BY <1>1 DEF LoadKey, Loading, free
    <2>3. l.item \in Items
      BY <1>0, <2>2 DEF Fits, Step, PushPC
    <2>4. "store" \in PCs /\ Fits("store", m, idx')
      BY <2>1, <2>2, <2>3, <1>0 DEF Fits, PCs, PushPC, DeletePC
    <2> HIDE DEF m
    <2> QED
      BY <1>0, <2>1, <2>2, <2>4, CallKept
  <1>2. CASE StoreKey(t)
    <2> DEFINE k == idx + 1
               m == WithStore(l, k)
    <2>0. k \in Nat
      BY <1>0
    <2> HIDE DEF k
    <2>1. /\ m \in Locals /\ m.item = l.item /\ m.key = l.key
          /\ m.loadKey = l.loadKey /\ m.storeKey = k
      BY <1>0, <2>0, SetStore
    <2>2. Step(t, "store", "max") /\ Set(t, m) /\ idx' = idx
      BY <1>2 DEF StoreKey, WithStore, free, k
    <2>3. l.item \in Items /\ l.key = 0 /\ l.loadKey <= idx /\ l.loadKey \in Nat
      BY <1>0, <2>2 DEF Fits, Step, PushPC, Locals
    <2>4. "max" \in PCs /\ Fits("max", m, idx')
      BY <2>1, <2>2, <2>3, <1>0 DEF k, Fits, PCs, PushPC, DeletePC
    <2> HIDE DEF m
    <2> QED
      BY <1>0, <2>1, <2>2, <2>4, CallKept
  <1>3. CASE LoadMax(t)
    <2> DEFINE m == WithHi(l, storeIter[LoadVec(t)])
    <2>1. /\ m \in Locals /\ m.item = l.item /\ m.key = l.key
          /\ m.loadKey = l.loadKey /\ m.storeKey = l.storeKey
      BY <1>0, SetHi
    <2>2. Step(t, "max", "drained") /\ Set(t, m) /\ idx' = idx
      BY <1>3 DEF LoadMax, WithHi, free
    <2>3. Fits("max", l, idx)
      BY <1>0, <2>2 DEF Step
    <2>4. "drained" \in PCs /\ Fits("drained", m, idx')
      BY <2>1, <2>2, <2>3, <1>0 DEF Fits, PCs, PushPC, DeletePC
    <2> HIDE DEF m
    <2> QED
      BY <1>0, <2>1, <2>2, <2>4, CallKept
  <1>4. CASE Drained(t)
    <2>1. \E to \in {"refill", "lo"} : Step(t, "drained", to)
      BY <1>4 DEF Drained
    <2>2. UNCHANGED loc /\ idx' = idx
      BY <1>4 DEF Drained, free
    <2>3. Fits("drained", l, idx)
      BY <1>0, <2>1 DEF Step
    <2>4. ASSUME NEW to \in {"refill", "lo"}
          PROVE  to \in PCs /\ Fits(to, loc[t], idx')
      BY <2>2, <2>3, <1>0 DEF Fits, PCs, PushPC, DeletePC
    <2> QED
      BY <1>0, <2>1, <2>2, <2>4, Walked
  <1>5. CASE Refill(t)
    <2>1. \E to \in {"claim", "swap"} : Step(t, "refill", to)
      BY <1>5 DEF Refill
    <2>2. UNCHANGED loc /\ idx' = idx
      BY <1>5 DEF Refill, free
    <2>3. Fits("refill", l, idx)
      BY <1>0, <2>1 DEF Step
    <2>4. ASSUME NEW to \in {"claim", "swap"}
          PROVE  to \in PCs /\ Fits(to, loc[t], idx')
      BY <2>2, <2>3, <1>0 DEF Fits, PCs, PushPC, DeletePC
    <2> QED
      BY <1>0, <2>1, <2>2, <2>4, Walked
  <1>6. CASE Swap(t)
    <2>1. \E to \in {"resetload", "load"} : Step(t, "swap", to)
      BY <1>6 DEF Swap
    <2>2. UNCHANGED loc
      BY <1>6 DEF Swap
    <2>3. Fits("swap", l, idx) /\ l.loadKey \in Nat /\ l.storeKey \in Nat
      BY <1>0, <2>1 DEF Step, Locals
    <2>4. idx' = idx \/ (idx = l.loadKey /\ idx < MaxSwaps /\ idx' = l.storeKey)
      BY <1>6 DEF Swap
    <2>5. l.loadKey < l.storeKey /\ l.storeKey <= idx + 1
      BY <2>3 DEF Fits
    <2>6. idx' \in Nat /\ idx <= idx' /\ idx' <= MaxSwaps
      BY <2>4, <2>5, <2>3, <1>0, Consts
    <2>7. ASSUME NEW to \in {"resetload", "load"}
          PROVE  to \in PCs /\ Fits(to, loc[t], idx')
      BY <2>2, <2>3, <1>0 DEF Fits, PCs, PushPC, DeletePC
    <2> QED
      BY <1>0, <2>1, <2>2, <2>6, <2>7, Walked, Consts
  <1>7. CASE ResetLoad(t)
    <2>1. Step(t, "resetload", "resetstore") /\ UNCHANGED loc /\ idx' = idx
      BY <1>7 DEF ResetLoad
    <2>2. Fits("resetload", l, idx)
      BY <1>0, <2>1 DEF Step
    <2>3. "resetstore" \in PCs /\ Fits("resetstore", loc[t], idx')
      BY <2>1, <2>2, <1>0 DEF Fits, PCs, PushPC, DeletePC
    <2> QED
      BY <1>0, <2>1, <2>3, Walked
  <1>8. CASE ResetStore(t)
    <2>1. Step(t, "resetstore", "load") /\ UNCHANGED loc /\ idx' = idx
      BY <1>8 DEF ResetStore
    <2>2. Fits("resetstore", l, idx)
      BY <1>0, <2>1 DEF Step
    <2>3. "load" \in PCs /\ Fits("load", loc[t], idx')
      BY <2>1, <2>2, <1>0 DEF Fits, PCs, PushPC, DeletePC
    <2> QED
      BY <1>0, <2>1, <2>3, Walked
  <1>9. CASE RangeLo(t)
    <2> DEFINE m == WithLo(l, loadIter[LoadVec(t)])
    <2>1. m \in Locals /\ m.item = l.item /\ m.key = l.key
      BY <1>0, SetLo
    <2>2. Step(t, "lo", "hi") /\ Set(t, m) /\ idx' = idx
      BY <1>9 DEF RangeLo, WithLo, free
    <2>3. Fits("lo", l, idx)
      BY <1>0, <2>2 DEF Step
    <2>4. "hi" \in PCs /\ Fits("hi", m, idx')
      BY <2>1, <2>2, <2>3, <1>0 DEF Fits, PCs, PushPC, DeletePC
    <2> HIDE DEF m
    <2> QED
      BY <1>0, <2>1, <2>2, <2>4, CallKept
  <1>10. CASE RangeHi(t)
    <2> DEFINE v == LoadVec(t)
               h == IF storeIter[v] <= size[v] THEN storeIter[v] ELSE size[v]
               j == l.lo
               m == WithRange(l, j, h)
    <2>1. h \in Nat /\ h <= MaxItems
      BY <1>0, Consts
    <2> HIDE DEF h
    <2>5. m \in Locals /\ m.item = l.item /\ m.key = l.key /\ m.hi = h
      <3>1. l \in Locals /\ j \in Nat
        BY <1>0
      <3> HIDE DEF l, j
      <3> QED
        BY <2>1, <3>1, SetRange
    <2>2. Step(t, "hi", "peek") /\ Set(t, m) /\ idx' = idx
      BY <1>10 DEF RangeHi, free, h, WithRange
    <2> HIDE DEF m
    <2>3. Fits("hi", l, idx)
      BY <1>0, <2>2 DEF Step
    <2>4. "peek" \in PCs /\ Fits("peek", m, idx')
      BY <2>1, <2>5, <2>2, <2>3, <1>0 DEF Fits, PCs, PushPC, DeletePC
    <2> QED
      BY <1>0, <2>5, <2>2, <2>4, CallKept
  <1>11. CASE Peek(t)
    <2>1. /\ Fits("peek", l, idx) /\ l.item \in Items /\ l.key = 0
          /\ l.hi <= MaxItems
      BY <1>0, <1>11 DEF Peek, Step, Fits, PushPC
    <2>2. idx' = idx /\ idx \in Nat
      BY <1>0, <1>11 DEF Peek, free
    <2>3. CASE Step(t, "peek", "same") /\ UNCHANGED loc
      <3>1. "same" \in PCs /\ Fits("same", loc[t], idx')
        BY <2>1 DEF Fits, PCs, PushPC, DeletePC
      <3> QED
        BY <1>0, <2>2, <2>3, <3>1, Walked
    <2>4. CASE Step(t, "peek", "peek") /\ Set(t, [l EXCEPT !.i = @ + 1])
      <3> DEFINE j == l.i + 1
                 m == WithI(l, j)
      <3>0. j \in Nat
        BY <1>0
      <3> HIDE DEF j
      <3>1. m \in Locals /\ m.item = l.item /\ m.key = l.key /\ m.hi = l.hi
        BY <1>0, <3>0, SetI
      <3>2. Set(t, m)
        BY <2>4 DEF WithI, j
      <3> HIDE DEF m
      <3>3. "peek" \in PCs /\ Fits("peek", m, idx')
        BY <2>1, <3>1 DEF Fits, PCs, PushPC, DeletePC
      <3> QED
        BY <1>0, <2>2, <2>4, <3>1, <3>2, <3>3, CallKept
    <2>5. CASE /\ Step(t, "peek", "take") /\ l.i < l.hi
               /\ cells[LoadVec(t)][l.i] # 0
               /\ Set(t, [l EXCEPT !.key = cells[LoadVec(t)][l.i]])
      <3> DEFINE k == cells[LoadVec(t)][l.i]
                 m == WithKey(l, k)
      <3>1. k \in Keys /\ l.i < MaxItems
        <4>1. l.i \in Nat /\ l.i < MaxItems
          BY <1>0, <2>1, <2>5, Consts
        <4>2. l.i \in Positions
          BY <4>1, Consts DEF Positions
        <4> QED
          BY <1>0, <4>1, <4>2
      <3> HIDE DEF k
      <3>2. m \in Locals /\ m.item = l.item /\ m.key = k /\ m.i = l.i /\ m.hi = l.hi
        BY <1>0, <3>1, SetSeen
      <3>3. Set(t, m) /\ k # 0
        BY <2>5 DEF k, WithKey
      <3> HIDE DEF m
      <3>4. "take" \in PCs /\ Fits("take", m, idx')
        BY <2>1, <3>1, <3>2, <3>3 DEF Fits, PCs, PushPC, DeletePC
      <3> QED
        BY <1>0, <2>2, <2>5, <3>2, <3>3, <3>4, CallKept
    <2> QED
      BY <1>11, <2>3, <2>4, <2>5 DEF Peek
  <1>12. CASE Take(t)
    <2>1. /\ Fits("take", l, idx) /\ l.item \in Items /\ l.key # 0
          /\ l.hi <= MaxItems
      BY <1>0, <1>12 DEF Take, Step, Fits, PushPC
    <2>2. idx' = idx /\ idx \in Nat
      BY <1>0, <1>12 DEF Take
    <2>3. CASE Step(t, "take", "same") /\ UNCHANGED loc
      <3>1. "same" \in PCs /\ Fits("same", loc[t], idx')
        BY <2>1 DEF Fits, PCs, PushPC, DeletePC
      <3> QED
        BY <1>0, <2>2, <2>3, <3>1, Walked
    <2>4. CASE /\ Step(t, "take", "peek")
               /\ Set(t, [l EXCEPT !.key = 0, !.miss = @ + 1, !.i = @ + 1])
      <3> DEFINE n == l.miss + 1
                 j == l.i + 1
                 m == WithMissed(l, 0, n, j)
      <3>0. n \in Nat /\ j \in Nat
        BY <1>0
      <3>4. l \in Locals
        BY <1>0
      <3> HIDE DEF n, j
      <3>1. m \in Locals /\ m.item = l.item /\ m.key = 0 /\ m.hi = l.hi
        BY <3>4, <3>0, Consts, SetMissed
      <3>2. Set(t, m)
        BY <2>4 DEF WithMissed, n, j
      <3> HIDE DEF m
      <3>3. "peek" \in PCs /\ Fits("peek", m, idx')
        BY <2>1, <3>1 DEF Fits, PCs, PushPC, DeletePC
      <3> QED
        BY <1>0, <2>2, <2>4, <3>1, <3>2, <3>3, CallKept
    <2> QED
      BY <1>12, <2>3, <2>4 DEF Take
  <1>13. CASE StillSame(t)
    <2>1. /\ \E to \in {"skip", "advance", "claim", "load"} :
               Step(t, "same", to) /\ (to = "advance" => l.key # 0)
          /\ UNCHANGED loc /\ idx' = idx
      BY <1>13 DEF StillSame, AfterLookup, free
    <2>2. Fits("same", l, idx)
      BY <1>0, <2>1 DEF Step
    <2>3. ASSUME NEW to \in {"skip", "advance", "claim", "load"},
                 to = "advance" => l.key # 0
          PROVE  to \in PCs /\ Fits(to, loc[t], idx')
      BY <2>2, <2>3 DEF Fits, PCs, PushPC, DeletePC
    <2> QED
      BY <1>0, <2>1, <2>3, Walked
  <1>14. CASE SkipTaken(t)
    <2>1. /\ \E to \in {"advance", "claim"} :
               Step(t, "skip", to) /\ (to = "advance" => l.key # 0)
          /\ UNCHANGED loc /\ idx' = idx
      BY <1>14 DEF SkipTaken, AfterLookup
    <2>2. Fits("skip", l, idx)
      BY <1>0, <2>1 DEF Step
    <2>3. ASSUME NEW to \in {"advance", "claim"}, to = "advance" => l.key # 0
          PROVE  to \in PCs /\ Fits(to, loc[t], idx')
      BY <2>2, <2>3 DEF Fits, PCs, PushPC, DeletePC
    <2> QED
      BY <1>0, <2>1, <2>3, Walked
  <1>15. CASE Advance(t)
    <2> DEFINE k == l.key
               x == l.item
               m == Carrying(k, x)
    <2>2. Step(t, "advance", "reach") /\ Set(t, m) /\ idx' = idx
      BY <1>15 DEF Advance, Carrying
    <2>5. k \in Keys /\ x \in Items \cup {0}
      BY <1>0
    <2> HIDE DEF k, x
    <2>6. m \in Locals /\ m.item = x /\ m.key = k
      BY <2>5, SetKey
    <2>1. m \in Locals /\ m.item = l.item /\ m.key = l.key
      BY <2>6 DEF k, x
    <2>3. Fits("advance", l, idx)
      BY <1>0, <2>2 DEF Step
    <2> HIDE DEF m
    <2>4. "reach" \in PCs /\ Fits("reach", m, idx')
      BY <2>1, <2>3 DEF Fits, PCs, PushPC, DeletePC
    <2> QED
      BY <1>0, <2>1, <2>2, <2>4, CallKept
  <1> QED
    BY <1>1, <1>2, <1>3, <1>4, <1>5, <1>6, <1>7, <1>8, <1>9, <1>10, <1>11, <1>12, <1>13,
       <1>14, <1>15 DEF Lookup

\* A call that returns.
LEMMA Returned ==
  ASSUME pc \in [Threads -> PCs], Calls, idx \in Nat, idx' = idx,
         NEW t \in Threads, NEW from, Return(t, from)
  PROVE  Calls' /\ pc' \in [Threads -> PCs]
  <1>1. NoLocals \in Locals
    BY NoLocalsType
  <1>2. Step(t, from, "idle") /\ Set(t, NoLocals)
    BY DEF Return
  <1>3. "idle" \in PCs /\ Fits("idle", NoLocals, idx')
    BY DEF Fits, PCs, PushPC, DeletePC
  <1> QED
    BY <1>1, <1>2, <1>3, CallKept

\* The cell a walk stops at.
Reached(t) == (KS * chunk[t]) + ((loc[t].key - 1) % KS)

\* It is a position.
LEMMA ReachedType ==
  ASSUME TypeOK, NEW t \in Threads, loc[t].key \in Keys, loc[t].key # 0
  PROVE  Reached(t) \in Nat
  <1> DEFINE c == chunk[t]  k == loc[t].key - 1
  <1>1. KS \in Nat /\ KS > 0 /\ c \in Nat /\ k \in Nat
    BY Consts DEF TypeOK, Keys
  <1> HIDE DEF c, k
  <1>2. KS * c \in Nat /\ k % KS \in Nat
    BY <1>1
  <1> QED
    BY <1>2 DEF Reached, c, k

\* What push() does to the slots once the lookup is over.
Storing(t) ==
  \/ ReachReused(t) \/ Reuse(t) \/ LoadSlots(t) \/ ClaimSlot(t) \/ UndoSlot(t)
  \/ FillSlot(t) \/ CountSlot(t) \/ AnnounceSlot(t)

\* What a step of the walk does: it goes on or it stops.
LEMMA Walking ==
  ASSUME NEW t \in Threads, NEW from, NEW to, Reach(t, from, to)
  PROVE  /\ \/ Step(t, from, from) /\ UNCHANGED loc
               /\ Beyond(t) /\ chunk' = [chunk EXCEPT ![t] = @ + 1]
            \/ Step(t, from, to) /\ Set(t, WithAt(loc[t], Reached(t)))
               /\ ~Beyond(t) /\ chunk' = [chunk EXCEPT ![t] = 0]
         /\ UNCHANGED <<idx, storeIter, loadIter, cells, claimed, size, slots,
                         slotsClaimed, slotsSize, slotsLen, held, pushed>>
  BY DEF Reach, WithAt, Reached, free, clients

\* The steps of push() outside of the lookup.
LEMMA PushCalls ==
  ASSUME TypeOK, Calls, NEW t \in Threads, PushStart(t) \/ Storing(t)
  PROVE  Calls' /\ pc' \in [Threads -> PCs] /\ idx' = idx
  <1> DEFINE l == loc[t]
  <1>0. /\ pc \in [Threads -> PCs] /\ idx \in Nat
        /\ l \in Locals /\ l.item \in Items \cup {0} /\ Fits(pc[t], l, idx)
        /\ l.key \in Keys
    BY CallAt
  <1>1. CASE PushStart(t)
    <2> DEFINE x == pushed + 1
               m == Starting(x)
    <2>1. x \in Items
      BY <1>1, Consts DEF PushStart, TypeOK, Items
    <2> HIDE DEF x
    <2>2. m \in Locals /\ m.item = x /\ m.key = 0
      BY <2>1, SetItem
    <2>3. Step(t, "idle", "load") /\ Set(t, m) /\ idx' = idx
      BY <1>1 DEF PushStart, Starting, free, x
    <2> HIDE DEF m
    <2>4. "load" \in PCs /\ Fits("load", m, idx')
      BY <2>1, <2>2 DEF Fits, PCs, PushPC, DeletePC
    <2> QED
      BY <1>0, <2>2, <2>3, <2>4, CallKept
  <1>2. CASE Reuse(t)
    BY <1>0, <1>2, Returned DEF Reuse, free
  <1>3. ASSUME NEW from \in PushPC, NEW to \in {"claim", "fetch", "undo", "len", "announce"},
               Step(t, from, to), UNCHANGED loc, idx' = idx
        PROVE  Calls' /\ pc' \in [Threads -> PCs]
    <2>1. l.item \in Items
      BY <1>0, <1>3 DEF Step, Fits
    <2>2. to \in PCs /\ Fits(to, loc[t], idx')
      BY <2>1 DEF Fits, PCs, PushPC, DeletePC
    <2> QED
      BY <1>0, <1>3, <2>2, Walked
  <1>4. CASE ReachReused(t)
    <2> DEFINE m == WithAt(l, Reached(t))
    <2>1. /\ idx' = idx
          /\ \/ Step(t, "reach", "reach") /\ UNCHANGED loc
             \/ Step(t, "reach", "reuse") /\ Set(t, m)
      BY <1>4, Walking DEF ReachReused
    <2>2. l.item \in Items /\ l.key # 0 /\ Fits("reach", l, idx)
      BY <1>0, <2>1 DEF Step, Fits, PushPC
    <2>3. Reached(t) \in Nat
      BY <1>0, <2>2, ReachedType
    <2>4. m \in Locals /\ m.item = l.item /\ m.key = l.key
      BY <1>0, <2>3, SetPlace
    <2> HIDE DEF m
    <2>5. "reach" \in PCs /\ "reuse" \in PCs /\ Fits("reuse", m, idx')
      BY <2>2, <2>4 DEF Fits, PCs, PushPC, DeletePC
    <2> QED
      BY <1>0, <2>1, <2>2, <2>4, <2>5, CallKept, Walked
  <1>5. CASE ClaimSlot(t)
    <2> DEFINE m == Claiming(l.item, slotsClaimed)
    <2>1. slotsClaimed \in Nat
      BY Consts DEF TypeOK
    <2>2. m \in Locals /\ m.item = l.item
      BY <1>0, <2>1, SetAt
    <2>3. /\ idx' = idx
          /\ \/ Step(t, "fetch", "undo") /\ UNCHANGED loc
             \/ Step(t, "fetch", "fill") /\ Set(t, m)
      BY <1>5 DEF ClaimSlot, Claiming, free
    <2> HIDE DEF m
    <2>4. l.item \in Items
      BY <1>0, <2>3 DEF Step, Fits, PushPC
    <2>5. "fill" \in PCs /\ Fits("fill", m, idx')
      BY <2>2, <2>4 DEF Fits, PCs, PushPC, DeletePC
    <2> QED
      BY <1>0, <1>3, <2>2, <2>3, <2>5, CallKept DEF PushPC
  <1>6. CASE LoadSlots(t)
    BY <1>3, <1>6 DEF LoadSlots, PushPC, free
  <1>7. CASE UndoSlot(t)
    BY <1>3, <1>7 DEF UndoSlot, PushPC, free
  <1>8. CASE FillSlot(t)
    BY <1>3, <1>8 DEF FillSlot, PushPC, free
  <1>9. CASE CountSlot(t)
    BY <1>3, <1>9 DEF CountSlot, PushPC, free
  <1>10. CASE AnnounceSlot(t)
    BY <1>0, <1>10, Returned DEF AnnounceSlot, free
  <1>11. idx' = idx
    BY Walking DEF PushStart, Storing, ReachReused, Reuse, LoadSlots, ClaimSlot, UndoSlot,
       FillSlot, CountSlot, AnnounceSlot, free
  <1> QED
    BY <1>1, <1>2, <1>4, <1>5, <1>6, <1>7, <1>8, <1>9, <1>10, <1>11 DEF Storing

\* A key that is given up is one that is held.
LEMMA GivenUp ==
  ASSUME TypeOK, NEW h \in held \cup {Invalid}, h[1] # 0
  PROVE  h \in held /\ h[1] \in Keys /\ h[2] \in Items
  <1>1. h \in held
    BY DEF Invalid
  <1>2. h \in Keys \X Items
    BY <1>1 DEF TypeOK
  <1> QED
    BY <1>1, <1>2

\* The steps of delete().
LEMMA DeleteCalls ==
  ASSUME TypeOK, Calls, NEW t \in Threads, DeleteStart(t) \/ Delete(t)
  PROVE  Calls' /\ pc' \in [Threads -> PCs] /\ idx' = idx
  <1> DEFINE l == loc[t]
  <1>0. /\ pc \in [Threads -> PCs] /\ idx \in Nat
        /\ storeIter \in [Vecs -> Nat] /\ size \in [Vecs -> Nat]
        /\ claimed \in [Vecs -> Nat]
        /\ l \in Locals /\ l.item \in Items \cup {0} /\ Fits(pc[t], l, idx)
        /\ l.key \in Keys /\ l.i \in Nat /\ l.miss \in Nat
        /\ StoreVec(t) \in Vecs
    BY CallAt
  <1>1. ASSUME pc[t] \in DeletePC PROVE l.key # 0
    BY <1>0, <1>1 DEF Fits
  <1>2. ASSUME NEW from \in DeletePC, NEW to \in DeletePC, Step(t, from, to),
               UNCHANGED loc, idx' = idx
        PROVE  Calls' /\ pc' \in [Threads -> PCs]
    <2>1. l.key # 0
      BY <1>1, <1>2 DEF Step
    <2>2. to \in PCs /\ Fits(to, loc[t], idx')
      BY <2>1 DEF Fits, PCs, PushPC, DeletePC
    <2> QED
      BY <1>0, <1>2, <2>2, Walked
  <1>3. ASSUME NEW from \in DeletePC, NEW to \in DeletePC, Step(t, from, to), idx' = idx,
               NEW m \in Locals, m.key = l.key, Set(t, m)
        PROVE  Calls' /\ pc' \in [Threads -> PCs]
    <2>1. l.key # 0
      BY <1>1, <1>3 DEF Step
    <2>2. to \in PCs /\ Fits(to, m, idx')
      BY <2>1, <1>3 DEF Fits, PCs, PushPC, DeletePC
    <2> QED
      BY <1>0, <1>3, <2>2, CallKept
  <1>4. CASE DeleteStart(t)
    <2>1. PICK h \in held \cup {Invalid} :
            IF h[1] = 0
              THEN Step(t, "idle", "idle") /\ UNCHANGED loc
              ELSE /\ Step(t, "idle", "dreach")
                   /\ Set(t, [NoLocals EXCEPT !.key = h[1], !.item = h[2]])
      BY <1>4 DEF DeleteStart
    <2>2. idx' = idx
      BY <1>4 DEF DeleteStart, free
    <2>3. CASE h[1] = 0
      <3>1. "idle" \in PCs /\ Fits("idle", loc[t], idx')
        BY DEF Fits, PCs, PushPC, DeletePC
      <3> QED
        BY <1>0, <2>1, <2>2, <2>3, <3>1, Walked
    <2>4. CASE h[1] # 0
      <3> DEFINE k == h[1]
                 x == h[2]
                 m == Carrying(k, x)
      <3>1. k \in Keys /\ x \in Items /\ k # 0
        BY <2>4, GivenUp
      <3>3. Step(t, "idle", "dreach") /\ Set(t, m)
        BY <2>1, <2>4 DEF Carrying
      <3> HIDE DEF k, x
      <3>2. m \in Locals /\ m.key = k
        BY <3>1, SetKey
      <3> HIDE DEF m
      <3>4. "dreach" \in PCs /\ Fits("dreach", m, idx')
        BY <3>1, <3>2 DEF Fits, PCs, PushPC, DeletePC
      <3> QED
        BY <1>0, <2>2, <3>2, <3>3, <3>4, CallKept
    <2> QED
      BY <2>2, <2>3, <2>4
  <1>5. CASE Disable(t)
    <2>1. \/ Return(t, "disable")
          \/ Step(t, "disable", "dstore") /\ UNCHANGED loc
      BY <1>5 DEF Disable
    <2>2. idx' = idx
      BY <1>5 DEF Disable, free
    <2> QED
      BY <1>0, <1>2, <2>1, <2>2, Returned DEF DeletePC
  <1>6. CASE DStoreKey(t)
    <2> DEFINE k == idx + 1
               m == WithStore(l, k)
    <2>1. k \in Nat
      BY <1>0
    <2> HIDE DEF k
    <2>2. m \in Locals /\ m.key = l.key
      BY <1>0, <2>1, SetStore
    <2>3. Step(t, "dstore", "check") /\ Set(t, m) /\ idx' = idx
      BY <1>6 DEF DStoreKey, WithStore, k, free
    <2> HIDE DEF m
    <2> QED
      BY <1>3, <2>2, <2>3 DEF DeletePC
  <1>7. CASE CheckStore(t)
    BY <1>2, <1>7 DEF CheckStore, DeletePC, free
  <1>8. CASE DRange(t)
    <2> DEFINE j == storeIter[StoreVec(t)]
               k == size[StoreVec(t)]
               m == WithRange(l, j, k)
    <2>1. j \in Nat /\ k \in Nat /\ l \in Locals
      BY <1>0
    <2>2. Step(t, "drange", "dpeek") /\ Set(t, m) /\ idx' = idx
      BY <1>8 DEF DRange, WithRange, free
    <2> HIDE DEF l, j, k
    <2>3. m \in Locals /\ m.key = l.key
      BY <2>1, SetRange
    <2> HIDE DEF m
    <2> QED
      BY <1>3, <2>2, <2>3 DEF DeletePC
  <1>9. CASE DPeek(t)
    <2>1. \/ \E to \in {"dsame", "count", "append", "put"} :
               Step(t, "dpeek", to) /\ UNCHANGED loc
          \/ /\ Step(t, "dpeek", "dpeek")
             /\ Set(t, [l EXCEPT !.i = l.i + 1])
      BY <1>9 DEF DPeek, AfterScan
    <2>2. idx' = idx
      BY <1>9 DEF DPeek, free
    <2>3. CASE Step(t, "dpeek", "dpeek") /\ Set(t, [l EXCEPT !.i = l.i + 1])
      <3> DEFINE j == l.i + 1
                 m == WithI(l, j)
      <3>1. j \in Nat
        BY <1>0
      <3>2. Set(t, m)
        BY <2>3 DEF WithI
      <3> HIDE DEF j
      <3>3. m \in Locals /\ m.key = l.key
        BY <1>0, <3>1, SetI
      <3> HIDE DEF m
      <3> QED
        BY <1>3, <2>2, <2>3, <3>2, <3>3 DEF DeletePC
    <2> QED
      BY <1>2, <2>1, <2>2, <2>3 DEF DeletePC
  <1>10. CASE Put(t)
    <2>1. Step(t, "put", "dpeek") /\ idx' = idx
      BY <1>10 DEF Put
    <2>2. CASE Set(t, [l EXCEPT !.found = TRUE, !.i = K * (@ \div K + 1)])
      <3> DEFINE j == K * (l.i \div K + 1)
                 m == WithFound(l, j)
      <3>1. j \in Nat
        BY <1>0, Consts
      <3>2. Set(t, m)
        BY <2>2 DEF WithFound
      <3> HIDE DEF j
      <3>3. m \in Locals /\ m.key = l.key
        BY <1>0, <3>1, SetFound
      <3> HIDE DEF m
      <3> QED
        BY <1>3, <2>1, <3>2, <3>3 DEF DeletePC
    <2>3. CASE Set(t, [l EXCEPT !.miss = @ + 1, !.i = @ + 1])
      <3> DEFINE n == l.miss + 1
                 j == l.i + 1
                 m == WithPassed(l, n, j)
      <3>1. n \in Nat /\ j \in Nat /\ l \in Locals
        BY <1>0
      <3>2. Set(t, m)
        BY <2>3 DEF WithPassed
      <3> HIDE DEF n, j
      <3>3. m \in Locals /\ m.key = l.key
        BY <3>1, SetPassed
      <3> HIDE DEF m
      <3> QED
        BY <1>3, <2>1, <3>2, <3>3 DEF DeletePC
    <2> QED
      BY <1>10, <2>2, <2>3, <2>1 DEF Put
  <1>11. CASE DSame(t)
    BY <1>2, <1>11 DEF DSame, AfterScan, DeletePC, free
  <1>12. CASE DSkip(t)
    BY <1>2, <1>12 DEF DSkip, AfterScan, DeletePC
  <1>13. CASE Append(t)
    <2> DEFINE p == claimed[StoreVec(t)]
               m == WithAt(l, p)
    <2>1. p \in Nat
      BY <1>0
    <2>2. Step(t, "append", "dwrite") /\ Set(t, m) /\ idx' = idx
      BY <1>13 DEF Append, WithAt
    <2> HIDE DEF p
    <2>3. m \in Locals /\ m.key = l.key
      BY <1>0, <2>1, SetPlace
    <2> HIDE DEF m
    <2> QED
      BY <1>3, <2>2, <2>3 DEF DeletePC
  <1>14. CASE AppendWrite(t)
    BY <1>2, <1>14 DEF AppendWrite, DeletePC
  <1>15. CASE AppendAnnounce(t)
    BY <1>2, <1>15 DEF AppendAnnounce, DeletePC
  <1>16. CASE CountKey(t)
    BY <1>0, <1>16, Returned DEF CountKey
  <1>17. CASE ReachDeleted(t)
    <2> DEFINE m == WithAt(l, Reached(t))
    <2>1. /\ idx' = idx
          /\ \/ Step(t, "dreach", "dreach") /\ UNCHANGED loc
             \/ Step(t, "dreach", "disable") /\ Set(t, m)
      BY <1>17, Walking DEF ReachDeleted
    <2>2. Reached(t) \in Nat
      BY <1>0, <1>1, <2>1, ReachedType DEF Step, DeletePC
    <2>3. m \in Locals /\ m.key = l.key
      BY <1>0, <2>2, SetPlace
    <2> HIDE DEF m
    <2> QED
      BY <1>2, <1>3, <2>1, <2>3 DEF DeletePC
  <1> QED
    BY <1>4, <1>5, <1>6, <1>7, <1>8, <1>9, <1>10, <1>11, <1>12, <1>13, <1>14, <1>15, <1>16,
       <1>17 DEF Delete

-----------------------------------------------------------------------------
(* The budget *)

\* What is counted is finite.
LEMMA Counts ==
  /\ TypeOK => IsFiniteSet(held)
  /\ Cardinality(Seeking) \in Nat /\ Cardinality(Filling) \in Nat
  /\ Cardinality(Busy) \in Nat
  /\ \A v : IsFiniteSet(Appending(v)) /\ Cardinality(Appending(v)) \in Nat
  <1>1. TypeOK => IsFiniteSet(held)
    <2>1. IsFiniteSet(Keys)
      <3>1. IsFiniteSet(0 .. KeySpace - 1)
        BY Consts, FS_Interval
      <3> QED
        BY <3>1 DEF Keys
    <2>2. IsFiniteSet(Items)
      <3>1. IsFiniteSet(1 .. MaxItems)
        BY Consts, FS_Interval
      <3> QED
        BY <3>1 DEF Items
    <2>3. IsFiniteSet(Keys \X Items)
      BY <2>1, <2>2, FS_Product
    <2>4. TypeOK => held \in SUBSET (Keys \X Items)
      BY DEF TypeOK
    <2> QED
      BY <2>3, <2>4, FS_Subset
  <1>2. /\ Cardinality(Seeking) \in Nat /\ Cardinality(Filling) \in Nat
        /\ Cardinality(Busy) \in Nat
    BY AtFinite DEF Seeking, Filling, Busy
  <1>3. ASSUME NEW v PROVE IsFiniteSet(Appending(v)) /\ Cardinality(Appending(v)) \in Nat
    <2>1. IsFiniteSet(Threads) /\ Appending(v) \in SUBSET Threads
      BY Consts DEF Appending, At
    <2> QED
      BY <2>1, FS_Subset, FS_CardinalityType
  <1> QED
    BY <1>1, <1>2, <1>3

\* What a step takes from one side of the budget it puts to the other.
Balanced ==
  /\ Cardinality(Seeking)' \in Nat /\ Cardinality(Filling)' \in Nat
  /\ Cardinality(Busy)' \in Nat /\ Cardinality(held)' \in Nat
  /\ \A v \in Vecs : Cardinality(Appending(v))' \in Nat
  /\ slotsSize' \in Nat /\ slotsClaimed' \in Nat /\ pushed' \in 0 .. MaxItems
  /\ claimed' \in [Vecs -> Nat] /\ size' \in [Vecs -> Nat]
  /\ slotsSize' + Cardinality(Filling)' - slotsClaimed'
       = slotsSize + Cardinality(Filling) - slotsClaimed
  /\ slotsClaimed' + Cardinality(Seeking)' - pushed'
       <= slotsClaimed + Cardinality(Seeking) - pushed
  /\ claimed'[0] + claimed'[1] + Cardinality(held)' + Cardinality(Busy)' - pushed'
       <= claimed[0] + claimed[1] + Cardinality(held) + Cardinality(Busy) - pushed
  /\ \A v \in Vecs : size'[v] + Cardinality(Appending(v))' - claimed'[v]
       = size[v] + Cardinality(Appending(v)) - claimed[v]

\* Such a step keeps the budget, and the counters in their bounds.
LEMMA BudgetKept ==
  ASSUME IInv, Balanced
  PROVE  /\ Budget'
         /\ slotsClaimed' \in 0 .. MaxItems /\ slotsSize' \in 0 .. MaxItems
         /\ claimed' \in [Vecs -> 0 .. MaxItems] /\ size' \in [Vecs -> 0 .. MaxItems]
  <1> DEFINE F == Cardinality(Filling)  F1 == Cardinality(Filling)'
             S == Cardinality(Seeking)  S1 == Cardinality(Seeking)'
             B == Cardinality(Busy)     B1 == Cardinality(Busy)'
             H == Cardinality(held)     H1 == Cardinality(held)'
             A(v) == Cardinality(Appending(v))  A1(v) == Cardinality(Appending(v))'
             z1 == slotsSize'  c1 == slotsClaimed'  p1 == pushed'
             C(v) == claimed[v]  C1(v) == claimed'[v]  Z(v) == size[v]  Z1(v) == size'[v]
  <1>1. /\ F \in Nat /\ S \in Nat /\ B \in Nat /\ H \in Nat
        /\ \A v \in Vecs : A(v) \in Nat
    BY Counts, FS_CardinalityType DEF IInv
  <1>2. /\ slotsSize \in Nat /\ slotsClaimed \in Nat /\ pushed \in Nat
        /\ 0 \in Vecs /\ 1 \in Vecs
        /\ \A v \in Vecs : C(v) \in Nat /\ Z(v) \in Nat /\ v \in {0, 1}
        /\ MaxItems \in Nat
    BY Consts DEF IInv, TypeOK, Vecs
  <1>3. /\ slotsSize + F = slotsClaimed
        /\ slotsClaimed + S <= pushed
        /\ C(0) + C(1) + H + B <= pushed
        /\ \A v \in Vecs : Z(v) + A(v) = C(v)
    BY DEF IInv, Budget
  <1>4. /\ F1 \in Nat /\ S1 \in Nat /\ B1 \in Nat /\ H1 \in Nat
        /\ \A v \in Vecs : A1(v) \in Nat /\ C1(v) \in Nat /\ Z1(v) \in Nat
        /\ p1 \in Nat /\ p1 <= MaxItems /\ z1 \in Nat /\ c1 \in Nat
    BY <1>2 DEF Balanced
  <1>11. z1 + F1 - c1 = slotsSize + F - slotsClaimed
    BY DEF Balanced
  <1>12. c1 + S1 - p1 <= slotsClaimed + S - pushed
    BY DEF Balanced
  <1>13. C1(0) + C1(1) + H1 + B1 - p1 <= C(0) + C(1) + H + B - pushed
    BY DEF Balanced
  <1>14. \A v \in Vecs : Z1(v) + A1(v) - C1(v) = Z(v) + A(v) - C(v)
    BY DEF Balanced
  <1> HIDE DEF F, F1, S, S1, B, B1, H, H1, A, A1, z1, c1, p1, C, C1, Z, Z1
  <1>5. z1 + F1 = c1 /\ c1 + S1 <= p1
    BY <1>1, <1>2, <1>3, <1>4, <1>11, <1>12
  <1>6. C1(0) + C1(1) + H1 + B1 <= p1
    BY <1>1, <1>2, <1>3, <1>4, <1>13
  <1>7. ASSUME NEW v \in Vecs PROVE Z1(v) + A1(v) = C1(v)
    BY <1>1, <1>2, <1>3, <1>4, <1>14
  <1>8. Budget'
    BY <1>5, <1>6, <1>7 DEF Budget, F1, S1, H1, B1, A1, z1, c1, p1, C1, Z1
  <1>9. c1 \in 0 .. MaxItems /\ z1 \in 0 .. MaxItems
    BY <1>2, <1>4, <1>5
  <1>10. ASSUME NEW v \in Vecs
         PROVE  C1(v) \in 0 .. MaxItems /\ Z1(v) \in 0 .. MaxItems
    <2>1. C1(v) <= MaxItems
      <3>1. C1(0) \in Nat /\ C1(1) \in Nat /\ (v = 0 \/ v = 1)
        BY <1>2, <1>4
      <3>2. C1(0) <= MaxItems /\ C1(1) <= MaxItems
        BY <1>2, <1>4, <1>6, <3>1
      <3> QED
        BY <3>1, <3>2
    <2> QED
      BY <1>2, <1>4, <1>7, <2>1
  <1>15. claimed' \in [Vecs -> Nat] /\ size' \in [Vecs -> Nat]
    BY DEF Balanced
  <1> QED
    BY <1>8, <1>9, <1>10, <1>15 DEF z1, c1, C1, Z1

\* Only the calls between claim and announcement count as appending.
LEMMA NotAppending ==
  ASSUME NEW t \in Threads, NEW from, NEW to \in PCs, pc \in [Threads -> PCs],
         Step(t, from, to), \A u \in Threads \ {t} : loc'[u] = loc[u],
         from \notin {"dwrite", "dannounce"}, to \notin {"dwrite", "dannounce"}
  PROVE  \A v : Appending(v)' = Appending(v)
  <1>1. /\ pc[t] = from /\ pc'[t] = to
        /\ \A u \in Threads \ {t} : pc'[u] = pc[u]
    BY Moved
  <1> QED
    BY <1>1 DEF Appending, At, StoreVec

\* How a step moves a thread in the counts.
LEMMA CountMove ==
  ASSUME NEW t \in Threads, NEW from \in PCs, NEW to \in PCs, pc \in [Threads -> PCs],
         Step(t, from, to)
  PROVE  /\ Cardinality(Seeking)' \in Nat /\ Cardinality(Filling)' \in Nat
         /\ Cardinality(Busy)' \in Nat
         /\ Cardinality(Seeking)' = Cardinality(Seeking)
              + (IF to \in PushPC \ {"fill", "len", "announce"} THEN 1 ELSE 0)
              - (IF from \in PushPC \ {"fill", "len", "announce"} THEN 1 ELSE 0)
         /\ Cardinality(Filling)' = Cardinality(Filling)
              + (IF to \in {"fill", "len", "announce"} THEN 1 ELSE 0)
              - (IF from \in {"fill", "len", "announce"} THEN 1 ELSE 0)
         /\ Cardinality(Busy)' = Cardinality(Busy)
              + (IF to \in (PushPC \cup DeletePC) \ {"dwrite", "dannounce", "count"}
                 THEN 1 ELSE 0)
              - (IF from \in (PushPC \cup DeletePC) \ {"dwrite", "dannounce", "count"}
                 THEN 1 ELSE 0)
  <1>1. ASSUME NEW S
        PROVE  /\ Cardinality(At(S))' \in Nat
               /\ Cardinality(At(S))' = Cardinality(At(S))
                    + (IF to \in S THEN 1 ELSE 0) - (IF from \in S THEN 1 ELSE 0)
    <2> DEFINE n == Cardinality(At(S))
               m == Cardinality(At(S))'
    <2>1. n \in Nat /\ m \in Nat
      BY AtMove
    <2>2. (from \in S <=> to \in S) => m = n
      BY AtMove
    <2>3. from \in S /\ to \notin S => m = n - 1
      BY AtMove
    <2>4. from \notin S /\ to \in S => m = n + 1
      BY AtMove
    <2> HIDE DEF n, m
    <2>5. m = n + (IF to \in S THEN 1 ELSE 0) - (IF from \in S THEN 1 ELSE 0)
      BY <2>1, <2>2, <2>3, <2>4
    <2> QED
      BY <2>1, <2>5 DEF n, m
  <1> QED
    BY <1>1 DEF Seeking, Filling, Busy

\* By how much a step changes what the budget counts, when no cell is claimed or announced.
Delta(seek, fill, busy, hold, push, claim, announce) ==
  /\ Cardinality(Seeking)' = Cardinality(Seeking) + seek
  /\ Cardinality(Filling)' = Cardinality(Filling) + fill
  /\ Cardinality(Busy)' = Cardinality(Busy) + busy
  /\ Cardinality(held)' \in Nat /\ Cardinality(held)' <= Cardinality(held) + hold
  /\ pushed' = pushed + push /\ pushed' <= MaxItems
  /\ slotsClaimed' = slotsClaimed + claim
  /\ slotsSize' = slotsSize + announce
  /\ claimed' = claimed /\ size' = size
  /\ \A v \in Vecs : Appending(v)' = Appending(v)

\* Numbers that cancel.
LEMMA Cancel ==
  ASSUME IInv,
         NEW seek \in Int, NEW fill \in Int, NEW busy \in Int, NEW hold \in Int,
         NEW push \in Nat, NEW claim \in Nat, NEW announce \in Nat,
         Delta(seek, fill, busy, hold, push, claim, announce),
         fill + announce = claim, claim + seek <= push, hold + busy <= push,
         Cardinality(Seeking)' \in Nat, Cardinality(Filling)' \in Nat,
         Cardinality(Busy)' \in Nat
  PROVE  Balanced
  <1> DEFINE F == Cardinality(Filling)  F1 == Cardinality(Filling)'
             S == Cardinality(Seeking)  S1 == Cardinality(Seeking)'
             B == Cardinality(Busy)     B1 == Cardinality(Busy)'
             H == Cardinality(held)     H1 == Cardinality(held)'
             z1 == slotsSize'  c1 == slotsClaimed'  p1 == pushed'
             C(v) == claimed[v]
  <1>1. /\ F \in Nat /\ S \in Nat /\ B \in Nat /\ H \in Nat
        /\ F1 \in Nat /\ S1 \in Nat /\ B1 \in Nat /\ H1 \in Nat
        /\ \A v \in Vecs : Cardinality(Appending(v)) \in Nat
    BY Counts, FS_CardinalityType DEF IInv, Delta
  <1>2. /\ slotsSize \in Nat /\ slotsClaimed \in Nat /\ pushed \in Nat /\ MaxItems \in Nat
        /\ claimed \in [Vecs -> Nat] /\ size \in [Vecs -> Nat] /\ C(0) \in Nat /\ C(1) \in Nat
    BY Consts DEF IInv, TypeOK, Vecs
  <1>3. /\ S1 = S + seek /\ F1 = F + fill /\ B1 = B + busy /\ H1 <= H + hold
        /\ p1 = pushed + push /\ p1 <= MaxItems
        /\ c1 = slotsClaimed + claim /\ z1 = slotsSize + announce
    BY DEF Delta
  <1>4. claimed' = claimed /\ size' = size /\ \A v \in Vecs : Appending(v)' = Appending(v)
    BY DEF Delta
  <1>5. \A v \in Vecs : /\ Cardinality(Appending(v))' = Cardinality(Appending(v))
                        /\ claimed'[v] = claimed[v] /\ size'[v] = size[v]
    BY <1>4
  <1> HIDE DEF F, F1, S, S1, B, B1, H, H1, z1, c1, p1, C
  <1>6. /\ z1 \in Nat /\ c1 \in Nat /\ p1 \in 0 .. MaxItems
        /\ z1 + F1 - c1 = slotsSize + F - slotsClaimed
        /\ c1 + S1 - p1 <= slotsClaimed + S - pushed
    BY <1>1, <1>2, <1>3
  <1>7. C(0) + C(1) + H1 + B1 - p1 <= C(0) + C(1) + H + B - pushed
    BY <1>1, <1>2, <1>3
  <1>8. \A v \in Vecs : /\ Cardinality(Appending(v))' \in Nat
                        /\ size'[v] + Cardinality(Appending(v))' - claimed'[v]
                             = size[v] + Cardinality(Appending(v)) - claimed[v]
    BY <1>1, <1>5
  <1>9. claimed' \in [Vecs -> Nat] /\ size' \in [Vecs -> Nat]
    BY <1>2, <1>4
  <1>10. claimed'[0] + claimed'[1] + H1 + B1 - p1
           <= claimed[0] + claimed[1] + H + B - pushed
    BY <1>4, <1>7 DEF C
  <1> QED
    BY <1>1, <1>6, <1>8, <1>9, <1>10 DEF Balanced, F, F1, S, S1, B, B1, H, H1, z1, c1, p1

\* The pairs callers hold change one at a time.
LEMMA Holding ==
  ASSUME IsFiniteSet(held), NEW h
  PROVE  /\ Cardinality(held) \in Nat
         /\ /\ Cardinality(held \cup {h}) \in Nat
            /\ Cardinality(held \cup {h}) <= Cardinality(held) + 1
         /\ /\ Cardinality(held \ {h}) \in Nat
            /\ Cardinality(held \ {h}) <= Cardinality(held)
            /\ h \in held => Cardinality(held \ {h}) = Cardinality(held) - 1
  <1>1. /\ Cardinality(held) \in Nat
        /\ IsFiniteSet(held \cup {h}) /\ IsFiniteSet(held \ {h})
    BY FS_AddElement, FS_RemoveElement, FS_CardinalityType
  <1>2. Cardinality(held \cup {h}) \in Nat /\ Cardinality(held \ {h}) \in Nat
    BY <1>1, FS_CardinalityType
  <1>3. Cardinality(held \cup {h}) <= Cardinality(held) + 1
    <2>1. CASE h \in held
      <3>1. held \cup {h} = held
        BY <2>1
      <3> QED
        BY <1>1, <3>1
    <2>2. CASE h \notin held
      BY <1>1, <2>2, FS_AddElement
    <2> QED
      BY <2>1, <2>2
  <1>4. h \in held => Cardinality(held \ {h}) = Cardinality(held) - 1
    BY FS_RemoveElement
  <1>5. Cardinality(held \ {h}) <= Cardinality(held)
    <2>1. CASE h \notin held
      <3>1. held \ {h} = held
        BY <2>1
      <3> QED
        BY <1>1, <3>1
    <2>2. CASE h \in held
      BY <1>1, <1>4, <2>2
    <2> QED
      BY <2>1, <2>2
  <1> QED
    BY <1>1, <1>2, <1>3, <1>4, <1>5

\* How a step from one place to another moves a thread in the counts.
By(S, from, to) == (IF to \in S THEN 1 ELSE 0) - (IF from \in S THEN 1 ELSE 0)

\* What a step that claims and announces no cell does to the clients and the slots.
Changes(hold, push, claim, announce) ==
  /\ Cardinality(held)' \in Nat /\ Cardinality(held)' <= Cardinality(held) + hold
  /\ pushed' = pushed + push /\ pushed' <= MaxItems
  /\ slotsClaimed' = slotsClaimed + claim
  /\ slotsSize' = slotsSize + announce
  /\ claimed' = claimed /\ size' = size

\* Such a step moves its thread by as much.
Pays(from, to, hold, push, claim, announce) ==
  /\ from \in PCs \ {"dwrite", "dannounce"} /\ to \in PCs \ {"dwrite", "dannounce"}
  /\ hold \in Int /\ push \in Nat /\ claim \in Nat /\ announce \in Nat
  /\ By({"fill", "len", "announce"}, from, to) + announce = claim
  /\ claim + By(PushPC \ {"fill", "len", "announce"}, from, to) <= push
  /\ hold + By((PushPC \cup DeletePC) \ {"dwrite", "dannounce", "count"}, from, to) <= push

\* Then the budget is kept.
LEMMA Paid ==
  ASSUME IInv, NEW t \in Threads, NEW from, NEW to, Step(t, from, to),
         \A u \in Threads \ {t} : loc'[u] = loc[u],
         NEW hold, NEW push, NEW claim, NEW announce,
         Changes(hold, push, claim, announce), Pays(from, to, hold, push, claim, announce)
  PROVE  Balanced
  <1> DEFINE fill == By({"fill", "len", "announce"}, from, to)
             seek == By(PushPC \ {"fill", "len", "announce"}, from, to)
             busy == By((PushPC \cup DeletePC) \ {"dwrite", "dannounce", "count"}, from, to)
  <1>1. /\ from \in PCs /\ to \in PCs /\ pc \in [Threads -> PCs]
        /\ from \notin {"dwrite", "dannounce"} /\ to \notin {"dwrite", "dannounce"}
        /\ hold \in Int /\ push \in Nat /\ claim \in Nat /\ announce \in Nat
    BY DEF Pays, IInv, TypeOK, PCs
  <1>2. /\ fill \in Int /\ seek \in Int /\ busy \in Int
        /\ fill + announce = claim /\ claim + seek <= push /\ hold + busy <= push
    BY DEF Pays, By
  <1>3. /\ Cardinality(Seeking)' \in Nat /\ Cardinality(Filling)' \in Nat
        /\ Cardinality(Busy)' \in Nat
        /\ Cardinality(Seeking) \in Nat /\ Cardinality(Filling) \in Nat
        /\ Cardinality(Busy) \in Nat
    BY <1>1, CountMove, Counts
  <1>4. Cardinality(Seeking)' = Cardinality(Seeking) + seek
    BY <1>1, <1>3, CountMove DEF By
  <1>5. Cardinality(Filling)' = Cardinality(Filling) + fill
    BY <1>1, <1>3, CountMove DEF By
  <1>6. Cardinality(Busy)' = Cardinality(Busy) + busy
    BY <1>1, <1>3, CountMove DEF By
  <1>7. \A v \in Vecs : Appending(v)' = Appending(v)
    BY <1>1, NotAppending
  <1> HIDE DEF fill, seek, busy
  <1>8. Delta(seek, fill, busy, hold, push, claim, announce)
    BY <1>4, <1>5, <1>6, <1>7 DEF Delta, Changes
  <1> QED
    BY <1>1, <1>2, <1>3, <1>8, Cancel

\* Only a thread's own locals are set.
LEMMA OwnLocals ==
  ASSUME Calls, NEW t \in Threads
  PROVE  /\ \A l : Set(t, l) => \A u \in Threads \ {t} : loc'[u] = loc[u]
         /\ UNCHANGED loc => \A u \in Threads \ {t} : loc'[u] = loc[u]
         /\ \A from : Return(t, from) =>
              /\ Step(t, from, "idle")
              /\ \A u \in Threads \ {t} : loc'[u] = loc[u]
  <1>1. loc \in [Threads -> Locals]
    BY DEF Calls
  <1> QED
    BY <1>1 DEF Set, Return

\* The lookup moves no count.
LEMMA LookupBalanced ==
  ASSUME IInv, NEW t \in Threads, Lookup(t)
  PROVE  Balanced /\ UNCHANGED <<slots, held>> /\ pushed' \in 0 .. MaxItems
  <1> DEFINE P == PushPC \ {"fill", "len", "announce"}
  <1>1. \E from \in P, to \in P : Step(t, from, to)
    BY DEF Lookup, LoadKey, StoreKey, LoadMax, Drained, Refill, Swap, ResetLoad, ResetStore,
           RangeLo, RangeHi, Peek, Take, StillSame, SkipTaken, Advance, AfterLookup, PushPC
  <1>2. UNCHANGED <<claimed, size, slots, slotsClaimed, slotsSize, held, pushed>>
    BY DEF Lookup, LoadKey, StoreKey, LoadMax, Drained, Refill, Swap, ResetLoad, ResetStore,
           RangeLo, RangeHi, Peek, Take, StillSame, SkipTaken, Advance, free, items, clients
  <1>3. \A u \in Threads \ {t} : loc'[u] = loc[u]
    BY OwnLocals DEF IInv, Lookup, LoadKey, StoreKey, LoadMax, Drained, Refill, Swap, ResetLoad,
           ResetStore, RangeLo, RangeHi, Peek, Take, StillSame, SkipTaken, Advance
  <1>4. Changes(0, 0, 0, 0)
    <2>1. /\ Cardinality(held) \in Nat /\ pushed \in Nat /\ pushed <= MaxItems
          /\ slotsClaimed \in Nat /\ slotsSize \in Nat
      BY Counts, FS_CardinalityType, Consts DEF IInv, TypeOK
    <2> QED
      BY <1>2, <2>1 DEF Changes
  <1>5. ASSUME NEW from \in P, NEW to \in P PROVE Pays(from, to, 0, 0, 0, 0)
    <2>1. /\ from \in PCs \ {"dwrite", "dannounce"} /\ to \in PCs \ {"dwrite", "dannounce"}
          /\ By({"fill", "len", "announce"}, from, to) = 0
      BY DEF PCs, PushPC, DeletePC, By
    <2>2. By(PushPC \ {"fill", "len", "announce"}, from, to) = 0
      BY DEF By
    <2>3. By((PushPC \cup DeletePC) \ {"dwrite", "dannounce", "count"}, from, to) = 0
      BY <2>1 DEF By, PushPC, DeletePC
    <2> QED
      BY <2>1, <2>2, <2>3 DEF Pays
  <1>6. pushed' \in 0 .. MaxItems
    BY <1>2, Consts DEF IInv, TypeOK
  <1> QED
    BY <1>1, <1>2, <1>3, <1>4, <1>5, <1>6, Paid

\* What the walks go by are numbers.
LEMMA WalkTypes ==
  ASSUME TypeOK, NEW t \in Threads, PushStart(t) \/ DeleteStart(t) \/ Push(t) \/ Delete(t)
  PROVE  slotsLen' \in Nat /\ chunk' \in [Threads -> Nat]
  <1>1. slotsLen \in Nat /\ chunk \in [Threads -> Nat]
    BY DEF TypeOK
  <1>2. ASSUME UNCHANGED items PROVE slotsLen' \in Nat /\ chunk' \in [Threads -> Nat]
    BY <1>1, <1>2 DEF items
  <1>3. ASSUME NEW n \in Nat, slotsLen' \in {slotsLen, slotsLen + 1},
               chunk' = chunk \/ chunk' = [chunk EXCEPT ![t] = n]
        PROVE  slotsLen' \in Nat /\ chunk' \in [Threads -> Nat]
    BY <1>1, <1>3
  <1>4. /\ chunk[t] + 1 \in Nat /\ 0 \in Nat
        /\ [chunk EXCEPT ![t] = @ + 1] = [chunk EXCEPT ![t] = chunk[t] + 1]
        /\ [chunk EXCEPT ![t] = @] = chunk
    BY <1>1
  <1>5. CASE ReachReused(t) \/ ReachDeleted(t)
    <2>1. /\ slotsLen' = slotsLen
          /\ chunk' = [chunk EXCEPT ![t] = @ + 1] \/ chunk' = [chunk EXCEPT ![t] = 0]
      BY <1>5, Walking DEF ReachReused, ReachDeleted
    <2> QED
      BY <1>3, <1>4, <2>1
  <1>6. CASE LoadSlots(t)
    <2>1. /\ slotsLen' = slotsLen
          /\ chunk' = [chunk EXCEPT ![t] = @ + 1] \/ chunk' = [chunk EXCEPT ![t] = @]
      BY <1>6 DEF LoadSlots
    <2> QED
      BY <1>3, <1>4, <2>1
  <1>7. CASE CountSlot(t)
    <2>1. slotsLen' \in {slotsLen, slotsLen + 1} /\ chunk' = [chunk EXCEPT ![t] = 0]
      BY <1>7 DEF CountSlot
    <2> QED
      BY <1>3, <1>4, <2>1
  <1>8. CASE Reuse(t) \/ ClaimSlot(t) \/ FillSlot(t) \/ AnnounceSlot(t) \/ Disable(t)
    BY <1>1, <1>8 DEF Reuse, ClaimSlot, FillSlot, AnnounceSlot, Disable
  <1>9. CASE Lookup(t) \/ PushStart(t) \/ DeleteStart(t) \/ UndoSlot(t)
    <2>1. UNCHANGED items
      BY <1>9 DEF Lookup, LoadKey, StoreKey, LoadMax, Drained, Refill, Swap, ResetLoad,
         ResetStore, RangeLo, RangeHi, Peek, Take, StillSame, SkipTaken, Advance, PushStart,
         DeleteStart, UndoSlot
    <2> QED
      BY <1>2, <2>1
  <1>10. CASE \/ DStoreKey(t) \/ CheckStore(t) \/ DRange(t) \/ DPeek(t) \/ Put(t) \/ DSame(t)
              \/ DSkip(t) \/ Append(t) \/ AppendWrite(t) \/ AppendAnnounce(t) \/ CountKey(t)
    <2>1. UNCHANGED items
      BY <1>10 DEF DStoreKey, CheckStore, DRange, DPeek, Put, DSame, DSkip, Append,
         AppendWrite, AppendAnnounce, CountKey
    <2> QED
      BY <1>2, <2>1
  <1> QED
    BY <1>5, <1>6, <1>7, <1>8, <1>9, <1>10 DEF Push, Delete, Lookup

\* What is left of the invariant once the calls and the budget are kept.
LEMMA Assemble ==
  ASSUME IInv, Balanced, Calls', pc' \in [Threads -> PCs], idx' \in 0 .. MaxSwaps,
         storeIter' \in [Vecs -> Nat], loadIter' \in [Vecs -> Nat],
         slotsLen' \in Nat, chunk' \in [Threads -> Nat],
         cells' \in [Vecs -> [Positions -> Keys]],
         slots' \in [Positions -> Items \cup {0}], held' \subseteq Keys \X Items
  PROVE  IInv'
  <1>1. /\ Budget'
        /\ slotsClaimed' \in 0 .. MaxItems /\ slotsSize' \in 0 .. MaxItems
        /\ claimed' \in [Vecs -> 0 .. MaxItems] /\ size' \in [Vecs -> 0 .. MaxItems]
    BY BudgetKept
  <1>2. pushed' \in 0 .. MaxItems
    BY DEF Balanced
  <1>3. TypeOK'
    BY <1>1, <1>2 DEF TypeOK, PCs
  <1> QED
    BY <1>1, <1>3 DEF IInv

\* Counters and cells are written with numbers and keys.
LEMMA Written ==
  /\ \A f \in [Vecs -> Nat], v \in Vecs, n \in Nat : [f EXCEPT ![v] = n] \in [Vecs -> Nat]
  /\ \A f \in [Vecs -> Nat], v \in Vecs, n \in Nat :
       [f EXCEPT ![v] = @ + n] \in [Vecs -> Nat]
  OBVIOUS

\* So does the table of cells when a key is written.
LEMMA CellWritten ==
  ASSUME cells \in [Vecs -> [Positions -> Keys]], NEW v \in Vecs, NEW p, NEW k \in Keys
  PROVE  [cells EXCEPT ![v][p] = k] \in [Vecs -> [Positions -> Keys]]
  <1>1. [cells[v] EXCEPT ![p] = k] \in [Positions -> Keys]
    OBVIOUS
  <1> QED
    BY <1>1

\* The counters and the cells the lookup writes keep their types.
LEMMA LookupTypes ==
  ASSUME IInv, NEW t \in Threads, Lookup(t)
  PROVE  /\ storeIter' \in [Vecs -> Nat] /\ loadIter' \in [Vecs -> Nat]
         /\ cells' \in [Vecs -> [Positions -> Keys]]
  <1> DEFINE v == LoadVec(t)
             w == StoreVec(t)
             l == loc[t]
  <1>1. /\ storeIter \in [Vecs -> Nat] /\ loadIter \in [Vecs -> Nat]
        /\ cells \in [Vecs -> [Positions -> Keys]]
        /\ v \in Vecs /\ w \in Vecs /\ l.miss \in Nat /\ l.i \in Nat
    BY CallAt DEF IInv
  <1>2. \/ UNCHANGED <<storeIter, loadIter, cells>>
        \/ loadIter' = [loadIter EXCEPT ![w] = 0] /\ UNCHANGED <<storeIter, cells>>
        \/ storeIter' = [storeIter EXCEPT ![v] = 0] /\ UNCHANGED <<loadIter, cells>>
        \/ loadIter' = [loadIter EXCEPT ![v] = @ + l.miss] /\ UNCHANGED <<storeIter, cells>>
        \/ loadIter' = [loadIter EXCEPT ![v] = @ + 1] /\ UNCHANGED <<storeIter, cells>>
        \/ Take(t)
    BY DEF Lookup, LoadKey, StoreKey, LoadMax, Drained, Refill, Swap, ResetLoad, ResetStore,
           RangeLo, RangeHi, Peek, StillSame, SkipTaken, Advance, free
  <1>3. CASE Take(t)
    <2>1. UNCHANGED <<storeIter, loadIter>>
      BY <1>3 DEF Take
    <2>2. cells' = cells \/ cells' = [cells EXCEPT ![v][l.i] = 0]
      BY <1>3 DEF Take
    <2> HIDE DEF v, l
    <2>3. cells' \in [Vecs -> [Positions -> Keys]]
      <3>1. [cells EXCEPT ![v][l.i] = 0] \in [Vecs -> [Positions -> Keys]]
        BY <1>1, CellWritten, Consts
      <3> QED
        BY <1>1, <2>2, <3>1
    <2> QED
      BY <1>1, <2>1, <2>3
  <1> HIDE DEF v, w, l
  <1>4. CASE ~Take(t)
    <2>1. storeIter' \in [Vecs -> Nat]
      BY <1>1, <1>2, <1>4, Written
    <2>2. loadIter' \in [Vecs -> Nat]
      BY <1>1, <1>2, <1>4, Written
    <2>3. cells' \in [Vecs -> [Positions -> Keys]]
      BY <1>1, <1>2, <1>4
    <2> QED
      BY <2>1, <2>2, <2>3
  <1> QED
    BY <1>3, <1>4

\* The lookup keeps the invariant.
LEMMA LookupInv ==
  ASSUME IInv, NEW t \in Threads, Lookup(t)
  PROVE  IInv'
  <1>1. Calls' /\ pc' \in [Threads -> PCs] /\ idx' \in 0 .. MaxSwaps
    BY LookupCalls DEF IInv
  <1>2. Balanced /\ slots' = slots /\ held' = held
    BY LookupBalanced
  <1>3. slots' \in [Positions -> Items \cup {0}] /\ held' \subseteq Keys \X Items
    BY <1>2 DEF IInv, TypeOK
  <1>4. slotsLen' \in Nat /\ chunk' \in [Threads -> Nat]
    BY WalkTypes DEF IInv, Push, Lookup
  <1> QED
    BY <1>1, <1>2, <1>3, <1>4, LookupTypes, Assemble

\* Numbers the budget is made of, before a step.
LEMMA Numbers ==
  ASSUME IInv
  PROVE  /\ IsFiniteSet(held) /\ Cardinality(held) \in Nat
         /\ pushed \in Nat /\ pushed <= MaxItems
         /\ slotsClaimed \in Nat /\ slotsClaimed <= MaxItems
         /\ slotsSize \in Nat /\ slotsSize <= MaxItems
         /\ idx \in 0 .. MaxSwaps
  BY Counts, FS_CardinalityType, Consts DEF IInv, TypeOK

\* A claim of a slot, and the announcement of one, finds room.
LEMMA Room ==
  ASSUME IInv, NEW t \in Threads
  PROVE  /\ pc[t] \in PushPC \ {"fill", "len", "announce"} => slotsClaimed < MaxItems
         /\ pc[t] \in {"fill", "len", "announce"} => slotsSize < slotsClaimed
         /\ slotsSize <= slotsClaimed
  <1> DEFINE S == Cardinality(Seeking)
             F == Cardinality(Filling)
  <1>1. S \in Nat /\ F \in Nat
    BY Counts
  <1>2. slotsSize + F = slotsClaimed /\ slotsClaimed + S <= pushed
    BY DEF IInv, Budget
  <1>3. ASSUME pc[t] \in PushPC \ {"fill", "len", "announce"} PROVE S # 0
    <2>1. t \in Seeking /\ IsFiniteSet(Seeking)
      BY <1>3, AtFinite DEF Seeking, At
    <2> QED
      BY <2>1, FS_EmptySet
  <1>4. ASSUME pc[t] \in {"fill", "len", "announce"} PROVE F # 0
    <2>1. t \in Filling /\ IsFiniteSet(Filling)
      BY <1>4, AtFinite DEF Filling, At
    <2> QED
      BY <2>1, FS_EmptySet
  <1>5. /\ pushed \in Nat /\ pushed <= MaxItems /\ slotsClaimed \in Nat /\ slotsSize \in Nat
        /\ MaxItems \in Nat
    BY Numbers, Consts
  <1> HIDE DEF S, F
  <1> QED
    BY <1>1, <1>2, <1>3, <1>4, <1>5

\* The pushes outside of the lookup keep the invariant.
LEMMA PushInv ==
  ASSUME IInv, NEW t \in Threads,
         PushStart(t) \/ Storing(t)
  PROVE  IInv'
  <1> DEFINE l == loc[t]
  <1>1. Calls' /\ pc' \in [Threads -> PCs] /\ idx' \in 0 .. MaxSwaps
    BY PushCalls, Numbers DEF IInv
  <1>2. UNCHANGED <<storeIter, loadIter, cells, claimed, size>>
    BY Walking DEF PushStart, Storing, ReachReused, Reuse, LoadSlots, ClaimSlot, UndoSlot,
       FillSlot, CountSlot, AnnounceSlot, free
  <1>3. /\ storeIter' \in [Vecs -> Nat] /\ loadIter' \in [Vecs -> Nat]
        /\ cells' \in [Vecs -> [Positions -> Keys]]
    BY <1>2 DEF IInv, TypeOK
  <1>4. \A u \in Threads \ {t} : loc'[u] = loc[u]
    BY OwnLocals, Walking DEF IInv, PushStart, Storing, ReachReused, Reuse, LoadSlots,
       ClaimSlot, UndoSlot, FillSlot, CountSlot, AnnounceSlot
  <1>5. /\ slots \in [Positions -> Items \cup {0}] /\ held \subseteq Keys \X Items
        /\ l.key \in Keys /\ l.item \in Items \cup {0} /\ l.at \in Nat
        /\ Fits(pc[t], l, idx)
    BY CallAt DEF IInv, TypeOK
  <1>6. slotsLen' \in Nat /\ chunk' \in [Threads -> Nat]
    BY WalkTypes DEF IInv, Push, Storing
  <1>7. ASSUME NEW from, NEW to, Step(t, from, to),
               <<from, to>> \in {<<"reach", "reach">>, <<"reach", "reuse">>, <<"claim", "fetch">>,
                                  <<"fetch", "undo">>, <<"undo", "claim">>, <<"len", "announce">>},
               UNCHANGED <<slots, slotsClaimed, slotsSize, held, pushed>>
        PROVE  IInv'
    <2>1. Changes(0, 0, 0, 0)
      BY <1>2, <1>7, Numbers, Consts DEF Changes
    <2>2. Pays(from, to, 0, 0, 0, 0)
      BY <1>7 DEF Pays, By, PCs, PushPC, DeletePC
    <2>3. Balanced
      BY <1>4, <1>7, <2>1, <2>2, Paid
    <2> QED
      BY <1>1, <1>3, <1>5, <1>6, <1>7, <2>3, Assemble
  <1>8. CASE ReachReused(t)
    BY <1>7, <1>8, Walking DEF ReachReused
  <1>9. CASE LoadSlots(t) \/ UndoSlot(t) \/ CountSlot(t)
    BY <1>7, <1>9 DEF LoadSlots, UndoSlot, CountSlot, items, clients
  <1>10. CASE PushStart(t)
    <2>1. /\ Step(t, "idle", "load") /\ pushed' = pushed + 1 /\ pushed < MaxItems
          /\ UNCHANGED <<slots, slotsClaimed, slotsSize, held>>
      BY <1>10 DEF PushStart, items
    <2>2. Changes(0, 1, 0, 0)
      BY <1>2, <2>1, Numbers, Consts DEF Changes
    <2>3. Pays("idle", "load", 0, 1, 0, 0)
      BY DEF Pays, By, PCs, PushPC, DeletePC
    <2>4. Balanced
      BY <1>4, <2>1, <2>2, <2>3, Paid
    <2> QED
      BY <1>1, <1>3, <1>5, <1>6, <2>1, <2>4, Assemble
  <1>11. CASE Reuse(t)
    <2>1. /\ Step(t, "reuse", "idle") /\ held' = held \cup {<<l.key, l.item>>}
          /\ slots' = [slots EXCEPT ![l.at] = l.item]
          /\ UNCHANGED <<slotsClaimed, slotsSize, pushed>>
      BY <1>11 DEF Reuse, Return
    <2>2. Changes(1, 0, 0, 0)
      <3> DEFINE h == <<l.key, l.item>>
      <3>1. held' = held \cup {h}
        BY <2>1
      <3> HIDE DEF h
      <3>2. Cardinality(held)' \in Nat /\ Cardinality(held)' <= Cardinality(held) + 1
        BY <3>1, Numbers, Holding
      <3> QED
        BY <1>2, <2>1, <3>2, Numbers DEF Changes
    <2>3. Pays("reuse", "idle", 1, 0, 0, 0)
      BY DEF Pays, By, PCs, PushPC, DeletePC
    <2>4. Balanced
      BY <1>4, <2>1, <2>2, <2>3, Paid
    <2>5. l.item \in Items
      BY <1>5, <2>1 DEF Step, Fits, PushPC
    <2>6. slots' \in [Positions -> Items \cup {0}]
      <3> DEFINE p == l.at
      <3>1. slots' = [slots EXCEPT ![p] = l.item]
        BY <2>1
      <3> HIDE DEF p, l
      <3> QED
        BY <1>5, <2>5, <3>1
    <2>7. held' \subseteq Keys \X Items
      <3>1. <<l.key, l.item>> \in Keys \X Items
        BY <1>5, <2>5
      <3> QED
        BY <1>5, <2>1, <3>1
    <2> QED
      BY <1>1, <1>3, <1>6, <2>4, <2>6, <2>7, Assemble
  <1>12. CASE ClaimSlot(t)
    <2>1. /\ UNCHANGED <<slots, slotsSize, held, pushed>>
          /\ \/ Step(t, "fetch", "undo") /\ UNCHANGED slotsClaimed
             \/ Step(t, "fetch", "fill") /\ slotsClaimed' = slotsClaimed + 1
      BY <1>12 DEF ClaimSlot, clients
    <2>2. CASE Step(t, "fetch", "fill") /\ slotsClaimed' = slotsClaimed + 1
      <3>1. Changes(0, 0, 1, 0)
        BY <1>2, <2>1, <2>2, Numbers, Consts DEF Changes
      <3>2. Pays("fetch", "fill", 0, 0, 1, 0)
        BY DEF Pays, By, PCs, PushPC, DeletePC
      <3>3. Balanced
        BY <1>4, <2>2, <3>1, <3>2, Paid
      <3> QED
        BY <1>1, <1>3, <1>5, <1>6, <2>1, <3>3, Assemble
    <2> QED
      BY <1>7, <2>1, <2>2
  <1>13. CASE FillSlot(t)
    <2>1. /\ Step(t, "fill", "len") /\ slots' = [slots EXCEPT ![l.at] = l.item]
          /\ UNCHANGED <<slotsClaimed, slotsSize, held, pushed>>
      BY <1>13 DEF FillSlot, clients
    <2>2. Changes(0, 0, 0, 0)
      BY <1>2, <2>1, Numbers, Consts DEF Changes
    <2>3. Pays("fill", "len", 0, 0, 0, 0)
      BY DEF Pays, By, PCs, PushPC, DeletePC
    <2>4. Balanced
      BY <1>4, <2>1, <2>2, <2>3, Paid
    <2>5. slots' \in [Positions -> Items \cup {0}] /\ held' \subseteq Keys \X Items
      BY <1>5, <2>1
    <2> QED
      BY <1>1, <1>3, <1>6, <2>4, <2>5, Assemble
  <1>14. CASE AnnounceSlot(t)
    <2> DEFINE k == (slotsSize + 1) % KeySpace
    <2>1. /\ Step(t, "announce", "idle") /\ slotsSize' = slotsSize + 1
          /\ held' = held \cup {<<k, l.item>>}
          /\ UNCHANGED <<slots, slotsClaimed, pushed>>
      BY <1>14 DEF AnnounceSlot, Return
    <2>2. k \in Keys
      BY Numbers, Consts DEF Keys
    <2> HIDE DEF k
    <2>3. Changes(1, 0, 0, 1)
      <3> DEFINE h == <<k, l.item>>
      <3>1. held' = held \cup {h}
        BY <2>1
      <3> HIDE DEF h
      <3>2. Cardinality(held)' \in Nat /\ Cardinality(held)' <= Cardinality(held) + 1
        BY <3>1, Numbers, Holding
      <3>3. pushed' = pushed + 0 /\ slotsClaimed' = slotsClaimed + 0
        BY <2>1, Numbers
      <3> QED
        BY <1>2, <2>1, <3>2, <3>3, Numbers DEF Changes
    <2>4. Pays("announce", "idle", 1, 0, 0, 1)
      BY DEF Pays, By, PCs, PushPC, DeletePC
    <2>5. Balanced
      BY <1>4, <2>1, <2>3, <2>4, Paid
    <2>6. l.item \in Items
      BY <1>5, <2>1 DEF Step, Fits, PushPC
    <2>7. slots' \in [Positions -> Items \cup {0}] /\ held' \subseteq Keys \X Items
      BY <1>5, <2>1, <2>2, <2>6
    <2> QED
      BY <1>1, <1>3, <1>6, <2>5, <2>7, Assemble
  <1> QED
    BY <1>8, <1>9, <1>10, <1>11, <1>12, <1>13, <1>14 DEF Storing

\* By how much a step that claims or announces a cell of v changes the counts.
CellDelta(v, busy, append, claim, announce) ==
  /\ Cardinality(Seeking)' = Cardinality(Seeking)
  /\ Cardinality(Filling)' = Cardinality(Filling)
  /\ Cardinality(Busy)' = Cardinality(Busy) + busy
  /\ UNCHANGED <<held, pushed, slotsClaimed, slotsSize>>
  /\ claimed' = [claimed EXCEPT ![v] = @ + claim]
  /\ size' = [size EXCEPT ![v] = @ + announce]
  /\ Cardinality(Appending(v))' = Cardinality(Appending(v)) + append
  /\ \A w \in Vecs \ {v} : Appending(w)' = Appending(w)

\* A change at one free vector that pays for itself keeps the budget.
LEMMA CellCancel ==
  ASSUME IInv, NEW v \in Vecs,
         NEW busy \in Int, NEW append \in Int, NEW claim \in Nat, NEW announce \in Nat,
         CellDelta(v, busy, append, claim, announce),
         announce + append = claim, claim + busy <= 0,
         Cardinality(Busy)' \in Nat, Cardinality(Appending(v))' \in Nat
  PROVE  Balanced
  <1> DEFINE F == Cardinality(Filling)  F1 == Cardinality(Filling)'
             S == Cardinality(Seeking)  S1 == Cardinality(Seeking)'
             B == Cardinality(Busy)     B1 == Cardinality(Busy)'
             H == Cardinality(held)     H1 == Cardinality(held)'
             A(w) == Cardinality(Appending(w))  A1(w) == Cardinality(Appending(w))'
             z1 == slotsSize'  c1 == slotsClaimed'  p1 == pushed'
             C(w) == claimed[w]  C1(w) == claimed'[w]  Z(w) == size[w]  Z1(w) == size'[w]
  <1>1. /\ F \in Nat /\ S \in Nat /\ B \in Nat /\ B1 \in Nat /\ A1(v) \in Nat
        /\ \A w \in Vecs : A(w) \in Nat
    BY Counts
  <1>2. /\ H \in Nat /\ slotsSize \in Nat /\ slotsClaimed \in Nat
        /\ pushed \in 0 .. MaxItems
    BY Numbers, Consts
  <1>3. /\ claimed \in [Vecs -> Nat] /\ size \in [Vecs -> Nat] /\ Vecs = {0, 1}
    BY Consts DEF IInv, TypeOK, Vecs
  <1>4. /\ F1 = F /\ S1 = S /\ B1 = B + busy /\ H1 = H /\ p1 = pushed
        /\ c1 = slotsClaimed /\ z1 = slotsSize
        /\ A1(v) = A(v) + append
        /\ \A w \in Vecs \ {v} : A1(w) = A(w)
    BY DEF CellDelta
  <1>5. /\ claimed' \in [Vecs -> Nat] /\ size' \in [Vecs -> Nat]
        /\ C1(v) = C(v) + claim /\ Z1(v) = Z(v) + announce
        /\ \A w \in Vecs \ {v} : C1(w) = C(w) /\ Z1(w) = Z(w)
    BY <1>3, Written DEF CellDelta
  <1>6. \A w \in Vecs : C(w) \in Nat /\ Z(w) \in Nat
    BY <1>3
  <1> HIDE DEF F, F1, S, S1, B, B1, H, H1, A, A1, z1, c1, p1, C, C1, Z, Z1
  <1>7. /\ z1 + F1 - c1 = slotsSize + F - slotsClaimed
        /\ c1 + S1 - p1 <= slotsClaimed + S - pushed
        /\ z1 \in Nat /\ c1 \in Nat /\ p1 \in 0 .. MaxItems
        /\ S1 \in Nat /\ F1 \in Nat /\ B1 \in Nat /\ H1 \in Nat
    BY <1>1, <1>2, <1>4
  <1>8. \A w \in Vecs : A1(w) \in Nat /\ Z1(w) + A1(w) - C1(w) = Z(w) + A(w) - C(w)
    <2>1. A1(v) \in Nat /\ Z1(v) + A1(v) - C1(v) = Z(v) + A(v) - C(v)
      BY <1>1, <1>4, <1>5, <1>6
    <2>2. \A w \in Vecs \ {v} : A1(w) \in Nat /\ Z1(w) + A1(w) - C1(w) = Z(w) + A(w) - C(w)
      BY <1>1, <1>4, <1>5
    <2> QED
      BY <2>1, <2>2
  <1>9. C1(0) + C1(1) + H1 + B1 - p1 <= C(0) + C(1) + H + B - pushed
    <2>1. C1(0) + C1(1) = C(0) + C(1) + claim
      <3>1. C(0) \in Nat /\ C(1) \in Nat /\ (v = 0 \/ v = 1)
        BY <1>3, <1>6
      <3>2. CASE v = 0
        <4>1. C1(0) = C(0) + claim /\ C1(1) = C(1)
          BY <1>3, <1>5, <3>2
        <4> QED
          BY <3>1, <4>1
      <3>3. CASE v = 1
        <4>1. C1(1) = C(1) + claim /\ C1(0) = C(0)
          BY <1>3, <1>5, <3>3
        <4> QED
          BY <3>1, <4>1
      <3> QED
        BY <3>1, <3>2, <3>3
    <2>2. C(0) \in Nat /\ C(1) \in Nat
      BY <1>3, <1>6
    <2> QED
      BY <1>1, <1>2, <1>4, <2>1, <2>2
  <1> QED
    BY <1>5, <1>7, <1>8, <1>9 DEF Balanced, F, F1, S, S1, B, B1, H, H1, A, A1, z1, c1, p1,
                                C, C1, Z, Z1

\* The key a delete() carries is appended: claim, write, announce.
LEMMA AppendBalanced ==
  ASSUME IInv, NEW t \in Threads, Append(t) \/ AppendWrite(t) \/ AppendAnnounce(t)
  PROVE  Balanced
  <1>0. PICK v \in Vecs : v = StoreVec(t)
    BY CallAt DEF IInv
  <1>1. /\ pc \in [Threads -> PCs] /\ v \in Vecs /\ loc[t] \in Locals
        /\ claimed \in [Vecs -> Nat] /\ size \in [Vecs -> Nat]
        /\ IsFiniteSet(Appending(v))
        /\ "append" \in PCs /\ "dwrite" \in PCs /\ "dannounce" \in PCs /\ "count" \in PCs
    BY CallAt, Counts DEF IInv, PCs, PushPC, DeletePC
  <1>2. /\ UNCHANGED <<held, pushed, slotsClaimed, slotsSize>>
        /\ \A u \in Threads \ {t} : loc'[u] = loc[u]
    BY OwnLocals DEF IInv, Append, AppendWrite, AppendAnnounce, items, clients
  <1>3. StoreVec(t)' = v
    <2>1. CASE Append(t)
      <3> DEFINE p == claimed[v]
                 m == WithAt(loc[t], p)
      <3>1. p \in Nat
        BY <1>1
      <3>2. Set(t, m)
        BY <1>0, <2>1 DEF Append, WithAt
      <3> HIDE DEF p
      <3>3. m \in Locals /\ m.storeKey = loc[t].storeKey
        BY <1>1, <3>1, SetPlace
      <3> HIDE DEF m
      <3>4. loc'[t] = m
        BY <3>2, <3>3, Located DEF IInv, Calls
      <3> QED
        BY <1>0, <3>3, <3>4 DEF StoreVec
    <2>2. CASE UNCHANGED loc
      BY <1>0, <2>2 DEF StoreVec
    <2> QED
      BY <2>1, <2>2 DEF AppendWrite, AppendAnnounce
  <1>4. \A u \in Threads, w \in Vecs : u # t => StoreVec(u)' = StoreVec(u)
    BY <1>2 DEF StoreVec
  <1>5. CASE Append(t)
    <2>1. /\ Step(t, "append", "dwrite")
          /\ claimed' = [claimed EXCEPT ![v] = @ + 1] /\ size' = size
      BY <1>0, <1>5 DEF Append
    <2>2. /\ pc[t] = "append" /\ pc'[t] = "dwrite"
          /\ \A u \in Threads \ {t} : pc'[u] = pc[u]
      BY <1>1, <2>1, Moved
    <2>3. /\ Appending(v)' = Appending(v) \cup {t} /\ t \notin Appending(v)
          /\ \A w \in Vecs \ {v} : Appending(w)' = Appending(w)
      BY <1>0, <1>3, <1>4, <2>2 DEF Appending, At
    <2>4. /\ Cardinality(Appending(v))' = Cardinality(Appending(v)) + 1
          /\ Cardinality(Appending(v))' \in Nat
      BY <1>1, <2>3, FS_AddElement, FS_CardinalityType
    <2>5. /\ Cardinality(Seeking)' = Cardinality(Seeking)
          /\ Cardinality(Filling)' = Cardinality(Filling)
          /\ Cardinality(Busy)' = Cardinality(Busy) + (-1) /\ Cardinality(Busy)' \in Nat
      BY <1>1, <2>1, CountMove, Counts DEF PushPC, DeletePC
    <2>6. size' = [size EXCEPT ![v] = @ + 0]
      BY <1>1, <2>1
    <2>7. CellDelta(v, -1, 1, 1, 0)
      BY <1>2, <2>1, <2>3, <2>4, <2>5, <2>6 DEF CellDelta
    <2> QED
      BY <1>1, <2>4, <2>5, <2>7, CellCancel
  <1>6. CASE AppendWrite(t)
    <2>1. Step(t, "dwrite", "dannounce") /\ claimed' = claimed /\ size' = size
      BY <1>6 DEF AppendWrite
    <2>2. /\ pc[t] = "dwrite" /\ pc'[t] = "dannounce"
          /\ \A u \in Threads \ {t} : pc'[u] = pc[u]
      BY <1>1, <2>1, Moved
    <2>3. \A w \in Vecs : Appending(w)' = Appending(w)
      BY <1>0, <1>3, <1>4, <2>2 DEF Appending, At
    <2>4. /\ Cardinality(Appending(v))' = Cardinality(Appending(v)) + 0
          /\ Cardinality(Appending(v))' \in Nat
      BY <1>1, <2>3, FS_CardinalityType
    <2>5. /\ Cardinality(Seeking)' = Cardinality(Seeking)
          /\ Cardinality(Filling)' = Cardinality(Filling)
          /\ Cardinality(Busy)' = Cardinality(Busy) + 0 /\ Cardinality(Busy)' \in Nat
      BY <1>1, <2>1, CountMove, Counts DEF PushPC, DeletePC
    <2>6. /\ size' = [size EXCEPT ![v] = @ + 0]
          /\ claimed' = [claimed EXCEPT ![v] = @ + 0]
      BY <1>1, <2>1
    <2>7. CellDelta(v, 0, 0, 0, 0)
      BY <1>2, <2>1, <2>3, <2>4, <2>5, <2>6 DEF CellDelta
    <2> QED
      BY <1>1, <2>4, <2>5, <2>7, CellCancel
  <1>7. CASE AppendAnnounce(t)
    <2>1. /\ Step(t, "dannounce", "count")
          /\ size' = [size EXCEPT ![v] = @ + 1] /\ claimed' = claimed
      BY <1>0, <1>7 DEF AppendAnnounce
    <2>2. /\ pc[t] = "dannounce" /\ pc'[t] = "count"
          /\ \A u \in Threads \ {t} : pc'[u] = pc[u]
      BY <1>1, <2>1, Moved
    <2>3. /\ Appending(v)' = Appending(v) \ {t} /\ t \in Appending(v)
          /\ \A w \in Vecs \ {v} : Appending(w)' = Appending(w)
      BY <1>0, <1>3, <1>4, <2>2 DEF Appending, At
    <2>4. /\ Cardinality(Appending(v))' = Cardinality(Appending(v)) + (-1)
          /\ Cardinality(Appending(v))' \in Nat
      BY <1>1, <2>3, FS_RemoveElement, FS_CardinalityType
    <2>5. /\ Cardinality(Seeking)' = Cardinality(Seeking)
          /\ Cardinality(Filling)' = Cardinality(Filling)
          /\ Cardinality(Busy)' = Cardinality(Busy) + 0 /\ Cardinality(Busy)' \in Nat
      BY <1>1, <2>1, CountMove, Counts DEF PushPC, DeletePC
    <2>6. claimed' = [claimed EXCEPT ![v] = @ + 0]
      BY <1>1, <2>1
    <2>7. CellDelta(v, 0, -1, 0, 1)
      BY <1>2, <2>1, <2>3, <2>4, <2>5, <2>6 DEF CellDelta
    <2> QED
      BY <1>1, <2>4, <2>5, <2>7, CellCancel
  <1> QED
    BY <1>5, <1>6, <1>7

\* The counters, cells and slots delete() writes keep their types.
LEMMA DeleteTypes ==
  ASSUME IInv, NEW t \in Threads, DeleteStart(t) \/ Delete(t)
  PROVE  /\ storeIter' \in [Vecs -> Nat] /\ loadIter' \in [Vecs -> Nat]
         /\ cells' \in [Vecs -> [Positions -> Keys]]
         /\ slots' \in [Positions -> Items \cup {0}] /\ held' \subseteq Keys \X Items
  <1> DEFINE w == StoreVec(t)
             l == loc[t]
             p == l.at
  <1>1. /\ storeIter \in [Vecs -> Nat] /\ loadIter \in [Vecs -> Nat]
        /\ cells \in [Vecs -> [Positions -> Keys]]
        /\ w \in Vecs /\ l.miss \in Nat /\ l.key \in Keys
    BY CallAt DEF IInv
  <1>2. slots \in [Positions -> Items \cup {0}] /\ held \subseteq Keys \X Items
    BY DEF IInv, TypeOK
  <1>3. loadIter' = loadIter
    BY Walking DEF DeleteStart, Delete, ReachDeleted, Disable, DStoreKey, CheckStore, DRange, DPeek, Put, DSame,
           DSkip, Append, AppendWrite, AppendAnnounce, CountKey, free
  <1>4. \/ storeIter' = storeIter
        \/ storeIter' = [storeIter EXCEPT ![w] = @ + l.miss]
        \/ storeIter' = [storeIter EXCEPT ![w] = @ + 1]
    BY Walking DEF DeleteStart, Delete, ReachDeleted, Disable, DStoreKey, CheckStore, DRange, DPeek, Put, DSame,
           DSkip, Append, AppendWrite, AppendAnnounce, CountKey, free
  <1>5. cells' = cells \/ \E q : cells' = [cells EXCEPT ![w][q] = l.key]
    BY Walking DEF DeleteStart, Delete, ReachDeleted, Disable, DStoreKey, CheckStore, DRange, DPeek, Put, DSame,
           DSkip, Append, AppendWrite, AppendAnnounce, CountKey, free
  <1>6. slots' = slots \/ slots' = [slots EXCEPT ![p] = 0]
    BY Walking DEF DeleteStart, Delete, ReachDeleted, Disable, DStoreKey, CheckStore, DRange, DPeek, Put, DSame,
           DSkip, Append, AppendWrite, AppendAnnounce, CountKey, items
  <1>7. held' \subseteq held
    BY Walking DEF DeleteStart, Delete, ReachDeleted, Disable, DStoreKey, CheckStore, DRange, DPeek, Put, DSame,
           DSkip, Append, AppendWrite, AppendAnnounce, CountKey, clients
  <1> HIDE DEF w, l, p
  <1>8. storeIter' \in [Vecs -> Nat]
    BY <1>1, <1>4, Written
  <1>9. cells' \in [Vecs -> [Positions -> Keys]]
    <2>1. ASSUME NEW q, cells' = [cells EXCEPT ![w][q] = l.key]
          PROVE  cells' \in [Vecs -> [Positions -> Keys]]
      <3>1. l.key \in Keys /\ w \in Vecs
        BY <1>1
      <3> DEFINE k == l.key
      <3>2. k \in Keys /\ cells' = [cells EXCEPT ![w][q] = k]
        BY <2>1, <3>1
      <3> HIDE DEF k
      <3> QED
        BY <1>1, <3>1, <3>2, CellWritten
    <2> QED
      BY <1>1, <1>5, <2>1
  <1>10. slots' \in [Positions -> Items \cup {0}]
    BY <1>2, <1>6
  <1> QED
    BY <1>1, <1>2, <1>3, <1>7, <1>8, <1>9, <1>10

\* delete() pays for the cells it claims with the key it was given.
LEMMA DeleteBalanced ==
  ASSUME IInv, NEW t \in Threads, DeleteStart(t) \/ Delete(t)
  PROVE  Balanced
  <1> DEFINE D == DeletePC \ {"dwrite", "dannounce"}
  <1>1. \A u \in Threads \ {t} : loc'[u] = loc[u]
    BY OwnLocals, Walking DEF IInv, DeleteStart, Delete, ReachDeleted, Disable, DStoreKey, CheckStore, DRange,
           DPeek, Put, DSame, DSkip, Append, AppendWrite, AppendAnnounce, CountKey
  <1>2. UNCHANGED <<pushed, slotsClaimed, slotsSize>>
    BY Walking DEF DeleteStart, Delete, ReachDeleted, Disable, DStoreKey, CheckStore, DRange, DPeek, Put, DSame,
           DSkip, Append, AppendWrite, AppendAnnounce, CountKey, items, clients
  <1>3. ASSUME NEW from, NEW to, Step(t, from, to), UNCHANGED <<held, claimed, size>>,
               Pays(from, to, 0, 0, 0, 0)
        PROVE  Balanced
    <2>1. Changes(0, 0, 0, 0)
      BY <1>2, <1>3, Numbers, Consts DEF Changes
    <2> QED
      BY <1>1, <1>3, <2>1, Paid
  <1>4. ASSUME NEW from \in D \ {"count"}, NEW to \in D PROVE Pays(from, to, 0, 0, 0, 0)
    <2>1. /\ from \in PCs \ {"dwrite", "dannounce"} /\ to \in PCs \ {"dwrite", "dannounce"}
          /\ By({"fill", "len", "announce"}, from, to) = 0
      BY DEF PCs, PushPC, DeletePC, By
    <2>2. By(PushPC \ {"fill", "len", "announce"}, from, to) = 0
      BY DEF By, PushPC, DeletePC
    <2>3. By((PushPC \cup DeletePC) \ {"dwrite", "dannounce", "count"}, from, to) <= 0
      BY <2>1 DEF By, PushPC, DeletePC
    <2>4. By((PushPC \cup DeletePC) \ {"dwrite", "dannounce", "count"}, from, to) \in Int
      BY DEF By
    <2> QED
      BY <2>1, <2>2, <2>3, <2>4 DEF Pays
  <1>5. CASE DeleteStart(t)
    <2>1. PICK h \in held \cup {Invalid} :
            /\ held' = held \ {h}
            /\ IF h[1] = 0 THEN Step(t, "idle", "idle") ELSE Step(t, "idle", "dreach")
      BY <1>5 DEF DeleteStart
    <2>2. UNCHANGED <<claimed, size>>
      BY <1>5 DEF DeleteStart, free
    <2>3. CASE h[1] = 0
      <3>1. Cardinality(held)' \in Nat /\ Cardinality(held)' <= Cardinality(held) + 0
        BY <2>1, Numbers, Holding
      <3>2. Changes(0, 0, 0, 0)
        BY <1>2, <2>2, <3>1, Numbers DEF Changes
      <3>3. Pays("idle", "idle", 0, 0, 0, 0)
        BY DEF Pays, By, PCs, PushPC, DeletePC
      <3> QED
        BY <1>1, <2>1, <2>3, <3>2, <3>3, Paid
    <2>4. CASE h[1] # 0
      <3>1. h \in held
        BY <2>4, GivenUp DEF IInv
      <3>2. Cardinality(held)' \in Nat /\ Cardinality(held)' <= Cardinality(held) + (-1)
        BY <2>1, <3>1, Numbers, Holding
      <3>3. Changes(-1, 0, 0, 0)
        BY <1>2, <2>2, <3>2, Numbers DEF Changes
      <3>4. Pays("idle", "dreach", -1, 0, 0, 0)
        BY DEF Pays, By, PCs, PushPC, DeletePC
      <3> QED
        BY <1>1, <2>1, <2>4, <3>3, <3>4, Paid
    <2> QED
      BY <2>3, <2>4
  <1>6. CASE Disable(t)
    <2>1. Step(t, "disable", "idle") \/ Step(t, "disable", "dstore")
      BY <1>6 DEF Disable, Return
    <2>2. UNCHANGED <<held, claimed, size>>
      BY <1>6 DEF Disable, free, clients
    <2>3. Pays("disable", "idle", 0, 0, 0, 0) /\ Pays("disable", "dstore", 0, 0, 0, 0)
      BY DEF Pays, By, PCs, PushPC, DeletePC
    <2> QED
      BY <1>3, <2>1, <2>2, <2>3
  <1>7. CASE \/ DStoreKey(t) \/ CheckStore(t) \/ DRange(t) \/ DPeek(t) \/ Put(t)
             \/ DSame(t) \/ DSkip(t)
    <2>1. \E from \in D \ {"count"}, to \in D : Step(t, from, to)
      BY <1>7 DEF DStoreKey, CheckStore, DRange, DPeek, Put, DSame, DSkip, AfterScan,
                  DeletePC
    <2>2. UNCHANGED <<held, claimed, size>>
      BY <1>7 DEF DStoreKey, CheckStore, DRange, DPeek, Put, DSame, DSkip, free, clients
    <2> QED
      BY <1>3, <1>4, <2>1, <2>2
  <1>8. CASE Append(t) \/ AppendWrite(t) \/ AppendAnnounce(t)
    BY <1>8, AppendBalanced
  <1>9. CASE CountKey(t)
    <2>1. Step(t, "count", "idle") /\ UNCHANGED <<held, claimed, size>>
      BY <1>9 DEF CountKey, Return, clients
    <2>2. Pays("count", "idle", 0, 0, 0, 0)
      BY DEF Pays, By, PCs, PushPC, DeletePC
    <2> QED
      BY <1>3, <2>1, <2>2
  <1>10. CASE ReachDeleted(t)
    <2>1. Step(t, "dreach", "dreach") \/ Step(t, "dreach", "disable")
      BY <1>10, Walking DEF ReachDeleted
    <2>2. UNCHANGED <<held, claimed, size>>
      BY <1>10, Walking DEF ReachDeleted
    <2>3. Pays("dreach", "dreach", 0, 0, 0, 0) /\ Pays("dreach", "disable", 0, 0, 0, 0)
      BY DEF Pays, By, PCs, PushPC, DeletePC
    <2> QED
      BY <1>3, <2>1, <2>2, <2>3
  <1> QED
    BY <1>5, <1>6, <1>7, <1>8, <1>9, <1>10 DEF Delete

\* delete() keeps the invariant.
LEMMA DeleteInv ==
  ASSUME IInv, NEW t \in Threads, DeleteStart(t) \/ Delete(t)
  PROVE  IInv'
  <1>1. Calls' /\ pc' \in [Threads -> PCs] /\ idx' \in 0 .. MaxSwaps
    BY DeleteCalls, Numbers DEF IInv
  <1>2. slotsLen' \in Nat /\ chunk' \in [Threads -> Nat]
    BY WalkTypes DEF IInv
  <1> QED
    BY <1>1, <1>2, DeleteBalanced, DeleteTypes, Assemble

\* The map starts empty.
LEMMA Initial ==
  ASSUME Init
  PROVE  IInv
  <1>1. TypeOK
    BY Consts DEF Init, TypeOK, Vecs
  <1>2. Calls
    <2>1. loc \in [Threads -> Locals]
      BY NoLocalsType DEF Init
    <2>2. \A t \in Threads : Fits(pc[t], loc[t], idx)
      BY DEF Init, Fits, PushPC, DeletePC
    <2> QED
      BY <2>1, <2>2 DEF Calls
  <1>3. Budget
    <2>1. Seeking = {} /\ Filling = {} /\ Busy = {} /\ \A v : Appending(v) = {}
      BY DEF Init, Seeking, Filling, Busy, Appending, At, PushPC, DeletePC
    <2>2. held = {} /\ Cardinality({}) = 0
      BY FS_EmptySet DEF Init
    <2>3. /\ slotsSize = 0 /\ slotsClaimed = 0 /\ pushed = 0
          /\ claimed[0] = 0 /\ claimed[1] = 0 /\ \A v \in Vecs : claimed[v] = 0 /\ size[v] = 0
      BY DEF Init, Vecs
    <2> QED
      BY <2>1, <2>2, <2>3 DEF Budget
  <1> QED
    BY <1>1, <1>2, <1>3 DEF IInv

\* Nothing the invariant speaks of changes.
LEMMA Stuttered ==
  ASSUME IInv, UNCHANGED vars
  PROVE  IInv'
  <1>1. UNCHANGED <<free, items, clients, pc, loc>>
    BY DEF vars
  <1>2. TypeOK'
    BY <1>1 DEF IInv, TypeOK, free, items, clients
  <1>3. Calls'
    BY <1>1 DEF IInv, Calls, free
  <1>4. Budget'
    <2>1. /\ Seeking' = Seeking /\ Filling' = Filling /\ Busy' = Busy
          /\ \A v : Appending(v)' = Appending(v)
      BY <1>1 DEF Seeking, Filling, Busy, Appending, At, StoreVec
    <2> QED
      BY <1>1, <2>1 DEF IInv, Budget, free, items, clients
  <1> QED
    BY <1>2, <1>3, <1>4 DEF IInv

\* Every step of push() and delete() keeps the invariant.
LEMMA Inductive ==
  ASSUME IInv, [Next]_vars
  PROVE  IInv'
  <1>1. ASSUME NEW t \in Threads, PushStart(t) \/ DeleteStart(t) \/ Push(t) \/ Delete(t)
        PROVE  IInv'
    <2>1. CASE Lookup(t)
      BY <2>1, LookupInv
    <2>2. CASE DeleteStart(t) \/ Delete(t)
      BY <2>2, DeleteInv
    <2>3. CASE PushStart(t) \/ Storing(t)
      BY <2>3, PushInv
    <2> QED
      BY <1>1, <2>1, <2>2, <2>3 DEF Push, Lookup, Storing
  <1> QED
    BY <1>1, Stuttered DEF Next

\* Every slot and every cell claimed is paid for by a push of its own.
THEOREM Invariance == Spec => []IInv
  <1>1. Init => IInv
    BY Initial
  <1>2. IInv /\ [Next]_vars => IInv'
    BY Inductive
  <1> QED
    BY <1>1, <1>2, PTL DEF Spec

\* No counter of the map leaves its range and no vector outgrows the pushes.
THEOREM TypeCorrect == Spec => []TypeOK
  <1>1. IInv => TypeOK
    BY DEF IInv
  <1> QED
    BY <1>1, Invariance, PTL

-----------------------------------------------------------------------------
(* Keys *)

\* The free vectors are within one chunk, the reach of the `break` in delete().
OneChunk == \A v \in Vecs : size[v] <= K

\* A delete() that has put its key looks at no other cell.
Scans(p, l) ==
  /\ p \in {"dreach", "disable", "dstore", "check", "drange", "put"} => ~l.found
  /\ p \in {"dpeek", "put"} => l.hi <= K
  /\ p = "dpeek" /\ l.found => l.i >= l.hi
Scanning == \A t \in Threads : Scans(pc[t], loc[t])

\* A call at p with the locals l has k in hand.
Carries(p, l, k) ==
  /\ l.key = k
  /\ \/ p \in {"same", "skip", "advance", "reach", "reuse"} /\ l.key # 0
     \/ p \in {"dreach", "disable", "dstore", "check", "drange", "append", "dwrite"}
     \/ p \in {"dpeek", "put", "dsame", "dskip"} /\ ~l.found

\* k is at x, a pair that is held, a call or a cell.
IsAt(k, place, x) ==
  \/ place = "held" /\ x \in held /\ x[1] = k
  \/ place = "call" /\ x \in Threads /\ Carries(pc[x], loc[x], k)
  \/ place = "cell" /\ x \in FreeCells /\ cells[x[1]][x[2]] = k

\* Every key about is one of an announced slot, and in one place.
Sole ==
  /\ \A k, place, x : IsAt(k, place, x) => k # 0 /\ k <= slotsSize
  /\ \A k, p, q, x, y : IsAt(k, p, x) /\ IsAt(k, q, y) => p = q /\ x = y

\* The inductive invariant of the keys.
KeyInvariant ==
  /\ IInv
  /\ Scanning
  /\ Nameable => Sole

\* That is what KeyUnique says.
LEMMA SoleIsUnique ==
  ASSUME KeyInvariant
  PROVE  KeyUnique
  <1> SUFFICES ASSUME Nameable PROVE Sole => KeyUnique
    BY DEF KeyInvariant, KeyUnique
  <1> SUFFICES ASSUME Sole PROVE KeyUnique
    OBVIOUS
  <1>1. \A h \in held : IsAt(h[1], "held", h)
    BY DEF IsAt
  <1>2. \A t \in Carriers : IsAt(loc[t].key, "call", t)
    BY DEF IsAt, Carriers, Carries
  <1>3. \A c \in FreeCells : IsAt(cells[c[1]][c[2]], "cell", c)
    BY DEF IsAt
  <1>4. \A k, p, q, x, y : IsAt(k, p, x) /\ IsAt(k, q, y) => p = q /\ x = y
    BY DEF Sole
  <1>5. \A h \in held : h[1] # 0
    BY <1>1 DEF Sole
  <1>6. \A g, h \in held : g # h => g[1] # h[1]
    BY <1>1, <1>4
  <1>7. \A h \in held, t \in Carriers : h[1] # loc[t].key
    BY <1>1, <1>2, <1>4
  <1>8. \A h \in held, c \in FreeCells : h[1] # cells[c[1]][c[2]]
    BY <1>1, <1>3, <1>4
  <1>9. \A s, t \in Carriers : s # t => loc[s].key # loc[t].key
    BY <1>2, <1>4
  <1>10. \A t \in Carriers, c \in FreeCells : loc[t].key # cells[c[1]][c[2]]
    BY <1>2, <1>3, <1>4
  <1>11. \A b, c \in FreeCells : b # c => cells[b[1]][b[2]] # cells[c[1]][c[2]]
    BY <1>3, <1>4
  <1> QED
    BY <1>5, <1>6, <1>7, <1>8, <1>9, <1>10, <1>11 DEF KeyUnique

\* The keys stay where they are, but for one that goes from a to b.
MovesKey(p, a, q, b) ==
  \A k, place, x : IsAt(k, place, x)' =>
    \/ place = q /\ x = b /\ IsAt(k, p, a)
    \/ ~(place = q /\ x = b) /\ ~(place = p /\ x = a) /\ IsAt(k, place, x)

\* A key that moves from one place to another stays in one.
LEMMA KeyMoved ==
  ASSUME Sole, slotsSize' = slotsSize, NEW p, NEW a, NEW q, NEW b, MovesKey(p, a, q, b)
  PROVE  Sole'
  <1>1. \A k, place, x : IsAt(k, place, x)' => k # 0 /\ k <= slotsSize'
    BY DEF Sole, MovesKey
  <1>2. \A k, r, s, x, y : IsAt(k, r, x)' /\ IsAt(k, s, y)' => r = s /\ x = y
    BY DEF Sole, MovesKey
  <1> QED
    BY <1>1, <1>2 DEF Sole

\* No key gets anywhere it was not.
KeysStay == \A k, place, x : IsAt(k, place, x)' => IsAt(k, place, x)

\* Nor do keys that stay where they are get to a second place.
LEMMA KeysStayed ==
  ASSUME Sole, slotsSize' = slotsSize, KeysStay
  PROVE  Sole'
  <1>1. \A k, place, x : IsAt(k, place, x)' => k # 0 /\ k <= slotsSize'
    BY DEF Sole, KeysStay
  <1>2. \A k, r, s, x, y : IsAt(k, r, x)' /\ IsAt(k, s, y)' => r = s /\ x = y
    BY DEF Sole, KeysStay
  <1> QED
    BY <1>1, <1>2 DEF Sole

\* A step of t says nothing new of the keys other calls carry.
LEMMA OthersCarry ==
  ASSUME IInv, NEW t \in Threads, NEW from, NEW to \in PCs, Step(t, from, to),
         \A u \in Threads \ {t} : loc'[u] = loc[u]
  PROVE  /\ pc[t] = from /\ pc'[t] = to
         /\ \A k, u : u # t => (IsAt(k, "call", u)' <=> IsAt(k, "call", u))
         /\ \A k : IsAt(k, "call", t)' <=> Carries(to, loc'[t], k)
         /\ \A k : IsAt(k, "call", t) <=> Carries(from, loc[t], k)
  <1>1. /\ pc[t] = from /\ pc'[t] = to
        /\ \A u \in Threads \ {t} : pc'[u] = pc[u]
    BY Moved DEF IInv, TypeOK, PCs
  <1>2. \A k, u : u # t => (IsAt(k, "call", u)' <=> IsAt(k, "call", u))
    BY <1>1 DEF IsAt
  <1> QED
    BY <1>1, <1>2 DEF IsAt

\* A step at which no pair, call or cell gets a key.
LEMMA Quiet ==
  ASSUME IInv, NEW t \in Threads, NEW from, NEW to \in PCs, Step(t, from, to),
         \A u \in Threads \ {t} : loc'[u] = loc[u], held' \subseteq held, cells' = cells,
         \A k : Carries(to, loc'[t], k) => Carries(from, loc[t], k)
  PROVE  KeysStay
  <1>1. \A k, x : IsAt(k, "call", x)' => IsAt(k, "call", x)
    BY OthersCarry
  <1>2. FreeCells' = FreeCells
    BY DEF FreeCells
  <1> QED
    BY <1>1, <1>2 DEF IsAt, KeysStay

\* Keys are numbers.
LEMMA KeysAreNumbers ==
  ASSUME IInv
  PROVE  \A k, place, x : IsAt(k, place, x) => k \in Nat
  <1>0. \A k \in Keys : k \in Nat
    BY Consts DEF Keys
  <1>1. \A h \in held : h[1] \in Nat
    BY <1>0 DEF IInv, TypeOK
  <1>2. \A t \in Threads : loc[t].key \in Nat
    BY <1>0 DEF IInv, Calls, Locals
  <1>3. \A c \in FreeCells : cells[c[1]][c[2]] \in Nat
    BY <1>0 DEF IInv, TypeOK, FreeCells
  <1> QED
    BY <1>1, <1>2, <1>3 DEF IsAt, Carries

\* A pair with the next key is handed out.
AddsKey(h) ==
  \A k, place, x : IsAt(k, place, x)' =>
    IsAt(k, place, x) \/ (place = "held" /\ x = h /\ k = slotsSize + 1)

\* A key that is announced is new.
LEMMA KeyAdded ==
  ASSUME IInv, Sole, slotsSize' = slotsSize + 1, NEW h, AddsKey(h)
  PROVE  Sole'
  <1>0. slotsSize \in Nat /\ \A k, place, x : IsAt(k, place, x) => k \in Nat
    BY Numbers, KeysAreNumbers
  <1>1. \A k, place, x : IsAt(k, place, x) => k # 0 /\ k <= slotsSize /\ k # slotsSize + 1
    BY <1>0 DEF Sole
  <1>2. \A k, place, x : IsAt(k, place, x)' => k # 0 /\ k <= slotsSize'
    BY <1>0, <1>1 DEF AddsKey
  <1>3. \A k, r, s, x, y : IsAt(k, r, x)' /\ IsAt(k, s, y)' => r = s /\ x = y
    BY <1>1 DEF Sole, AddsKey
  <1> QED
    BY <1>2, <1>3 DEF Sole

\* A cell that is written holds what is written, and no other changes.
LEMMA CellSet ==
  ASSUME cells \in [Vecs -> [Positions -> Keys]], NEW v \in Vecs, NEW p, NEW n \in Keys,
         cells' = [cells EXCEPT ![v][p] = n]
  PROVE  /\ \A k, x : IsAt(k, "cell", x)' /\ x # <<v, p>> => IsAt(k, "cell", x)
         /\ \A k : IsAt(k, "cell", <<v, p>>)' => k = n /\ k # 0
  <1>1. ASSUME NEW x \in Vecs \X Positions, x # <<v, p>>
        PROVE  cells'[x[1]][x[2]] = cells[x[1]][x[2]]
    <2>1. x[1] # v \/ x[2] # p
      BY <1>1
    <2>2. x[1] \in Vecs /\ x[2] \in Positions
      OBVIOUS
    <2> QED
      BY <2>1, <2>2
  <1>2. p \in Positions => cells'[v][p] = n
    OBVIOUS
  <1>3. \A k, x : IsAt(k, "cell", x)' /\ x # <<v, p>> => IsAt(k, "cell", x)
    BY <1>1 DEF IsAt, FreeCells
  <1>4. \A k : IsAt(k, "cell", <<v, p>>)' => k = n /\ k # 0
    BY <1>2 DEF IsAt, FreeCells
  <1> QED
    BY <1>3, <1>4

\* The lookup carries a key only once it took it out of its cell.
LEMMA LookupKeys ==
  ASSUME IInv, NEW t \in Threads, Lookup(t)
  PROVE  KeysStay \/ \E c : MovesKey("cell", c, "call", t)
  <1> DEFINE l == loc[t]
             v == LoadVec(t)
             Keyed == {"same", "skip", "advance", "reach", "reuse"}
  <1>1. /\ l \in Locals /\ l.key \in Keys /\ l.i \in Nat /\ l.item \in Items \cup {0}
        /\ v \in Vecs /\ Fits(pc[t], l, idx) /\ cells \in [Vecs -> [Positions -> Keys]]
    BY CallAt DEF IInv
  <1>2. \A u \in Threads \ {t} : loc'[u] = loc[u]
    BY OwnLocals DEF IInv, Lookup, LoadKey, StoreKey, LoadMax, Drained, Refill, Swap, ResetLoad,
           ResetStore, RangeLo, RangeHi, Peek, Take, StillSame, SkipTaken, Advance
  <1>3. held' = held
    BY DEF Lookup, LoadKey, StoreKey, LoadMax, Drained, Refill, Swap, ResetLoad,
           ResetStore, RangeLo, RangeHi, Peek, Take, StillSame, SkipTaken, Advance,
           clients
  <1>4. ASSUME NEW from, NEW to \in PushPC, Step(t, from, to), cells' = cells,
               \A k : Carries(to, loc'[t], k) => Carries(from, l, k)
        PROVE  KeysStay
    <2>1. to \in PCs
      BY DEF PCs
    <2> QED
      BY <1>2, <1>3, <1>4, <2>1, Quiet
  <1>5. ASSUME NEW from, NEW to \in PushPC \ Keyed, Step(t, from, to), cells' = cells
        PROVE  KeysStay
    <2>1. \A k : ~Carries(to, loc'[t], k)
      BY DEF Carries, PushPC
    <2> QED
      BY <1>4, <1>5, <2>1
  <1>6. CASE \/ LoadKey(t) \/ StoreKey(t) \/ LoadMax(t) \/ Drained(t) \/ Refill(t)
             \/ Swap(t) \/ ResetLoad(t) \/ ResetStore(t) \/ RangeLo(t) \/ RangeHi(t)
    <2>1. /\ \E from, to \in PushPC \ Keyed : Step(t, from, to)
          /\ cells' = cells
      BY <1>6 DEF LoadKey, StoreKey, LoadMax, Drained, Refill, Swap, ResetLoad, ResetStore,
           RangeLo, RangeHi, free, PushPC
    <2> QED
      BY <1>5, <2>1
  <1>7. CASE Peek(t)
    <2>1. cells' = cells
      BY <1>7 DEF Peek, free
    <2>2. CASE Step(t, "peek", "same") /\ UNCHANGED loc
      <3>1. l.key = 0
        BY <1>1, <2>2 DEF Step, Fits
      <3>2. \A k : ~Carries("same", loc'[t], k)
        BY <2>2, <3>1 DEF Carries
      <3> QED
        BY <1>4, <2>1, <2>2, <3>2 DEF PushPC
    <2>3. CASE \E to \in {"peek", "take"} : Step(t, "peek", to)
      BY <1>5, <2>1, <2>3 DEF PushPC
    <2> QED
      BY <1>7, <2>2, <2>3 DEF Peek
  <1>8. CASE Take(t)
    <2>1. CASE Step(t, "take", "peek") /\ UNCHANGED cells
      BY <1>5, <2>1 DEF PushPC
    <2>2. CASE /\ Step(t, "take", "same") /\ UNCHANGED loc
               /\ cells[v][l.i] = l.key
               /\ cells' = [cells EXCEPT ![v][l.i] = 0]
      <3>1. l.key # 0 /\ l.i \in Positions
        <4>1. l.key # 0 /\ l.i < MaxItems
          BY <1>1, <2>2 DEF Step, Fits
        <4> QED
          BY <1>1, <4>1, Consts DEF Positions
      <3>2. PICK w \in Vecs, p \in Positions : w = v /\ p = l.i
        BY <1>1, <3>1
      <3> DEFINE c == <<w, p>>
      <3>3. IsAt(l.key, "cell", c)
        BY <2>2, <3>1, <3>2 DEF IsAt, FreeCells
      <3>4. /\ \A k, x : IsAt(k, "cell", x)' /\ x # c => IsAt(k, "cell", x)
            /\ \A k : ~IsAt(k, "cell", c)'
        <4>1. 0 \in Keys /\ cells' = [cells EXCEPT ![w][p] = 0]
          BY <2>2, <3>2, Consts
        <4> QED
          BY <1>1, <4>1, CellSet
      <3> HIDE DEF c
      <3>5. /\ \A k, u : u # t => (IsAt(k, "call", u)' <=> IsAt(k, "call", u))
            /\ \A k : IsAt(k, "call", t)' <=> Carries("same", loc'[t], k)
        <4>1. "same" \in PCs
          BY DEF PCs, PushPC
        <4> QED
          BY <1>2, <2>2, <4>1, OthersCarry
      <3>6. \A k : IsAt(k, "call", t)' => IsAt(k, "cell", c)
        BY <2>2, <3>3, <3>5 DEF Carries
      <3>7. \A k, x : IsAt(k, "held", x)' => IsAt(k, "held", x)
        BY <1>3 DEF IsAt
      <3>8. \A k, place, x : IsAt(k, place, x)' => place \in {"held", "call", "cell"}
        BY DEF IsAt
      <3>9. MovesKey("cell", c, "call", t)
        BY <3>4, <3>5, <3>6, <3>7, <3>8 DEF MovesKey
      <3> QED
        BY <3>9
    <2> QED
      BY <1>8, <2>1, <2>2 DEF Take
  <1>9. CASE StillSame(t) \/ SkipTaken(t)
    <2>1. /\ \E from \in {"same", "skip"},  to \in {"skip", "advance", "claim", "load"} :
               Step(t, from, to)
          /\ UNCHANGED <<cells, loc>>
      BY <1>9 DEF StillSame, SkipTaken, AfterLookup, free
    <2>2. ASSUME NEW from \in {"same", "skip"}, NEW to \in {"skip", "advance", "claim", "load"},
                 NEW k, Carries(to, l, k)
          PROVE  Carries(from, l, k)
      BY <2>2 DEF Carries
    <2> QED
      BY <1>4, <2>1, <2>2 DEF PushPC
  <1>10. CASE Advance(t)
    <2> DEFINE n == l.key
               x == l.item
               m == Carrying(n, x)
    <2>2. Step(t, "advance", "reach") /\ Set(t, m) /\ cells' = cells
      BY <1>10 DEF Advance, Carrying
    <2>5. n \in Keys /\ x \in Items \cup {0}
      BY <1>1
    <2> HIDE DEF n, x
    <2>6. m \in Locals /\ m.key = n
      BY <2>5, SetKey
    <2>1. m \in Locals /\ m.key = l.key
      BY <2>6 DEF n
    <2> HIDE DEF m
    <2>3. loc'[t] = m
      BY <2>1, <2>2, Located DEF IInv, Calls
    <2>4. \A k : Carries("reach", loc'[t], k) => Carries("advance", l, k)
      BY <2>1, <2>3 DEF Carries
    <2> QED
      BY <1>4, <2>2, <2>4 DEF PushPC
  <1> QED
    BY <1>6, <1>7, <1>8, <1>9, <1>10 DEF Lookup

\* Names that are not in the way of the counters show are still so after a step.
LEMMA NameableBefore ==
  ASSUME IInv, slotsSize' = slotsSize \/ slotsSize' = slotsSize + 1, Nameable'
  PROVE  Nameable
  BY Numbers, Consts DEF Nameable

\* The walk to a slot says nothing new of the call.
LEMMA WalkKeeps ==
  ASSUME IInv, NEW t \in Threads, NEW from, NEW to, Reach(t, from, to), loc[t].key # 0
  PROVE  /\ loc'[t].key = loc[t].key /\ loc'[t].item = loc[t].item
         /\ loc'[t].found = loc[t].found
         /\ \A u \in Threads \ {t} : loc'[u] = loc[u]
  <1> DEFINE l == loc[t]
             m == WithAt(l, Reached(t))
  <1>1. loc \in [Threads -> Locals] /\ l \in Locals /\ l.key \in Keys
    BY CallAt DEF IInv, Calls
  <1>2. Reached(t) \in Nat
    BY <1>1, ReachedType DEF IInv
  <1>3. m \in Locals /\ m.key = l.key /\ m.item = l.item /\ m.found = l.found
    BY <1>1, <1>2, SetPlace
  <1>4. UNCHANGED loc \/ Set(t, m)
    BY Walking
  <1> HIDE DEF m
  <1> QED
    BY <1>1, <1>3, <1>4, Located

\* The steps of push() that take no key from where it is.
Passing(t) ==
  PushStart(t) \/ ReachReused(t) \/ LoadSlots(t) \/ ClaimSlot(t) \/ UndoSlot(t) \/ FillSlot(t)
    \/ CountSlot(t)

\* A push that reuses a key hands it out, one that fills a new slot hands out a new key.
LEMMA PushKeys ==
  ASSUME IInv, NEW t \in Threads, PushStart(t) \/ Storing(t)
  PROVE  /\ Passing(t) => KeysStay
         /\ Reuse(t) => \E h : MovesKey("call", t, "held", h)
         /\ AnnounceSlot(t) /\ Nameable' => \E h : AddsKey(h)
  <1> DEFINE l == loc[t]
  <1>1. /\ l \in Locals /\ l.key \in Keys /\ l.item \in Items \cup {0}
        /\ Fits(pc[t], l, idx)
    BY CallAt DEF IInv
  <1>2. \A u \in Threads \ {t} : loc'[u] = loc[u]
    BY OwnLocals, Walking DEF IInv, PushStart, Storing, ReachReused, Reuse, LoadSlots,
       ClaimSlot, UndoSlot, FillSlot, CountSlot, AnnounceSlot
  <1>3. cells' = cells /\ FreeCells' = FreeCells
    <2>1. cells' = cells
      BY Walking DEF PushStart, Storing, ReachReused, Reuse, LoadSlots, ClaimSlot, UndoSlot,
         FillSlot, CountSlot, AnnounceSlot, free
    <2> QED
      BY <2>1 DEF FreeCells
  <1>4. \A k, place, x : IsAt(k, place, x)' => place \in {"held", "call", "cell"}
    BY DEF IsAt
  <1>5. \A k, x : IsAt(k, "cell", x)' => IsAt(k, "cell", x)
    BY <1>3 DEF IsAt
  <1>6. "idle" \in PCs /\ "load" \in PCs /\ "fill" \in PCs /\ "announce" \in PCs
    BY DEF PCs, PushPC
  <1>7. ASSUME Passing(t) PROVE KeysStay
    <2> DEFINE P == {"idle", "load", "claim", "fetch", "undo", "fill", "len", "announce"}
    <2>1. CASE ReachReused(t)
      <3>1. Step(t, "reach", "reach") \/ Step(t, "reach", "reuse")
        BY <2>1, Walking DEF ReachReused
      <3>2. held' = held
        BY <2>1, Walking DEF ReachReused
      <3>3. l.key # 0
        BY <1>1, <3>1 DEF Step, Fits
      <3>4. loc'[t].key = l.key
        BY <2>1, <3>3, WalkKeeps DEF ReachReused
      <3>5. ASSUME NEW to \in {"reach", "reuse"}
            PROVE  to \in PCs /\ \A k : Carries(to, loc'[t], k) => Carries("reach", l, k)
        BY <3>3, <3>4 DEF Carries, PCs, PushPC
      <3> QED
        BY <1>2, <1>3, <3>1, <3>2, <3>5, Quiet
    <2>2. CASE ~ReachReused(t)
      <3>1. (\E from, to \in P : Step(t, from, to)) /\ held' = held
        BY <1>7, <2>2 DEF Passing, PushStart, LoadSlots, ClaimSlot, UndoSlot, FillSlot, CountSlot,
           clients
      <3>2. PICK from, to \in P : Step(t, from, to)
        BY <3>1
      <3>3. to \in PCs /\ \A k : ~Carries(to, loc'[t], k)
        BY DEF Carries, PCs, PushPC
      <3> QED
        BY <1>2, <1>3, <3>1, <3>2, <3>3, Quiet
    <2> QED
      BY <2>1, <2>2
  <1>8. ASSUME Reuse(t) PROVE \E h : MovesKey("call", t, "held", h)
    <2>1. PICK h : h = <<l.key, l.item>>
      OBVIOUS
    <2>2. Step(t, "reuse", "idle") /\ held' = held \cup {h}
      BY <1>8, <2>1 DEF Reuse, Return
    <2>3. h[1] = l.key /\ l.key # 0
      BY <1>1, <2>1, <2>2 DEF Step, Fits
    <2>4. /\ \A k, u : u # t => (IsAt(k, "call", u)' <=> IsAt(k, "call", u))
          /\ \A k : IsAt(k, "call", t)' <=> Carries("idle", loc'[t], k)
          /\ \A k : IsAt(k, "call", t) <=> Carries("reuse", l, k)
      BY <1>2, <1>6, <2>2, OthersCarry
    <2>5. /\ \A k : ~IsAt(k, "call", t)'
          /\ \A k : k = l.key => IsAt(k, "call", t)
      BY <2>3, <2>4 DEF Carries
    <2>6. /\ \A k, x : IsAt(k, "held", x)' /\ x # h => IsAt(k, "held", x)
          /\ \A k : IsAt(k, "held", h)' => k = l.key
      BY <2>2, <2>3 DEF IsAt
    <2>7. MovesKey("call", t, "held", h)
      BY <1>4, <1>5, <2>4, <2>5, <2>6 DEF MovesKey
    <2> QED
      BY <2>7
  <1>9. ASSUME AnnounceSlot(t), Nameable' PROVE \E h : AddsKey(h)
    <2> DEFINE n == slotsSize
    <2>1. PICK k1 : k1 = (n + 1) % KeySpace
      OBVIOUS
    <2>2. PICK h : h = <<k1, l.item>>
      OBVIOUS
    <2>3. /\ Step(t, "announce", "idle") /\ held' = held \cup {h}
          /\ slotsSize' = n + 1
      BY <1>9, <2>1, <2>2 DEF AnnounceSlot, Return
    <2>4. h[1] = n + 1
      <3>1. n \in Nat /\ n + 1 < KeySpace /\ KeySpace \in Nat
        BY <1>9, <2>3, Numbers, Consts DEF Nameable
      <3> QED
        BY <2>1, <2>2, <3>1
    <2>5. \A k, u : IsAt(k, "call", u)' => IsAt(k, "call", u)
      <3>1. /\ \A k, u : u # t => (IsAt(k, "call", u)' <=> IsAt(k, "call", u))
            /\ \A k : IsAt(k, "call", t)' <=> Carries("idle", loc'[t], k)
        BY <1>2, <1>6, <2>3, OthersCarry
      <3> QED
        BY <3>1 DEF Carries
    <2>6. /\ \A k, x : IsAt(k, "held", x)' /\ x # h => IsAt(k, "held", x)
          /\ \A k : IsAt(k, "held", h)' => k = n + 1
      BY <2>3, <2>4 DEF IsAt
    <2>7. \A k, place, x : IsAt(k, place, x)' =>
            IsAt(k, place, x) \/ (place = "held" /\ x = h /\ k = n + 1)
      BY <1>4, <1>5, <2>5, <2>6
    <2> QED
      BY <2>7 DEF AddsKey
  <1> QED
    BY <1>7, <1>8, <1>9

\* A scan that has found its cell goes on a chunk later.
LEMMA NextChunk ==
  ASSUME NEW i \in Nat
  PROVE  K * (i \div K + 1) \in Nat /\ K * (i \div K + 1) >= K
  <1> DEFINE q == i \div K
  <1>1. q \in Nat
    BY Consts
  <1> HIDE DEF q
  <1>2. K * q \in Nat /\ K * (q + 1) = K * q + K
    BY <1>1, Consts
  <1> DEFINE r == K * q
             s == K * (q + 1)
  <1>3. r \in Nat /\ s = r + K
    BY <1>2
  <1> HIDE DEF r, s
  <1>4. s \in Nat /\ s >= K
    BY <1>3, Consts
  <1> QED
    BY <1>4 DEF q, s

\* Within one chunk a delete puts its key into one cell.
LEMMA ScansKept ==
  ASSUME IInv, Scanning, OneChunk, NEW t \in Threads,
         PushStart(t) \/ DeleteStart(t) \/ Push(t) \/ Delete(t)
  PROVE  Scanning'
  <1> DEFINE l == loc[t]
  <1>1. /\ l \in Locals /\ l.key \in Keys /\ l.i \in Nat /\ l.hi \in Nat /\ l.miss \in Nat
        /\ l.item \in Items \cup {0} /\ StoreVec(t) \in Vecs
        /\ idx \in Nat /\ storeIter \in [Vecs -> Nat] /\ claimed \in [Vecs -> Nat]
        /\ size \in [Vecs -> Nat] /\ \A v \in Vecs : size[v] <= K
        /\ Scans(pc[t], l) /\ loc \in [Threads -> Locals]
    BY CallAt DEF IInv, Scanning, Calls, OneChunk
  <1>2. \A u \in Threads \ {t} : loc'[u] = loc[u]
    BY OwnLocals, Walking DEF IInv, PushStart, ReachReused, Reuse, LoadSlots, ClaimSlot,
           UndoSlot, FillSlot, CountSlot, AnnounceSlot, Push, ReachDeleted, LoadKey, StoreKey, LoadMax, Drained, Refill, Swap, ResetLoad,
           ResetStore, RangeLo, RangeHi, Peek, Take, StillSame, SkipTaken, Advance,
           DeleteStart, Delete, Disable, DStoreKey, CheckStore, DRange,
           DPeek, Put, DSame, DSkip, Append, AppendWrite, AppendAnnounce, CountKey
  <1>3. ASSUME NEW from, NEW to \in PCs, Step(t, from, to), Scans(to, loc'[t])
        PROVE  Scanning'
    <2>1. pc'[t] = to /\ \A u \in Threads \ {t} : pc'[u] = pc[u]
      BY <1>3, Moved DEF IInv, TypeOK, PCs
    <2> QED
      BY <1>2, <1>3, <2>1 DEF Scanning
  <1>4. ASSUME NEW from, NEW to \in PushPC \cup {"idle", "dsame", "dskip", "count", "append",
                                              "dwrite", "dannounce"}, Step(t, from, to)
        PROVE  Scanning'
    <2>1. to \in PCs /\ Scans(to, loc'[t])
      BY DEF Scans, PCs, PushPC, DeletePC
    <2> QED
      BY <1>3, <1>4, <2>1
  <1>5. CASE PushStart(t) \/ Push(t)
    <2>1. \E from, to \in PushPC \cup {"idle"} : Step(t, from, to)
      BY <1>5, Walking DEF PushStart, ReachReused, Reuse, LoadSlots, ClaimSlot, UndoSlot,
           FillSlot, CountSlot, AnnounceSlot, Push, LoadKey, StoreKey, LoadMax, Drained, Refill, Swap, ResetLoad, Return,
           ResetStore, RangeLo, RangeHi, Peek, Take, StillSame, SkipTaken, Advance,
           AfterLookup, PushPC
    <2> QED
      BY <1>4, <2>1
  <1>6. CASE DeleteStart(t)
    <2>1. PICK h \in held \cup {Invalid} :
            IF h[1] = 0
              THEN Step(t, "idle", "idle") /\ UNCHANGED loc
              ELSE /\ Step(t, "idle", "dreach")
                   /\ Set(t, [NoLocals EXCEPT !.key = h[1], !.item = h[2]])
      BY <1>6 DEF DeleteStart
    <2>2. CASE h[1] = 0
      BY <1>4, <2>1, <2>2
    <2>3. CASE h[1] # 0
      <3>1. h[1] \in Keys /\ h[2] \in Items
        BY <2>3, GivenUp DEF IInv
      <3> DEFINE k == h[1]
                 x == h[2]
                 m == Carrying(k, x)
      <3>2. k \in Keys /\ x \in Items
        BY <3>1
      <3>3. Set(t, m) /\ Step(t, "idle", "dreach")
        BY <2>1, <2>3 DEF Carrying
      <3> HIDE DEF k, x
      <3>4. m \in Locals /\ m.found = FALSE
        BY <3>2, SetKey
      <3> HIDE DEF m
      <3>5. loc'[t] = m
        BY <1>1, <3>3, <3>4, Located
      <3>6. "dreach" \in PCs /\ Scans("dreach", loc'[t])
        BY <3>4, <3>5 DEF Scans, PCs, DeletePC
      <3> QED
        BY <1>3, <3>3, <3>6
    <2> QED
      BY <2>2, <2>3
  <1>7. CASE Disable(t)
    <2>1. CASE Return(t, "disable")
      BY <1>4, <2>1 DEF Return
    <2>2. CASE Step(t, "disable", "dstore") /\ UNCHANGED loc
      <3>1. ~l.found
        BY <1>1, <2>2 DEF Step, Scans
      <3>2. "dstore" \in PCs /\ Scans("dstore", loc'[t])
        BY <2>2, <3>1 DEF Scans, PCs, DeletePC
      <3> QED
        BY <1>3, <2>2, <3>2
    <2> QED
      BY <1>7, <2>1, <2>2 DEF Disable
  <1>8. CASE DStoreKey(t)
    <2> DEFINE k == idx + 1
               m == WithStore(l, k)
    <2>1. k \in Nat
      BY <1>1
    <2>2. Step(t, "dstore", "check") /\ Set(t, m)
      BY <1>8 DEF DStoreKey, WithStore
    <2> HIDE DEF k
    <2>3. m \in Locals /\ m.found = l.found
      BY <1>1, <2>1, SetStore
    <2> HIDE DEF m
    <2>4. loc'[t] = m
      BY <1>1, <2>2, <2>3, Located
    <2>5. ~l.found
      BY <1>1, <2>2 DEF Step, Scans
    <2>6. "check" \in PCs /\ Scans("check", loc'[t])
      BY <2>3, <2>4, <2>5 DEF Scans, PCs, DeletePC
    <2> QED
      BY <1>3, <2>2, <2>6
  <1>9. CASE CheckStore(t)
    <2>1. CASE Step(t, "check", "append")
      BY <1>4, <2>1
    <2>2. CASE Step(t, "check", "drange")
      <3>1. ~l.found /\ loc' = loc
        BY <1>1, <1>9, <2>2 DEF Step, Scans, CheckStore
      <3>2. "drange" \in PCs /\ Scans("drange", loc'[t])
        BY <3>1 DEF Scans, PCs, DeletePC
      <3> QED
        BY <1>3, <2>2, <3>2
    <2> QED
      BY <1>9, <2>1, <2>2 DEF CheckStore
  <1>10. CASE DRange(t)
    <2> DEFINE j == storeIter[StoreVec(t)]
               k == size[StoreVec(t)]
               m == WithRange(l, j, k)
    <2>1. j \in Nat /\ k \in Nat /\ k <= K /\ l \in Locals
      BY <1>1
    <2>2. Step(t, "drange", "dpeek") /\ Set(t, m)
      BY <1>10 DEF DRange, WithRange
    <2>3. ~l.found
      BY <1>1, <2>2 DEF Step, Scans
    <2>4. loc \in [Threads -> Locals]
      BY <1>1
    <2> HIDE DEF l, j, k
    <2>5. m \in Locals /\ m.found = l.found /\ m.hi = k
      BY <2>1, SetRange
    <2> HIDE DEF m
    <2>6. loc'[t] = m
      BY <2>2, <2>4, <2>5, Located
    <2>7. "dpeek" \in PCs /\ Scans("dpeek", loc'[t])
      BY <2>1, <2>3, <2>5, <2>6 DEF Scans, PCs, DeletePC
    <2> QED
      BY <1>3, <2>2, <2>7
  <1>11. CASE DPeek(t)
    <2>0. pc[t] = "dpeek" /\ l.hi <= K /\ (l.found => l.i >= l.hi)
      BY <1>1, <1>11 DEF DPeek, Step, Scans
    <2>1. CASE \E to \in {"dsame", "count", "append"} : Step(t, "dpeek", to)
      BY <1>4, <2>1
    <2>2. CASE /\ Step(t, "dpeek", "dpeek") /\ l.i < l.hi
               /\ Set(t, [l EXCEPT !.i = @ + 1])
      <3> DEFINE j == l.i + 1
                 m == WithI(l, j)
      <3>1. j \in Nat /\ l \in Locals /\ ~l.found /\ loc \in [Threads -> Locals]
        BY <1>1, <2>0, <2>2
      <3>2. Set(t, m)
        BY <2>2 DEF WithI
      <3> HIDE DEF j
      <3>3. m \in Locals /\ m.found = l.found /\ m.hi = l.hi
        BY <3>1, SetI
      <3> HIDE DEF m
      <3>4. loc'[t] = m
        BY <3>1, <3>2, <3>3, Located
      <3>5. "dpeek" \in PCs /\ Scans("dpeek", loc'[t])
        BY <2>0, <3>1, <3>3, <3>4 DEF Scans, PCs, DeletePC
      <3> QED
        BY <1>3, <2>2, <3>5
    <2>3. CASE Step(t, "dpeek", "put") /\ l.i < l.hi /\ UNCHANGED loc
      <3>1. ~l.found
        BY <1>1, <2>0, <2>3
      <3>2. "put" \in PCs /\ Scans("put", loc'[t])
        BY <2>0, <2>3, <3>1 DEF Scans, PCs, DeletePC
      <3> QED
        BY <1>3, <2>3, <3>2
    <2> QED
      BY <1>11, <2>1, <2>2, <2>3 DEF DPeek, AfterScan
  <1>12. CASE Put(t)
    <2>0. Step(t, "put", "dpeek") /\ l.hi <= K /\ ~l.found /\ "dpeek" \in PCs
      BY <1>1, <1>12 DEF Put, Step, Scans, PCs, DeletePC
    <2>1. CASE Set(t, [l EXCEPT !.found = TRUE, !.i = K * (@ \div K + 1)])
      <3> DEFINE j == K * (l.i \div K + 1)
                 m == WithFound(l, j)
      <3>1. j \in Nat /\ j >= l.hi
        <4>1. j \in Nat /\ j >= K
          BY <1>1, NextChunk
        <4> HIDE DEF j
        <4> QED
          BY <1>1, <2>0, <4>1, Consts
      <3>2. Set(t, m) /\ l \in Locals /\ loc \in [Threads -> Locals]
        BY <1>1, <2>1 DEF WithFound
      <3> HIDE DEF j
      <3>3. m \in Locals /\ m.i = j /\ m.hi = l.hi
        BY <3>1, <3>2, SetFound
      <3> HIDE DEF m
      <3>4. loc'[t] = m
        BY <3>2, <3>3, Located
      <3>5. Scans("dpeek", loc'[t])
        BY <2>0, <3>1, <3>3, <3>4 DEF Scans
      <3> QED
        BY <1>3, <2>0, <3>5
    <2>2. CASE Set(t, [l EXCEPT !.miss = @ + 1, !.i = @ + 1])
      <3> DEFINE n == l.miss + 1
                 j == l.i + 1
                 m == WithPassed(l, n, j)
      <3>1. n \in Nat /\ j \in Nat /\ l \in Locals /\ loc \in [Threads -> Locals]
        BY <1>1
      <3>2. Set(t, m)
        BY <2>2 DEF WithPassed
      <3> HIDE DEF n, j
      <3>3. m \in Locals /\ m.found = l.found /\ m.hi = l.hi
        BY <3>1, SetPassed
      <3> HIDE DEF m
      <3>4. loc'[t] = m
        BY <3>1, <3>2, <3>3, Located
      <3>5. Scans("dpeek", loc'[t])
        BY <2>0, <3>3, <3>4 DEF Scans
      <3> QED
        BY <1>3, <2>0, <3>5
    <2> QED
      BY <1>12, <2>1, <2>2 DEF Put
  <1>13. CASE DSame(t) \/ DSkip(t) \/ Append(t) \/ AppendWrite(t) \/ AppendAnnounce(t)
              \/ CountKey(t)
    <2>1. \E from, to \in {"dsame", "dskip", "count", "append", "dwrite", "dannounce",
                           "idle"} : Step(t, from, to)
      BY <1>13 DEF DSame, DSkip, AfterScan, Append, AppendWrite, AppendAnnounce, CountKey,
                   Return
    <2> QED
      BY <1>4, <2>1
  <1>14. CASE ReachDeleted(t)
    <2>1. PICK to \in {"dreach", "disable"} : Step(t, "dreach", to)
      BY <1>14, Walking DEF ReachDeleted
    <2>2. ~l.found /\ l.key # 0
      BY <1>1, <2>1, CallAt DEF Step, Scans, Fits, DeletePC, IInv
    <2>3. ~loc'[t].found
      BY <1>14, <2>2, WalkKeeps DEF ReachDeleted
    <2>4. to \in PCs /\ Scans(to, loc'[t])
      BY <2>3 DEF Scans, PCs, DeletePC
    <2> QED
      BY <1>3, <2>1, <2>4
  <1> QED
    BY <1>5, <1>6, <1>7, <1>8, <1>9, <1>10, <1>11, <1>12, <1>13, <1>14 DEF Delete

\* A delete gives the key it was handed to one free cell.
LEMMA DeleteKeys ==
  ASSUME IInv, Scanning, NEW t \in Threads, DeleteStart(t) \/ Delete(t)
  PROVE  \/ KeysStay
         \/ DeleteStart(t) /\ \E h : MovesKey("held", h, "call", t)
         \/ pc[t] \in {"put", "dwrite"} /\ \E c : MovesKey("call", t, "cell", c)
  <1> DEFINE l == loc[t]
             v == StoreVec(t)
             Always == {"dreach", "disable", "dstore", "check", "drange", "append"}
             Scan == {"dpeek", "put", "dsame", "dskip"}
  <1>1. /\ l \in Locals /\ l.key \in Keys /\ l.i \in Nat /\ l.miss \in Nat /\ l.at \in Nat
        /\ v \in Vecs /\ Fits(pc[t], l, idx) /\ Scans(pc[t], l)
        /\ idx \in Nat /\ storeIter \in [Vecs -> Nat] /\ claimed \in [Vecs -> Nat]
        /\ size \in [Vecs -> Nat] /\ cells \in [Vecs -> [Positions -> Keys]]
        /\ loc \in [Threads -> Locals]
    BY CallAt DEF IInv, Scanning, Calls
  <1>2. \A u \in Threads \ {t} : loc'[u] = loc[u]
    BY OwnLocals, Walking DEF IInv, DeleteStart, Delete, ReachDeleted, Disable, DStoreKey, CheckStore, DRange,
           DPeek, Put, DSame, DSkip, Append, AppendWrite, AppendAnnounce, CountKey
  <1>3. held' \subseteq held
    BY Walking DEF DeleteStart, Delete, ReachDeleted, Disable, DStoreKey, CheckStore, DRange, DPeek, Put, DSame,
           DSkip, Append, AppendWrite, AppendAnnounce, CountKey, clients
  <1>4. ASSUME NEW from, NEW to \in {"idle", "count"}, Step(t, from, to), cells' = cells
        PROVE  KeysStay
    <2>1. to \in PCs /\ \A k : ~Carries(to, loc'[t], k)
      BY DEF Carries, PCs, DeletePC
    <2> QED
      BY <1>2, <1>3, <1>4, <2>1, Quiet
  <1>5. ASSUME NEW from, NEW to \in Always \cup Scan \cup {"dwrite"}, Step(t, from, to),
               cells' = cells, loc'[t].key = l.key, loc'[t].found = l.found,
               \/ from \in Always
               \/ from \in Scan /\ to \in Scan
               \/ from \in Scan /\ ~l.found
        PROVE  KeysStay
    <2>1. to \in PCs
      BY DEF PCs, DeletePC
    <2>2. \A k : Carries(to, loc'[t], k) => Carries(from, l, k)
      BY <1>5 DEF Carries
    <2> QED
      BY <1>2, <1>3, <1>5, <2>1, <2>2, Quiet
  <1>6. \A k, place, x : IsAt(k, place, x)' => place \in {"held", "call", "cell"}
    BY DEF IsAt
  <1>7. CASE DeleteStart(t)
    <2>1. PICK h \in held \cup {Invalid} :
            /\ held' = held \ {h}
            /\ IF h[1] = 0
                 THEN Step(t, "idle", "idle") /\ UNCHANGED loc
                 ELSE /\ Step(t, "idle", "dreach")
                      /\ Set(t, [NoLocals EXCEPT !.key = h[1], !.item = h[2]])
      BY <1>7 DEF DeleteStart
    <2>2. cells' = cells
      BY <1>7 DEF DeleteStart, free
    <2>3. CASE h[1] = 0
      BY <1>4, <2>1, <2>2, <2>3
    <2>4. CASE h[1] # 0
      <3>1. h \in held /\ h[1] \in Keys /\ h[2] \in Items
        BY <2>4, GivenUp DEF IInv
      <3> DEFINE n == h[1]
                 x == h[2]
                 m == Carrying(n, x)
      <3>2. Set(t, m) /\ Step(t, "idle", "dreach")
        BY <2>1, <2>4 DEF Carrying
      <3>3. n \in Keys /\ x \in Items
        BY <3>1
      <3> HIDE DEF n, x
      <3>4. m \in Locals /\ m.key = n
        BY <3>3, SetKey
      <3> HIDE DEF m
      <3>5. loc'[t].key = n
        BY <1>1, <3>2, <3>4, Located
      <3>6. /\ \A k, u : u # t => (IsAt(k, "call", u)' <=> IsAt(k, "call", u))
            /\ \A k : IsAt(k, "call", t)' <=> Carries("dreach", loc'[t], k)
        <4>1. "dreach" \in PCs
          BY DEF PCs, DeletePC
        <4> QED
          BY <1>2, <3>2, <4>1, OthersCarry
      <3>7. \A k : IsAt(k, "call", t)' => IsAt(k, "held", h)
        BY <3>1, <3>5, <3>6 DEF Carries, IsAt, n
      <3>8. \A k, y : IsAt(k, "held", y)' => y # h /\ IsAt(k, "held", y)
        BY <2>1 DEF IsAt
      <3>9. \A k, y : IsAt(k, "cell", y)' => IsAt(k, "cell", y)
        BY <2>2 DEF IsAt, FreeCells
      <3>10. MovesKey("held", h, "call", t)
        BY <1>6, <3>6, <3>7, <3>8, <3>9 DEF MovesKey
      <3> QED
        BY <1>7, <3>10
    <2> QED
      BY <2>3, <2>4
  <1>8. CASE Disable(t)
    BY <1>4, <1>5, <1>8 DEF Disable, Return, free
  <1>9. CASE DStoreKey(t)
    <2> DEFINE k == idx + 1
               m == WithStore(l, k)
    <2>1. k \in Nat
      BY <1>1
    <2>2. Step(t, "dstore", "check") /\ Set(t, m) /\ cells' = cells
      BY <1>9 DEF DStoreKey, WithStore, free
    <2> HIDE DEF k
    <2>3. m \in Locals /\ m.key = l.key /\ m.found = l.found
      BY <1>1, <2>1, SetStore
    <2> HIDE DEF m
    <2>4. loc'[t] = m
      BY <1>1, <2>2, <2>3, Located
    <2> QED
      BY <1>5, <2>2, <2>3, <2>4
  <1>10. CASE CheckStore(t)
    BY <1>5, <1>10 DEF CheckStore, free
  <1>11. CASE DRange(t)
    <2> DEFINE j == storeIter[v]
               k == size[v]
               m == WithRange(l, j, k)
    <2>1. j \in Nat /\ k \in Nat /\ l \in Locals /\ loc \in [Threads -> Locals]
      BY <1>1
    <2>2. Step(t, "drange", "dpeek") /\ Set(t, m) /\ cells' = cells
      BY <1>11 DEF DRange, WithRange, free
    <2> HIDE DEF l, j, k
    <2>3. m \in Locals /\ m.key = l.key /\ m.found = l.found
      BY <2>1, SetRange
    <2> HIDE DEF m
    <2>4. loc'[t] = m
      BY <2>1, <2>2, <2>3, Located
    <2> QED
      BY <1>5, <2>2, <2>3, <2>4 DEF l
  <1>12. CASE DPeek(t)
    <2>0. cells' = cells
      BY <1>12 DEF DPeek, free
    <2>1. CASE /\ Step(t, "dpeek", IF l.miss > 0 THEN "dsame" ELSE AfterScan(t))
               /\ UNCHANGED loc
      BY <1>4, <1>5, <2>0, <2>1 DEF AfterScan
    <2>2. CASE Step(t, "dpeek", "dpeek") /\ Set(t, [l EXCEPT !.i = @ + 1])
      <3> DEFINE j == l.i + 1
                 m == WithI(l, j)
      <3>1. j \in Nat
        BY <1>1
      <3>2. Set(t, m)
        BY <2>2 DEF WithI
      <3> HIDE DEF j
      <3>3. m \in Locals /\ m.key = l.key /\ m.found = l.found
        BY <1>1, <3>1, SetI
      <3> HIDE DEF m
      <3>4. loc'[t] = m
        BY <1>1, <3>2, <3>3, Located
      <3> QED
        BY <1>5, <2>0, <2>2, <3>3, <3>4
    <2>3. CASE Step(t, "dpeek", "put") /\ UNCHANGED loc
      BY <1>5, <2>0, <2>3
    <2> QED
      BY <1>12, <2>1, <2>2, <2>3 DEF DPeek
  <1>13. CASE Put(t)
    <2>1. Step(t, "put", "dpeek") /\ ~l.found /\ "dpeek" \in PCs /\ held' = held
      BY <1>1, <1>13 DEF Put, Step, Scans, PCs, DeletePC, clients
    <2>2. CASE /\ cells' = [cells EXCEPT ![v][l.i] = l.key]
               /\ Set(t, [l EXCEPT !.found = TRUE, !.i = K * (@ \div K + 1)])
      <3> DEFINE j == K * (l.i \div K + 1)
                 m == WithFound(l, j)
      <3>1. j \in Nat
        BY <1>1, NextChunk
      <3>2. Set(t, m)
        BY <2>2 DEF WithFound
      <3> HIDE DEF j
      <3>3. m \in Locals /\ m.found
        BY <1>1, <3>1, SetFound
      <3> HIDE DEF m
      <3>4. loc'[t] = m
        BY <1>1, <3>2, <3>3, Located
      <3>5. \A k : ~Carries("dpeek", loc'[t], k)
        BY <3>3, <3>4 DEF Carries
      <3>6. \A k : k = l.key => Carries("put", l, k)
        BY <2>1 DEF Carries
      <3>7. PICK w \in Vecs, n \in Keys, p \in Nat : w = v /\ p = l.i /\ n = l.key
        BY <1>1
      <3> DEFINE c == <<w, p>>
      <3>8. /\ \A k, x : IsAt(k, "cell", x)' /\ x # c => IsAt(k, "cell", x)
            /\ \A k : IsAt(k, "cell", c)' => k = n
        <4>1. cells' = [cells EXCEPT ![w][p] = n]
          BY <2>2, <3>7
        <4> QED
          BY <1>1, <4>1, CellSet
      <3> HIDE DEF c
      <3>9. /\ \A k, u : u # t => (IsAt(k, "call", u)' <=> IsAt(k, "call", u))
            /\ \A k : ~IsAt(k, "call", t)'
            /\ \A k : k = n => IsAt(k, "call", t)
        BY <1>2, <2>1, <3>5, <3>6, <3>7, OthersCarry
      <3>10. \A k, x : IsAt(k, "held", x)' => IsAt(k, "held", x)
        BY <2>1 DEF IsAt
      <3>11. MovesKey("call", t, "cell", c)
        BY <1>6, <3>8, <3>9, <3>10 DEF MovesKey
      <3> QED
        BY <2>1, <3>11 DEF Step
    <2>3. CASE UNCHANGED cells /\ Set(t, [l EXCEPT !.miss = @ + 1, !.i = @ + 1])
      <3> DEFINE n == l.miss + 1
                 j == l.i + 1
                 m == WithPassed(l, n, j)
      <3>1. n \in Nat /\ j \in Nat /\ l \in Locals /\ loc \in [Threads -> Locals]
        BY <1>1
      <3>2. Set(t, m)
        BY <2>3 DEF WithPassed
      <3> HIDE DEF n, j
      <3>3. m \in Locals /\ m.key = l.key /\ m.found = l.found
        BY <3>1, SetPassed
      <3> HIDE DEF m
      <3>4. loc'[t] = m
        BY <3>1, <3>2, <3>3, Located
      <3> QED
        BY <1>5, <2>1, <2>3, <3>3, <3>4
    <2> QED
      BY <1>13, <2>2, <2>3 DEF Put
  <1>14. CASE DSame(t) \/ DSkip(t)
    <2>1. /\ \E from \in {"dsame", "dskip"} :
               Step(t, from, AfterScan(t)) \/ Step(t, from, "dskip")
          /\ UNCHANGED <<cells, loc>>
      BY <1>14 DEF DSame, DSkip, free
    <2> QED
      BY <1>4, <1>5, <2>1 DEF AfterScan
  <1>15. CASE Append(t)
    <2> DEFINE p == claimed[v]
               m == WithAt(l, p)
    <2>1. p \in Nat
      BY <1>1
    <2>2. Step(t, "append", "dwrite") /\ Set(t, m) /\ cells' = cells
      BY <1>15 DEF Append, WithAt
    <2> HIDE DEF p
    <2>3. m \in Locals /\ m.key = l.key /\ m.found = l.found
      BY <1>1, <2>1, SetPlace
    <2> HIDE DEF m
    <2>4. loc'[t] = m
      BY <1>1, <2>2, <2>3, Located
    <2> QED
      BY <1>5, <2>2, <2>3, <2>4
  <1>16. CASE AppendWrite(t)
    <2>1. Step(t, "dwrite", "dannounce") /\ "dannounce" \in PCs /\ held' = held
      BY <1>16 DEF AppendWrite, PCs, DeletePC, clients
    <2>2. PICK w \in Vecs, n \in Keys, p \in Nat : w = v /\ p = l.at /\ n = l.key
      BY <1>1
    <2> DEFINE c == <<w, p>>
    <2>3. /\ \A k, x : IsAt(k, "cell", x)' /\ x # c => IsAt(k, "cell", x)
          /\ \A k : IsAt(k, "cell", c)' => k = n
      <3>1. cells' = [cells EXCEPT ![w][p] = n]
        BY <1>16, <2>2 DEF AppendWrite
      <3> QED
        BY <1>1, <3>1, CellSet
    <2> HIDE DEF c
    <2>4. /\ \A k : ~Carries("dannounce", loc'[t], k)
          /\ \A k : k = n => Carries("dwrite", l, k)
      BY <2>2 DEF Carries
    <2>5. /\ \A k, u : u # t => (IsAt(k, "call", u)' <=> IsAt(k, "call", u))
          /\ \A k : ~IsAt(k, "call", t)'
          /\ \A k : k = n => IsAt(k, "call", t)
      BY <1>2, <2>1, <2>4, OthersCarry
    <2>6. \A k, x : IsAt(k, "held", x)' => IsAt(k, "held", x)
      BY <2>1 DEF IsAt
    <2>7. MovesKey("call", t, "cell", c)
      BY <1>6, <2>3, <2>5, <2>6 DEF MovesKey
    <2> QED
      BY <2>1, <2>7 DEF Step
  <1>17. CASE AppendAnnounce(t) \/ CountKey(t)
    BY <1>4, <1>17 DEF AppendAnnounce, CountKey, Return
  <1>18. CASE ReachDeleted(t)
    <2>1. /\ Step(t, "dreach", "dreach") \/ Step(t, "dreach", "disable")
          /\ cells' = cells
      BY <1>18, Walking DEF ReachDeleted
    <2>2. l.key # 0
      BY <1>1, <2>1 DEF Step, Fits, DeletePC
    <2>3. loc'[t].key = l.key /\ loc'[t].found = l.found
      BY <1>18, <2>2, WalkKeeps DEF ReachDeleted
    <2> QED
      BY <1>5, <2>1, <2>3
  <1> QED
    BY <1>7, <1>8, <1>9, <1>10, <1>11, <1>12, <1>13, <1>14, <1>15, <1>16, <1>17, <1>18
    DEF Delete

\* What is known of scans and keys holds at the start.
LEMMA InitialKeys ==
  ASSUME Init
  PROVE  KeyInvariant
  <1>1. IInv
    BY Initial
  <1>2. Scanning
    BY DEF Init, Scanning, Scans
  <1>3. \A k, place, x : ~IsAt(k, place, x)
    BY DEF Init, IsAt, Carries, FreeCells
  <1> QED
    BY <1>1, <1>2, <1>3 DEF KeyInvariant, Sole

\* Every step keeps it.
LEMMA KeysInductive ==
  ASSUME OneChunk, KeyInvariant, [Next]_vars
  PROVE  KeyInvariant'
  <1>0. IInv' /\ IInv /\ Scanning
    BY Inductive DEF KeyInvariant, Scanning
  <1>1. ASSUME NEW t \in Threads, PushStart(t) \/ DeleteStart(t) \/ Push(t) \/ Delete(t)
        PROVE  KeyInvariant'
    <2>1. Scanning'
      BY <1>0, <1>1, ScansKept
    <2>2. ASSUME Nameable' PROVE Sole'
      <3>1. slotsSize' = slotsSize \/ slotsSize' = slotsSize + 1
        BY <1>1, Walking DEF PushStart, ReachReused, Reuse, LoadSlots, ClaimSlot, UndoSlot,
             FillSlot, CountSlot, AnnounceSlot, Push, ReachDeleted, LoadKey, StoreKey, LoadMax, Drained, Refill, Swap, ResetLoad,
             ResetStore, RangeLo, RangeHi, Peek, Take, StillSame, SkipTaken, Advance,
             DeleteStart, Delete, Disable, DStoreKey, CheckStore, DRange, DPeek, Put,
             DSame, DSkip, Append, AppendWrite, AppendAnnounce, CountKey, items
      <3>2. Sole
        BY <1>0, <2>2, <3>1, NameableBefore DEF KeyInvariant
      <3>3. CASE Lookup(t)
        <4>1. slotsSize' = slotsSize
          BY <3>3 DEF Lookup, LoadKey, StoreKey, LoadMax, Drained, Refill, Swap, ResetLoad,
             ResetStore, RangeLo, RangeHi, Peek, Take, StillSame, SkipTaken, Advance, items
        <4> QED
          BY <1>0, <3>2, <3>3, <4>1, LookupKeys, KeysStayed, KeyMoved
      <3>4. CASE DeleteStart(t) \/ Delete(t)
        <4>1. slotsSize' = slotsSize
          BY <3>4, Walking DEF DeleteStart, Delete, ReachDeleted, Disable, DStoreKey, CheckStore, DRange, DPeek, Put,
             DSame, DSkip, Append, AppendWrite, AppendAnnounce, CountKey, items
        <4> QED
          BY <1>0, <3>2, <3>4, <4>1, DeleteKeys, KeysStayed, KeyMoved
      <3>5. CASE Passing(t) \/ Reuse(t)
        <4>1. slotsSize' = slotsSize
          BY <3>5, Walking DEF Passing, PushStart, ReachReused, Reuse, LoadSlots, ClaimSlot,
             UndoSlot, FillSlot, CountSlot, items
        <4> QED
          BY <1>0, <3>2, <3>5, <4>1, PushKeys, KeysStayed, KeyMoved DEF Passing, Storing
      <3>6. CASE AnnounceSlot(t)
        <4>1. slotsSize' = slotsSize + 1
          BY <3>6 DEF AnnounceSlot
        <4> QED
          BY <1>0, <2>2, <3>2, <3>6, <4>1, PushKeys, KeyAdded DEF Storing
      <3> QED
        BY <1>1, <3>3, <3>4, <3>5, <3>6 DEF Push, Lookup, Passing
    <2> QED
      BY <1>0, <2>1, <2>2 DEF KeyInvariant, Scanning
  <1>2. ASSUME UNCHANGED vars PROVE KeyInvariant'
    <2>1. UNCHANGED <<free, items, clients, pc, loc>>
      BY <1>2 DEF vars
    <2>2. Scanning' /\ (Nameable' <=> Nameable)
      BY <1>0, <2>1 DEF Scanning, items, Nameable
    <2>3. slotsSize' = slotsSize /\ \A k, place, x : IsAt(k, place, x)' <=> IsAt(k, place, x)
      BY <2>1 DEF items, clients, free, IsAt, FreeCells
    <2>4. Sole => Sole'
      BY <2>3, KeysStayed DEF KeysStay
    <2> QED
      BY <1>0, <2>2, <2>4 DEF KeyInvariant, Scanning
  <1> QED
    BY <1>1, <1>2 DEF Next

\* As long as the free vectors are within one chunk, no key is in two places.
THEOREM KeyInvariance == Spec /\ []OneChunk => []KeyInvariant
  <1>1. Init => KeyInvariant
    BY InitialKeys
  <1>2. OneChunk /\ KeyInvariant /\ [Next]_vars => KeyInvariant'
    BY KeysInductive
  <1> QED
    BY <1>1, <1>2, PTL DEF Spec

\* push() hands out no key that is held, in the hands of a call or free, and a deleted
\* key becomes free once, as long as the free vectors are within one chunk.
THEOREM KeysUnique == Spec /\ []OneChunk => []KeyUnique
  <1>1. KeyInvariant => KeyUnique
    BY SoleIsUnique
  <1> QED
    BY <1>1, KeyInvariance, PTL

-----------------------------------------------------------------------------
(* Slots *)

\* The slot of a key that may be reused is disabled, and nobody is about to fill it.
Freed(k) ==
  /\ slots[k - 1] = 0
  /\ \A t \in Threads : pc[t] = "fill" => loc[t].at # k - 1

\* Slots are filled once: by the thread that claimed them, while they are disabled.
Fills ==
  /\ \A t \in Threads : pc[t] = "fill" =>
       /\ loc[t].at < slotsClaimed
       /\ slots[loc[t].at] = 0
       /\ \A u \in Threads \ {t} : pc[u] = "fill" => loc[u].at # loc[t].at
  /\ \A p \in Positions : p >= slotsClaimed => slots[p] = 0

\* The places of a delete() that does not know yet what the slot holds.
Before == {"dreach", "disable"}

\* k is in a free cell, or in the hands of a call that found its slot disabled.
Loose(k) ==
  \E x : IsAt(k, "cell", x) \/ (IsAt(k, "call", x) /\ pc[x] \notin Before)

\* What is known of the slots, wherever the walks lead.
SlotInvariant ==
  /\ KeyInvariant
  /\ \A k : Loose(k) => Freed(k)
  /\ Fills

\* The walks led to the slots of the keys.
Exact == \A t \in Threads : pc[t] \in {"reuse", "disable"} => loc[t].at = loc[t].key - 1

\* A loose key is one of an announced slot.
LEMMA SlotsNamed ==
  ASSUME Nameable, KeyInvariant
  PROVE  /\ Sole
         /\ \A k : Loose(k) => k \in Nat /\ k # 0 /\ k <= slotsSize /\ k - 1 \in Positions
  <1>1. Nameable /\ IInv
    BY Numbers, Consts DEF KeyInvariant, Nameable, Nameable
  <1>2. Sole
    BY <1>1 DEF KeyInvariant
  <1>3. ASSUME NEW k, Loose(k)
        PROVE  k \in Nat /\ k # 0 /\ k <= slotsSize /\ k - 1 \in Positions
    <2>1. k \in Nat /\ k # 0 /\ k <= slotsSize
      BY <1>1, <1>2, <1>3, KeysAreNumbers DEF Loose, Sole
    <2>2. slotsSize \in Nat /\ slotsSize <= MaxItems /\ MaxItems \in Nat
      BY <1>1, Numbers, Consts
    <2> QED
      BY <2>1, <2>2 DEF Positions
  <1> QED
    BY <1>2, <1>3

\* A call that is about to write a slot a key names carries a loose key.
LEMMA ReuseIsLoose ==
  ASSUME IInv, NEW t \in Threads, pc[t] = "reuse"
  PROVE  Loose(loc[t].key) /\ IsAt(loc[t].key, "call", t)
  <1>1. loc[t].key # 0
    BY CallAt DEF IInv, Fits
  <1> QED
    BY <1>1 DEF Loose, IsAt, Carries, Before

\* The slots push() is about to write are disabled, where the walks led to them.
LEMMA WrittenDisabled ==
  ASSUME SlotInvariant, Exact, NEW t \in Threads
  PROVE  /\ pc[t] = "reuse" => slots[loc[t].at] = 0
         /\ pc[t] = "fill" => slots[loc[t].at] = 0
  BY ReuseIsLoose DEF SlotInvariant, KeyInvariant, Freed, Exact, Fills

\* That is what WritesDisabledSlot says.
LEMMA SlotsDisabled ==
  ASSUME InRoot => SlotInvariant /\ Exact
  PROVE  WritesDisabledSlot
  BY WrittenDisabled DEF WritesDisabledSlot

\* Nobody begins or ends to fill a slot.
SameFills ==
  \A u \in Threads : /\ pc'[u] = "fill" <=> pc[u] = "fill"
                     /\ pc[u] = "fill" => loc'[u].at = loc[u].at

\* A step that fills no slot and lets no key loose.
LEMMA SlotsKept ==
  ASSUME SlotInvariant, slots' = slots, slotsClaimed' = slotsClaimed, SameFills,
         \A k : Loose(k)' => Loose(k)
  PROVE  (\A k : Loose(k) => Freed(k))' /\ Fills'
  <1>1. ASSUME NEW k, Freed(k) PROVE Freed(k)'
    BY <1>1 DEF Freed, SameFills
  <1>2. Fills'
    BY DEF SlotInvariant, Fills, SameFills
  <1> QED
    BY <1>1, <1>2 DEF SlotInvariant

\* A step of a thread that neither fills nor begins to fill.
LEMMA FillsNot ==
  ASSUME IInv, NEW t \in Threads, NEW from, NEW to \in PCs, Step(t, from, to),
         \A u \in Threads \ {t} : loc'[u] = loc[u], from # "fill", to # "fill"
  PROVE  SameFills
  <1>1. /\ pc[t] = from /\ pc'[t] = to
        /\ \A u \in Threads \ {t} : pc'[u] = pc[u]
    BY Moved DEF IInv, TypeOK, PCs
  <1> QED
    BY <1>1 DEF SameFills

\* The lookup, and a delete that does not disable, let no key loose.
LEMMA LooseKept ==
  ASSUME IInv, NEW t \in Threads, NEW from, NEW to \in PCs, Step(t, from, to),
         \A u \in Threads \ {t} : loc'[u] = loc[u],
         \/ KeysStay /\ (from \notin Before \/ to \in Before \cup {"idle"})
         \/ (\E c : MovesKey("cell", c, "call", t)) /\ from \notin Before
         \/ (\E c : MovesKey("call", t, "cell", c)) /\ from \notin Before
         \/ (\E h : MovesKey("held", h, "call", t)) /\ to \in Before \cup {"idle"}
         \/ (\E h : MovesKey("call", t, "held", h)) /\ to = "idle"
         \/ (\E h : AddsKey(h)) /\ from \notin Before
  PROVE  \A k : Loose(k)' => Loose(k)
  <1>1. /\ pc[t] = from /\ pc'[t] = to
        /\ \A u \in Threads \ {t} : pc'[u] = pc[u]
    BY Moved DEF IInv, TypeOK, PCs
  <1>2. \A k, x : IsAt(k, "call", x)' => x \in Threads
    BY DEF IsAt
  <1>3. to = "idle" => \A k : ~IsAt(k, "call", t)'
    BY <1>1 DEF IsAt, Carries
  <1>4. CASE KeysStay /\ (from \notin Before \/ to \in Before \cup {"idle"})
    BY <1>1, <1>2, <1>3, <1>4 DEF KeysStay, Loose, Before
  <1>5. ASSUME NEW c, MovesKey("cell", c, "call", t), from \notin Before
        PROVE  \A k : Loose(k)' => Loose(k)
    BY <1>1, <1>2, <1>5 DEF MovesKey, Loose
  <1>6. ASSUME NEW c, MovesKey("call", t, "cell", c), from \notin Before
        PROVE  \A k : Loose(k)' => Loose(k)
    BY <1>1, <1>2, <1>6 DEF MovesKey, Loose
  <1>7. ASSUME NEW h, MovesKey("held", h, "call", t), to \in Before \cup {"idle"}
        PROVE  \A k : Loose(k)' => Loose(k)
    BY <1>1, <1>2, <1>3, <1>7 DEF MovesKey, Loose, Before
  <1>8. ASSUME NEW h, MovesKey("call", t, "held", h), to = "idle"
        PROVE  \A k : Loose(k)' => Loose(k)
    BY <1>1, <1>2, <1>3, <1>8 DEF MovesKey, Loose
  <1>9. ASSUME NEW h, AddsKey(h), from \notin Before
        PROVE  \A k : Loose(k)' => Loose(k)
    BY <1>1, <1>2, <1>9 DEF AddsKey, Loose
  <1> QED
    BY <1>4, <1>5, <1>6, <1>7, <1>8, <1>9

\* What it says beyond the keys.
FreeAndFills == (\A k : Loose(k) => Freed(k)) /\ Fills

\* A slot that is taken out is one nobody is about to fill.
LEMMA DisableSlots ==
  ASSUME Nameable, SlotInvariant, Exact, NEW t \in Threads, Disable(t)
  PROVE  FreeAndFills'
  <1> DEFINE l == loc[t]
             p == l.key - 1
  <1>1. IInv /\ Scanning /\ Sole /\ KeyInvariant /\ Fills
    BY SlotsNamed DEF SlotInvariant, KeyInvariant, Scanning
  <1>2. \A u \in Threads \ {t} : loc'[u] = loc[u]
    BY <1>1, OwnLocals DEF IInv, Disable
  <1>3. CASE Return(t, "disable") /\ slots' = slots
    <2>1. Step(t, "disable", "idle") /\ slotsClaimed' = slotsClaimed /\ "idle" \in PCs
          /\ cells' = cells /\ held' = held
      BY <1>3 DEF Disable, Return, free, clients, PCs
    <2>2. SameFills
      BY <1>1, <1>2, <2>1, FillsNot
    <2>3. KeysStay
      BY <1>1, <1>2, <2>1, Quiet DEF Carries
    <2>4. \A k : Loose(k)' => Loose(k)
      BY <1>1, <1>2, <2>1, <2>3, LooseKept DEF Before
    <2> QED
      BY <1>3, <2>1, <2>2, <2>4, SlotsKept DEF FreeAndFills
  <1>4. CASE /\ Step(t, "disable", "dstore") /\ slots[p] # 0 /\ UNCHANGED loc
             /\ slots' = [slots EXCEPT ![p] = 0]
    <2>1. slotsClaimed' = slotsClaimed /\ "dstore" \in PCs /\ cells' = cells
          /\ pc[t] = "disable" /\ pc'[t] = "dstore"
          /\ \A u \in Threads \ {t} : pc'[u] = pc[u]
      <3>1. "dstore" \in PCs /\ pc \in [Threads -> PCs]
        BY <1>1 DEF PCs, DeletePC, IInv, TypeOK
      <3> QED
        BY <1>4, <3>1, Moved DEF Disable, free
    <2>2. SameFills
      BY <1>1, <1>2, <1>4, <2>1, FillsNot
    <2>3. p \in Positions /\ slots \in [Positions -> Items \cup {0}]
      <3>1. IsAt(l.key, "call", t)
        BY <2>1 DEF IsAt, Carries
      <3>2. l.key # 0 /\ l.key <= slotsSize
        BY <1>1, <3>1 DEF Sole
      <3>3. l.key \in Nat /\ slotsSize \in Nat /\ slotsSize <= MaxItems /\ MaxItems \in Nat
        BY <1>1, <3>1, KeysAreNumbers, Numbers, Consts
      <3> QED
        BY <1>1, <3>2, <3>3 DEF Positions, IInv, TypeOK
    <2>4. slots'[p] = 0 /\ \A q : slots[q] = 0 /\ q \in Positions => slots'[q] = 0
      BY <1>4, <2>3
    <2>5. \A q \in Positions \ {p} : slots'[q] = slots[q]
      BY <1>4, <2>3
    <2>6. \A u \in Threads : pc[u] = "fill" => loc[u].at # p
      BY <1>1, <1>4 DEF Fills
    <2>7. ASSUME NEW k, Loose(k)' PROVE Freed(k)'
      <3>1. CASE k = l.key
        BY <2>2, <2>4, <2>6, <3>1 DEF Freed, SameFills
      <3>2. CASE k # l.key
        <4>1. Loose(k)
          <5>1. \A x : IsAt(k, "cell", x)' => IsAt(k, "cell", x)
            BY <2>1 DEF IsAt, FreeCells
          <5>2. \A x : IsAt(k, "call", x)' => x # t /\ IsAt(k, "call", x)
            BY <1>4, <2>1, <3>2 DEF IsAt, Carries
          <5>3. \A x : IsAt(k, "call", x) => x \in Threads
            BY DEF IsAt
          <5> QED
            BY <2>1, <2>7, <5>1, <5>2, <5>3 DEF Loose, Before
        <4>2. Freed(k) /\ k - 1 \in Positions
          BY <1>1, <4>1, SlotsNamed DEF SlotInvariant
        <4> QED
          BY <2>2, <2>4, <4>2 DEF Freed, SameFills
      <3> QED
        BY <3>1, <3>2
    <2>8. Fills'
      <3>1. ASSUME NEW u \in Threads, pc'[u] = "fill"
            PROVE  /\ loc'[u].at < slotsClaimed' /\ slots'[loc'[u].at] = 0
                   /\ \A w \in Threads \ {u} : pc'[w] = "fill" => loc'[w].at # loc'[u].at
        <4>1. pc[u] = "fill" /\ loc'[u].at = loc[u].at
          BY <2>2, <3>1 DEF SameFills
        <4>2. /\ loc[u].at < slotsClaimed /\ slots[loc[u].at] = 0
              /\ \A w \in Threads \ {u} : pc[w] = "fill" => loc[w].at # loc[u].at
          BY <1>1, <4>1 DEF Fills
        <4>3. loc[u].at \in Positions
          <5>1. loc[u].at \in Nat /\ slotsClaimed \in Nat /\ slotsClaimed <= MaxItems
            BY <1>1, CallAt, Numbers DEF IInv
          <5> QED
            BY <4>2, <5>1, Consts DEF Positions
        <4> QED
          BY <2>1, <2>2, <2>4, <4>1, <4>2, <4>3 DEF SameFills
      <3>2. \A q \in Positions : q >= slotsClaimed' => slots'[q] = 0
        BY <1>1, <2>1, <2>4 DEF Fills
      <3> QED
        BY <3>1, <3>2 DEF Fills
    <2> QED
      BY <2>7, <2>8 DEF FreeAndFills
  <1> QED
    <2>1. pc[t] = "disable"
      BY DEF Disable, Return, Step
    <2>2. loc[t].at = p
      BY <2>1 DEF Exact
    <2> HIDE DEF p
    <2> QED
      BY <1>3, <1>4, <2>2 DEF Disable

\* What the slots of an invariant state are known to hold.
LEMMA SlotFacts ==
  ASSUME Nameable, SlotInvariant
  PROVE  /\ KeyInvariant /\ IInv /\ Scanning /\ Sole /\ Fills
         /\ slots \in [Positions -> Items \cup {0}]
         /\ slotsSize \in Nat /\ slotsClaimed \in Nat /\ slotsClaimed <= MaxItems
         /\ \A k : Loose(k) => /\ Freed(k) /\ k \in Nat /\ k # 0 /\ k <= slotsSize
                               /\ k - 1 \in Positions
         /\ \A u \in Threads : loc[u].at \in Nat
         /\ \A u \in Threads : pc[u] = "fill" => loc[u].at \in Positions
         /\ \A u \in Threads : slotsSize <= slotsClaimed
         /\ MaxItems \in Nat
  <1>1. KeyInvariant /\ IInv /\ Scanning /\ Sole /\ Fills
    BY SlotsNamed DEF SlotInvariant, KeyInvariant, Scanning
  <1>2. slots \in [Positions -> Items \cup {0}]
    BY <1>1 DEF IInv, TypeOK
  <1>3. slotsSize \in Nat /\ slotsClaimed \in Nat /\ slotsClaimed <= MaxItems
    BY <1>1, Numbers
  <1>4. \A k : Loose(k) => /\ Freed(k) /\ k \in Nat /\ k # 0 /\ k <= slotsSize
                           /\ k - 1 \in Positions
    BY <1>1, SlotsNamed DEF SlotInvariant
  <1>5. \A u \in Threads : loc[u].at \in Nat
    BY <1>1 DEF IInv, Calls, Locals
  <1>6. \A u \in Threads : pc[u] = "fill" => loc[u].at \in Positions
    BY <1>1, <1>3, <1>5, Consts DEF Fills, Positions
  <1>7. \A u \in Threads : slotsSize <= slotsClaimed
    BY <1>1, Room
  <1> QED
    BY <1>1, <1>2, <1>3, <1>4, <1>5, <1>6, <1>7, Consts

\* A slot that is written over is one whose key was loose, and is no longer.
LEMMA ReuseSlots ==
  ASSUME Nameable, SlotInvariant, Exact, NEW t \in Threads, Reuse(t)
  PROVE  FreeAndFills'
  <1> DEFINE l == loc[t]
             p == l.key - 1
  <1>1. IInv /\ Sole /\ Fills /\ slots \in [Positions -> Items \cup {0}]
    BY SlotFacts
  <1>2. \A u \in Threads \ {t} : loc'[u] = loc[u]
    BY <1>1, OwnLocals DEF IInv, Reuse
  <1>3. /\ Step(t, "reuse", "idle") /\ slotsClaimed' = slotsClaimed
        /\ slots' = [slots EXCEPT ![p] = l.item] /\ "idle" \in PCs /\ pc[t] = "reuse"
    <2>1. pc[t] = "reuse"
      BY DEF Reuse, Return, Step
    <2>2. loc[t].at = p
      BY <2>1 DEF Exact
    <2> HIDE DEF p
    <2> QED
      BY <2>1, <2>2 DEF Reuse, Return, PCs
  <1>4. SameFills
    BY <1>1, <1>2, <1>3, FillsNot
  <1>5. Loose(l.key) /\ IsAt(l.key, "call", t)
    BY <1>1, <1>3, ReuseIsLoose
  <1>6. /\ l.key \in Nat /\ l.key # 0 /\ l.key <= slotsSize /\ p \in Positions /\ Freed(l.key)
        /\ slotsSize <= slotsClaimed /\ slotsSize \in Nat /\ slotsClaimed \in Nat
    BY <1>5, SlotFacts
  <1>7. \A q \in Positions \ {p} : slots'[q] = slots[q]
    BY <1>1, <1>3
  <1>8. ASSUME NEW k, Loose(k)' PROVE Freed(k)'
    <2>1. PICK h : MovesKey("call", t, "held", h)
      BY <1>1, PushKeys DEF Storing
    <2>2. Loose(k)
      BY <1>1, <1>2, <1>3, <1>8, <2>1, LooseKept
    <2>3. k # l.key
      <3>1. PICK x : IsAt(k, "cell", x)' \/ IsAt(k, "call", x)'
        BY <1>8 DEF Loose
      <3>2. IsAt(k, "cell", x) \/ (IsAt(k, "call", x) /\ x # t)
        BY <2>1, <3>1 DEF MovesKey
      <3> QED
        BY <1>1, <1>5, <3>2 DEF Sole
    <2>4. Freed(k) /\ k - 1 \in Positions /\ k \in Nat
      BY <2>2, SlotFacts
    <2>5. k - 1 # p
      BY <1>6, <2>3, <2>4
    <2> QED
      BY <1>4, <1>7, <2>4, <2>5 DEF Freed, SameFills
  <1>9. Fills'
    <2>1. ASSUME NEW u \in Threads, pc'[u] = "fill"
          PROVE  /\ loc'[u].at < slotsClaimed' /\ slots'[loc'[u].at] = 0
                 /\ \A w \in Threads \ {u} : pc'[w] = "fill" => loc'[w].at # loc'[u].at
      <3>1. pc[u] = "fill" /\ loc'[u].at = loc[u].at
        BY <1>4, <2>1 DEF SameFills
      <3>2. /\ loc[u].at < slotsClaimed /\ slots[loc[u].at] = 0
            /\ \A w \in Threads \ {u} : pc[w] = "fill" => loc[w].at # loc[u].at
        BY <1>1, <3>1 DEF Fills
      <3>3. loc[u].at \in Positions /\ loc[u].at # p
        BY <1>6, <3>1, SlotFacts DEF Freed
      <3> QED
        BY <1>3, <1>4, <1>7, <3>1, <3>2, <3>3 DEF SameFills
    <2>2. \A q \in Positions : q >= slotsClaimed' => slots'[q] = 0
      <3>1. p < slotsClaimed
        BY <1>6
      <3>2. ASSUME NEW q \in Positions, q >= slotsClaimed PROVE q # p /\ slots[q] = 0
        BY <1>1, <1>6, <3>1, <3>2 DEF Fills, Positions
      <3> QED
        BY <1>3, <1>7, <3>2
    <2> QED
      BY <2>1, <2>2 DEF Fills
  <1> QED
    BY <1>8, <1>9 DEF FreeAndFills

\* A slot is claimed that no key names.
LEMMA ClaimSlots ==
  ASSUME Nameable, SlotInvariant, NEW t \in Threads, ClaimSlot(t), ~Step(t, "fetch", "undo")
  PROVE  FreeAndFills'
  <1> DEFINE n == slotsClaimed
             m == Claiming(loc[t].item, n)
  <1>1. /\ IInv /\ Fills /\ n \in Nat /\ loc[t] \in Locals
        /\ loc \in [Threads -> Locals] /\ loc[t].item \in Items \cup {0}
    BY SlotFacts, CallAt DEF IInv, Calls
  <1>2. \A u \in Threads \ {t} : loc'[u] = loc[u]
    BY <1>1, OwnLocals DEF IInv, ClaimSlot
  <1>3. /\ Step(t, "fetch", "fill") /\ slots' = slots /\ slotsClaimed' = n + 1
        /\ Set(t, m) /\ "fill" \in PCs /\ pc[t] = "fetch" /\ pc \in [Threads -> PCs]
    BY <1>1 DEF ClaimSlot, Claiming, Step, PCs, PushPC, IInv, TypeOK
  <1>4. m \in Locals /\ m.at = n
    BY <1>1, SetAt
  <1> HIDE DEF m
  <1>5. loc'[t].at = n
    BY <1>1, <1>3, <1>4, Located
  <1>6. pc'[t] = "fill" /\ \A u \in Threads \ {t} : pc'[u] = pc[u]
    BY <1>3, Moved
  <1>7. n \in Positions
    <2>1. n < MaxItems
      BY <1>1, <1>3, Room DEF PushPC
    <2> QED
      BY <1>1, <2>1, Consts DEF Positions
  <1>8. ASSUME NEW k, Loose(k)' PROVE Freed(k)'
    <2>1. KeysStay
      BY <1>1, PushKeys DEF Storing, Passing
    <2>2. Loose(k)
      BY <1>1, <1>2, <1>3, <1>8, <2>1, LooseKept DEF Before
    <2>3. /\ Freed(k) /\ k \in Nat /\ k <= slotsSize /\ slotsSize <= n /\ slotsSize \in Nat
      BY <2>2, SlotFacts
    <2>4. k - 1 # n
      BY <1>1, <2>3
    <2> QED
      BY <1>2, <1>3, <1>5, <1>6, <2>3, <2>4 DEF Freed
  <1>9. \A u \in Threads \ {t} : pc'[u] = "fill" =>
          loc'[u].at = loc[u].at /\ loc[u].at \in Nat /\ loc[u].at < n /\ pc[u] = "fill"
    BY <1>1, <1>2, <1>6, SlotFacts DEF Fills
  <1>10. Fills'
    <2>1. ASSUME NEW u \in Threads, pc'[u] = "fill"
          PROVE  /\ loc'[u].at < n + 1 /\ slots[loc'[u].at] = 0
                 /\ \A w \in Threads \ {u} : pc'[w] = "fill" => loc'[w].at # loc'[u].at
      <3>1. CASE u = t
        <4>1. slots[n] = 0 /\ n < n + 1
          BY <1>1, <1>7 DEF Fills
        <4>2. \A w \in Threads \ {t} : pc'[w] = "fill" => loc'[w].at # n
          BY <1>1, <1>9
        <4> QED
          BY <1>5, <3>1, <4>1, <4>2
      <3>2. CASE u # t
        <4>1. loc'[u].at = loc[u].at /\ loc[u].at < n + 1 /\ loc[u].at # n /\ pc[u] = "fill"
          BY <1>1, <1>9, <2>1, <3>2
        <4>2. /\ slots[loc[u].at] = 0
              /\ \A w \in Threads \ {u} : pc[w] = "fill" => loc[w].at # loc[u].at
          BY <1>1, <4>1 DEF Fills
        <4> QED
          BY <1>5, <1>9, <4>1, <4>2
      <3> QED
        BY <3>1, <3>2
    <2>2. \A q \in Positions : q >= n + 1 => slots[q] = 0
      BY <1>1, Consts DEF Fills, Positions
    <2> QED
      BY <1>3, <2>1, <2>2 DEF Fills
  <1> QED
    BY <1>8, <1>10 DEF FreeAndFills

\* A slot is filled by the thread that claimed it.
LEMMA FillSlots ==
  ASSUME Nameable, SlotInvariant, NEW t \in Threads, FillSlot(t)
  PROVE  FreeAndFills'
  <1> DEFINE p == loc[t].at
  <1>1. IInv /\ Fills /\ slots \in [Positions -> Items \cup {0}]
    BY SlotFacts
  <1>2. loc' = loc
    BY DEF FillSlot
  <1>3. /\ Step(t, "fill", "len") /\ slotsClaimed' = slotsClaimed
        /\ slots' = [slots EXCEPT ![p] = loc[t].item]
        /\ "len" \in PCs /\ pc[t] = "fill" /\ pc \in [Threads -> PCs]
    BY <1>1 DEF FillSlot, Step, PCs, PushPC, IInv, TypeOK
  <1>4. pc'[t] = "len" /\ \A u \in Threads \ {t} : pc'[u] = pc[u]
    BY <1>3, Moved
  <1>5. p \in Positions /\ p < slotsClaimed /\ p \in Nat /\ slotsClaimed \in Nat
    BY <1>1, <1>3, SlotFacts DEF Fills
  <1>6. \A q \in Positions \ {p} : slots'[q] = slots[q]
    BY <1>1, <1>3
  <1>7. ASSUME NEW k, Loose(k)' PROVE Freed(k)'
    <2>1. KeysStay
      BY <1>1, PushKeys DEF Storing, Passing
    <2>2. Loose(k)
      BY <1>1, <1>2, <1>3, <1>7, <2>1, LooseKept DEF Before
    <2>3. Freed(k) /\ k - 1 \in Positions
      BY <2>2, SlotFacts
    <2>4. k - 1 # p
      BY <1>3, <2>3 DEF Freed
    <2> QED
      BY <1>2, <1>4, <1>6, <2>3, <2>4 DEF Freed
  <1>8. Fills'
    <2>1. ASSUME NEW u \in Threads, pc'[u] = "fill"
          PROVE  /\ loc[u].at < slotsClaimed /\ slots'[loc[u].at] = 0
                 /\ \A w \in Threads \ {u} : pc'[w] = "fill" => loc[w].at # loc[u].at
      <3>1. pc[u] = "fill" /\ u # t
        BY <1>4, <2>1
      <3>2. /\ loc[u].at < slotsClaimed /\ slots[loc[u].at] = 0
            /\ \A w \in Threads \ {u} : pc[w] = "fill" => loc[w].at # loc[u].at
        BY <1>1, <3>1 DEF Fills
      <3>3. loc[u].at \in Positions /\ loc[u].at # p
        BY <1>3, <3>1, <3>2, SlotFacts
      <3>4. \A w \in Threads : pc'[w] = "fill" => pc[w] = "fill"
        BY <1>4
      <3> QED
        BY <1>6, <3>2, <3>3, <3>4
    <2>2. ASSUME NEW q \in Positions, q >= slotsClaimed PROVE slots'[q] = 0
      <3>1. q # p /\ slots[q] = 0
        BY <1>1, <1>5, <2>2 DEF Fills, Positions
      <3> QED
        BY <1>6, <3>1
    <2> QED
      BY <1>2, <1>3, <2>1, <2>2 DEF Fills
  <1> QED
    BY <1>7, <1>8 DEF FreeAndFills

\* The steps of push() outside of the lookup that write no slot and claim none.
Waiting(t) ==
  \/ PushStart(t) \/ ReachReused(t) \/ LoadSlots(t) \/ UndoSlot(t) \/ CountSlot(t)
  \/ ClaimSlot(t) /\ Step(t, "fetch", "undo")

\* The lookup, a delete past `enabled`, and the beginning and end of calls write no slot.
LEMMA OtherSlots ==
  ASSUME Nameable, Nameable', SlotInvariant, NEW t \in Threads,
         \/ Lookup(t) \/ Waiting(t) \/ AnnounceSlot(t) \/ DeleteStart(t)
         \/ Delete(t) /\ ~Disable(t)
  PROVE  FreeAndFills'
  <1>1. IInv /\ Scanning
    BY SlotFacts
  <1>2. \A u \in Threads \ {t} : loc'[u] = loc[u]
    BY <1>1, OwnLocals, Walking DEF IInv, Lookup, Waiting, PushStart, ReachReused, LoadSlots,
           ClaimSlot, UndoSlot, CountSlot, AnnounceSlot, LoadKey, StoreKey, LoadMax,
           Drained, Refill, Swap, ResetLoad, ResetStore, RangeLo, RangeHi, Peek, Take, StillSame,
           SkipTaken, Advance, DeleteStart, Delete, ReachDeleted, DStoreKey, CheckStore, DRange,
           DPeek, Put, DSame, DSkip, Append, AppendWrite, AppendAnnounce, CountKey
  <1>3. slots' = slots /\ slotsClaimed' = slotsClaimed
    <2>1. CASE ClaimSlot(t) /\ Step(t, "fetch", "undo")
      <3>1. ~Step(t, "fetch", "fill")
        BY <1>1, <2>1 DEF Step, IInv, TypeOK
      <3> QED
        BY <2>1, <3>1 DEF ClaimSlot
    <2>2. CASE ~(ClaimSlot(t) /\ Step(t, "fetch", "undo"))
      BY <2>2, Walking DEF Lookup, Waiting, PushStart, ReachReused, LoadSlots, UndoSlot, CountSlot,
           AnnounceSlot, LoadKey, StoreKey, LoadMax, Drained, Refill, Swap, ResetLoad, ResetStore,
           RangeLo, RangeHi, Peek, Take, StillSame, SkipTaken, Advance, DeleteStart, Delete,
           ReachDeleted, DStoreKey, CheckStore, DRange, DPeek, Put, DSame, DSkip, Append,
           AppendWrite, AppendAnnounce, CountKey, items
    <2> QED
      BY <2>1, <2>2
  <1>4. ASSUME NEW from, NEW to \in PCs, Step(t, from, to), from # "fill", to # "fill",
               \A k : Loose(k)' => Loose(k)
        PROVE  FreeAndFills'
    <2>1. SameFills
      BY <1>1, <1>2, <1>4, FillsNot
    <2> QED
      BY <1>3, <1>4, <2>1, SlotsKept DEF FreeAndFills
  <1>5. CASE Lookup(t)
    <2>1. PICK from, to \in PushPC \ {"fill"} : Step(t, from, to)
      BY <1>5 DEF Lookup, LoadKey, StoreKey, LoadMax, Drained, Refill, Swap, ResetLoad,
             ResetStore, RangeLo, RangeHi, Peek, Take, StillSame, SkipTaken, Advance,
             AfterLookup, PushPC
    <2>2. to \in PCs /\ from \notin Before
      BY DEF PCs, PushPC, Before
    <2>3. \A k : Loose(k)' => Loose(k)
      BY <1>1, <1>2, <1>5, <2>1, <2>2, LookupKeys, LooseKept
    <2> QED
      BY <1>4, <2>1, <2>2, <2>3
  <1>6. CASE Waiting(t)
    <2> DEFINE P == {"idle", "load", "reach", "reuse", "claim", "fetch", "undo", "len", "announce"}
    <2>1. PICK from, to \in P : Step(t, from, to)
      BY <1>6, Walking DEF Waiting, PushStart, ReachReused, LoadSlots, UndoSlot, CountSlot
    <2>2. to \in PCs /\ from \notin Before
      BY DEF PCs, PushPC, Before
    <2>3. KeysStay
      BY <1>1, <1>6, PushKeys DEF Waiting, Passing, Storing
    <2>4. \A k : Loose(k)' => Loose(k)
      BY <1>1, <1>2, <2>1, <2>2, <2>3, LooseKept
    <2> QED
      BY <1>4, <2>1, <2>2, <2>4
  <1>7. CASE AnnounceSlot(t)
    <2>1. Step(t, "announce", "idle") /\ "idle" \in PCs
      BY <1>7 DEF AnnounceSlot, Return, PCs
    <2>2. \A k : Loose(k)' => Loose(k)
      BY <1>1, <1>2, <1>7, <2>1, PushKeys, LooseKept DEF Storing, Before
    <2> QED
      BY <1>4, <2>1, <2>2
  <1>8. CASE DeleteStart(t)
    <2>1. PICK to \in {"idle", "dreach"} : Step(t, "idle", to)
      BY <1>8 DEF DeleteStart
    <2>2. to \in PCs /\ pc[t] = "idle" /\ to \in Before \cup {"idle"} /\ "idle" \notin Before
      BY <2>1 DEF PCs, DeletePC, Step, Before
    <2>3. \A k : Loose(k)' => Loose(k)
      <3>1. KeysStay \/ \E h : MovesKey("held", h, "call", t)
        BY <1>1, <1>8, <2>2, DeleteKeys
      <3> QED
        BY <1>1, <1>2, <2>1, <2>2, <3>1, LooseKept
    <2> QED
      BY <1>4, <2>1, <2>2, <2>3
  <1>9. CASE Delete(t) /\ ~Disable(t) /\ ~ReachDeleted(t)
    <2>1. PICK from \in DeletePC \ Before, to \in DeletePC \cup {"idle"} :
            Step(t, from, to)
      BY <1>9 DEF Delete, DStoreKey, CheckStore, DRange, DPeek, Put, DSame, DSkip, Append,
                  AppendWrite, AppendAnnounce, CountKey, AfterScan, Return, DeletePC, Before
    <2>2. to \in PCs /\ to # "fill" /\ from # "fill" /\ from # "idle"
      BY DEF PCs, DeletePC
    <2>3. ~DeleteStart(t)
      BY <2>1, <2>2 DEF DeleteStart, Step
    <2>4. KeysStay \/ \E c : MovesKey("call", t, "cell", c)
      BY <1>1, <1>9, <2>3, DeleteKeys
    <2>5. \A k : Loose(k)' => Loose(k)
      BY <1>1, <1>2, <2>1, <2>2, <2>4, LooseKept
    <2> QED
      BY <1>4, <2>1, <2>2, <2>5
  <1>10. CASE ReachDeleted(t)
    <2>1. PICK to \in Before : Step(t, "dreach", to)
      BY <1>10, Walking DEF ReachDeleted, Before
    <2>2. to \in PCs /\ to # "fill" /\ pc[t] = "dreach"
      BY <2>1 DEF PCs, DeletePC, Before, Step
    <2>3. ~DeleteStart(t)
      BY <2>2 DEF DeleteStart, Step
    <2>4. KeysStay
      BY <1>1, <1>10, <2>2, <2>3, DeleteKeys DEF Delete
    <2>5. \A k : Loose(k)' => Loose(k)
      BY <1>1, <1>2, <2>1, <2>2, <2>4, LooseKept
    <2> QED
      BY <1>4, <2>1, <2>2, <2>5
  <1> QED
    BY <1>5, <1>6, <1>7, <1>8, <1>9, <1>10 DEF Delete

\* The places of a push() to a new slot, which may look at the chunk after the root.
Homeless == {"claim", "fetch", "undo", "fill", "len"}

\* What is known of the walks while every slot is in the root chunk: none leaves it.
AtHome ==
  /\ \A t \in Threads : pc[t] \notin Homeless => chunk[t] = 0
  /\ Exact

\* A walk to a key of the root stops there.
LEMMA WalkStops ==
  ASSUME IInv, Sole, InRoot, NEW t \in Threads, chunk[t] = 0, IsAt(loc[t].key, "call", t)
  PROVE  ~Beyond(t) /\ Reached(t) = loc[t].key - 1
  <1> DEFINE k == loc[t].key - 1
  <1>1. loc[t].key # 0 /\ loc[t].key <= slotsSize /\ loc[t].key \in Nat
    BY KeysAreNumbers DEF Sole
  <1>2. slotsSize <= slotsClaimed /\ slotsClaimed <= KS /\ slotsSize \in Nat /\ slotsClaimed \in Nat
    BY Room, Numbers DEF InRoot
  <1>3. KS \in Nat /\ KS > 0 /\ slotsLen \in Nat
    BY Consts DEF IInv, TypeOK
  <1>4. k \in Nat /\ k < KS
    BY <1>1, <1>2, <1>3
  <1>5. k % KS = k /\ KS * 0 = 0
    BY <1>3, <1>4
  <1>6. Reached(t) = k
    BY <1>4, <1>5 DEF Reached
  <1>7. ~Beyond(t)
    BY <1>3, <1>4 DEF Beyond, Loaded
  <1> QED
    BY <1>6, <1>7

\* No step takes a walk out of it.
LEMMA HomeKept ==
  ASSUME IInv, Sole, InRoot, AtHome, NEW t \in Threads,
         PushStart(t) \/ DeleteStart(t) \/ Push(t) \/ Delete(t)
  PROVE  AtHome'
  <1>1. /\ pc \in [Threads -> PCs] /\ chunk \in [Threads -> Nat]
        /\ loc \in [Threads -> Locals] /\ loc[t] \in Locals /\ loc[t].key \in Keys
        /\ Fits(pc[t], loc[t], idx)
    BY CallAt DEF IInv, TypeOK, Calls, PCs
  <1>2. ASSUME NEW from, NEW to \in PCs, Step(t, from, to),
               \A u \in Threads \ {t} : loc'[u] = loc[u] /\ chunk'[u] = chunk[u],
               to \notin Homeless => chunk'[t] = 0,
               to \in {"reuse", "disable"} => loc'[t].at = loc'[t].key - 1
        PROVE  AtHome'
    <2>1. pc'[t] = to /\ \A u \in Threads \ {t} : pc'[u] = pc[u]
      BY <1>1, <1>2, Moved
    <2> QED
      BY <1>2, <2>1 DEF AtHome, Exact
  <1>3. ASSUME NEW from \in PCs \ Homeless, NEW to \in PCs \ {"reuse", "disable"},
               Step(t, from, to), \A u \in Threads \ {t} : loc'[u] = loc[u], chunk' = chunk
        PROVE  AtHome'
    <2>1. chunk'[t] = 0
      BY <1>3 DEF AtHome, Step
    <2> QED
      BY <1>2, <1>3, <2>1
  <1>4. ASSUME NEW from, NEW to \in {"reuse", "disable"}, Reach(t, from, to),
               IsAt(loc[t].key, "call", t), loc[t].key # 0, pc[t] \notin Homeless
        PROVE  AtHome'
    <2>1. chunk[t] = 0
      BY <1>4 DEF AtHome
    <2>2. ~Beyond(t) /\ Reached(t) = loc[t].key - 1
      BY <1>4, <2>1, WalkStops
    <2>3. /\ Step(t, from, to) /\ Set(t, WithAt(loc[t], Reached(t)))
          /\ chunk' = [chunk EXCEPT ![t] = 0]
      BY <1>4, <2>2, Walking
    <2> DEFINE m == WithAt(loc[t], Reached(t))
    <2>4. Reached(t) \in Nat
      BY <1>1, <1>4, ReachedType DEF IInv
    <2>5. m \in Locals /\ m.key = loc[t].key /\ m.at = Reached(t)
      BY <1>1, <2>4, SetPlace
    <2>6. loc'[t] = m /\ \A u \in Threads \ {t} : loc'[u] = loc[u]
      BY <1>1, <2>3, <2>5, Located
    <2> HIDE DEF m
    <2>7. to \in PCs /\ chunk'[t] = 0 /\ \A u \in Threads \ {t} : chunk'[u] = chunk[u]
      BY <1>1, <2>3 DEF PCs, PushPC, DeletePC
    <2> QED
      BY <1>2, <2>2, <2>3, <2>5, <2>6, <2>7
  <1>5. CASE ReachReused(t)
    <2>1. pc[t] = "reach" /\ pc[t] \notin Homeless
      BY <1>5 DEF ReachReused, Reach, Step, Homeless
    <2>2. loc[t].key # 0 /\ IsAt(loc[t].key, "call", t)
      BY <1>1, <2>1 DEF Fits, IsAt, Carries
    <2> QED
      BY <1>4, <1>5, <2>1, <2>2 DEF ReachReused
  <1>6. CASE ReachDeleted(t)
    <2>1. pc[t] = "dreach" /\ pc[t] \notin Homeless
      BY <1>6 DEF ReachDeleted, Reach, Step, Homeless
    <2>2. loc[t].key # 0 /\ IsAt(loc[t].key, "call", t)
      BY <1>1, <2>1 DEF Fits, IsAt, Carries, DeletePC
    <2> QED
      BY <1>4, <1>6, <2>1, <2>2 DEF ReachDeleted
  <1>7. CASE LoadSlots(t) \/ ClaimSlot(t) \/ UndoSlot(t) \/ FillSlot(t)
    <2>1. PICK from, to \in Homeless : Step(t, from, to)
      BY <1>7 DEF LoadSlots, ClaimSlot, UndoSlot, FillSlot, Homeless
    <2>2. \A u \in Threads \ {t} : loc'[u] = loc[u]
      BY <1>7, OwnLocals DEF IInv, LoadSlots, ClaimSlot, UndoSlot, FillSlot
    <2>3. \A u \in Threads \ {t} : chunk'[u] = chunk[u]
      BY <1>1, <1>7 DEF LoadSlots, ClaimSlot, UndoSlot, FillSlot, items
    <2>4. to \in PCs /\ to \notin {"reuse", "disable"}
      BY DEF PCs, PushPC, Homeless
    <2> QED
      BY <1>2, <2>1, <2>2, <2>3, <2>4
  <1>8. CASE CountSlot(t)
    <2>1. /\ Step(t, "len", "announce") /\ loc' = loc /\ chunk' = [chunk EXCEPT ![t] = 0]
          /\ "announce" \in PCs
      BY <1>8 DEF CountSlot, PCs, PushPC
    <2>2. chunk'[t] = 0 /\ \A u \in Threads \ {t} : chunk'[u] = chunk[u]
      BY <1>1, <2>1
    <2> QED
      BY <1>2, <2>1, <2>2
  <1>9. CASE Lookup(t) \/ PushStart(t) \/ Reuse(t) \/ AnnounceSlot(t)
    <2>1. PICK from \in PCs \ Homeless, to \in PCs \ {"reuse", "disable"} : Step(t, from, to)
      BY <1>9 DEF Lookup, PushStart, Reuse, AnnounceSlot, LoadKey, StoreKey, LoadMax, Drained,
           Refill, Swap, ResetLoad, ResetStore, RangeLo, RangeHi, Peek, Take, StillSame,
           SkipTaken, Advance, AfterLookup, Return, PCs, PushPC, DeletePC, Homeless
    <2>2. \A u \in Threads \ {t} : loc'[u] = loc[u]
      BY <1>9, OwnLocals DEF IInv, Lookup, PushStart, Reuse, AnnounceSlot, LoadKey, StoreKey,
           LoadMax, Drained, Refill, Swap, ResetLoad, ResetStore, RangeLo, RangeHi, Peek, Take,
           StillSame, SkipTaken, Advance
    <2>3. chunk' = chunk
      BY <1>9 DEF Lookup, PushStart, Reuse, AnnounceSlot, LoadKey, StoreKey, LoadMax, Drained,
           Refill, Swap, ResetLoad, ResetStore, RangeLo, RangeHi, Peek, Take, StillSame,
           SkipTaken, Advance, items
    <2> QED
      BY <1>3, <2>1, <2>2, <2>3
  <1>10. CASE DeleteStart(t) \/ (Delete(t) /\ ~ReachDeleted(t))
    <2>1. PICK from \in PCs \ Homeless, to \in PCs \ {"reuse", "disable"} : Step(t, from, to)
      BY <1>10 DEF DeleteStart, Delete, Disable, DStoreKey, CheckStore, DRange, DPeek, Put, DSame,
           DSkip, Append, AppendWrite, AppendAnnounce, CountKey, AfterScan, Return, PCs, PushPC,
           DeletePC, Homeless
    <2>2. \A u \in Threads \ {t} : loc'[u] = loc[u]
      BY <1>10, OwnLocals DEF IInv, DeleteStart, Delete, Disable, DStoreKey, CheckStore, DRange,
           DPeek, Put, DSame, DSkip, Append, AppendWrite, AppendAnnounce, CountKey
    <2>3. chunk' = chunk
      BY <1>10 DEF DeleteStart, Delete, Disable, DStoreKey, CheckStore, DRange, DPeek, Put, DSame,
           DSkip, Append, AppendWrite, AppendAnnounce, CountKey, items
    <2> QED
      BY <1>3, <2>1, <2>2, <2>3
  <1> QED
    BY <1>5, <1>6, <1>7, <1>8, <1>9, <1>10 DEF Push, Lookup

\* Every step keeps what is known of slots.
LEMMA SlotsInductive ==
  ASSUME OneChunk, Nameable, Nameable', SlotInvariant, Exact, [Next]_vars
  PROVE  SlotInvariant'
  <1>1. KeyInvariant' /\ IInv' /\ KeyInvariant
    BY KeysInductive DEF SlotInvariant, KeyInvariant
  <1>3. ASSUME NEW t \in Threads, PushStart(t) \/ DeleteStart(t) \/ Push(t) \/ Delete(t)
        PROVE  FreeAndFills'
    <2>1. \/ ClaimSlot(t) /\ ~Step(t, "fetch", "undo")
          \/ Reuse(t) \/ FillSlot(t) \/ Disable(t)
          \/ Lookup(t) \/ Waiting(t) \/ AnnounceSlot(t) \/ DeleteStart(t)
          \/ Delete(t) /\ ~Disable(t)
      <3>1. Push(t) => Lookup(t) \/ Storing(t)
        BY DEF Push, Lookup, Storing
      <3>2. Storing(t) => \/ ClaimSlot(t) /\ ~Step(t, "fetch", "undo")
                          \/ Reuse(t) \/ FillSlot(t)
                          \/ Waiting(t) \/ AnnounceSlot(t)
        BY DEF Storing, Waiting
      <3>3. PushStart(t) => Waiting(t)
        BY DEF Waiting
      <3> QED
        BY <1>3, <3>1, <3>2, <3>3
    <2> QED
      BY <2>1, ReuseSlots, ClaimSlots, FillSlots, DisableSlots, OtherSlots
  <1>4. ASSUME UNCHANGED vars PROVE FreeAndFills'
    <2>1. /\ pc' = pc /\ loc' = loc /\ slots' = slots /\ slotsClaimed' = slotsClaimed
          /\ cells' = cells
      BY <1>4 DEF vars, items, free
    <2>2. SameFills /\ \A k : Loose(k)' <=> Loose(k)
      BY <2>1 DEF SameFills, Loose, IsAt, FreeCells
    <2> QED
      BY <2>1, <2>2, SlotsKept DEF FreeAndFills
  <1> QED
    BY <1>1, <1>3, <1>4 DEF Next, SlotInvariant, FreeAndFills

\* What is known of the slots holds at the start.
LEMMA InitialSlots ==
  ASSUME Init
  PROVE  SlotInvariant /\ AtHome
  <1>1. KeyInvariant
    BY InitialKeys
  <1>2. \A k : ~Loose(k)
    BY DEF Init, Loose, IsAt, FreeCells, Carries
  <1>3. Fills /\ AtHome
    BY DEF Init, Fills, AtHome, Exact
  <1> QED
    BY <1>1, <1>2, <1>3 DEF SlotInvariant

\* The inductive invariant of the slots, as long as they are within the root chunk.
RootInvariant == InRoot => SlotInvariant /\ AtHome

\* Slots that are all in the root after a step were so before.
LEMMA RootKept ==
  ASSUME OneChunk, Nameable, Nameable', KeyInvariant, RootInvariant, [Next]_vars
  PROVE  RootInvariant'
  <1>1. ASSUME NEW t \in Threads, PushStart(t) \/ DeleteStart(t) \/ Push(t) \/ Delete(t), InRoot'
        PROVE  InRoot /\ AtHome'
    <2>1. IInv /\ Sole /\ slotsClaimed \in Nat /\ KS \in Nat
      BY Numbers, Consts DEF KeyInvariant
    <2>2. slotsClaimed' \in {slotsClaimed, slotsClaimed + 1}
      BY <1>1, Walking DEF PushStart, ReachReused, Reuse, LoadSlots, ClaimSlot, UndoSlot, FillSlot,
           CountSlot, AnnounceSlot, Push, LoadKey, StoreKey, LoadMax, Drained, Refill, Swap,
           ResetLoad, ResetStore, RangeLo, RangeHi, Peek, Take, StillSame, SkipTaken, Advance,
           DeleteStart, Delete, ReachDeleted, Disable, DStoreKey, CheckStore, DRange, DPeek, Put,
           DSame, DSkip, Append, AppendWrite, AppendAnnounce, CountKey, items
    <2>3. InRoot
      BY <1>1, <2>1, <2>2 DEF InRoot
    <2> QED
      BY <1>1, <2>1, <2>3, HomeKept DEF RootInvariant
  <1>2. ASSUME UNCHANGED vars, InRoot' PROVE InRoot /\ AtHome'
    <2>1. UNCHANGED <<slotsClaimed, pc, loc, chunk>>
      BY <1>2 DEF vars, items
    <2>2. InRoot
      BY <1>2, <2>1 DEF InRoot
    <2> QED
      BY <2>1, <2>2 DEF RootInvariant, AtHome, Exact
  <1>3. InRoot' => InRoot /\ AtHome'
    BY <1>1, <1>2 DEF Next
  <1> QED
    BY <1>3, SlotsInductive DEF RootInvariant, AtHome

\* As long as the slots are within the root chunk and every slot can be named, the slot
\* of a key that is free is disabled, and each walk leads to the slot of its key.
THEOREM SlotInvariance == Spec /\ []OneChunk /\ []Nameable => []RootInvariant
  <1>1. Init => RootInvariant
    BY InitialSlots DEF RootInvariant
  <1>2. /\ OneChunk /\ Nameable /\ Nameable' /\ KeyInvariant /\ RootInvariant /\ [Next]_vars
        => RootInvariant'
    BY RootKept
  <1> QED
    BY <1>1, <1>2, KeyInvariance, PTL DEF Spec

\* push() writes no slot whose item was not taken out, as long as every slot can be
\* named, the slots are within one chunk and so are the free vectors.
THEOREM SlotsNotOverwritten == Spec /\ []OneChunk /\ []Nameable => []WritesDisabledSlot
  <1>1. RootInvariant => WritesDisabledSlot
    BY SlotsDisabled DEF RootInvariant, AtHome
  <1> QED
    BY <1>1, SlotInvariance, PTL

-----------------------------------------------------------------------------
(* One caller *)

\* There is one caller.
OneCaller == \E t : Threads = {t}

\* The vector keys are loaded from, and the one they are stored to.
LoadFrom == idx % 2
StoreTo == (idx + 1) % 2

\* The cells of v with a key are those from a up to b.
KeysIn(v, a, b) == \A p \in Positions : cells[v][p] # 0 <=> a <= p /\ p < b

\* The keys t has taken, or stored, and not yet counted.
Taken(t) == IF pc[t] \in {"same", "advance"} THEN 1 ELSE 0
Stored(t) ==
  IF pc[t] \in {"dannounce", "count"} \/ (pc[t] = "dpeek" /\ loc[t].found) THEN 1 ELSE 0

\* The keys of the vector loaded from are behind load_iter, those of the other are its first.
Vectors(t) ==
  /\ storeIter[LoadFrom] <= size[LoadFrom]
  /\ IF pc[t] \in {"resetload", "resetstore"}
     THEN /\ KeysIn(LoadFrom, 0, storeIter[LoadFrom])
          /\ KeysIn(StoreTo, 0, 0)
          /\ pc[t] = "resetstore" => loadIter[LoadFrom] = 0
     ELSE /\ KeysIn(LoadFrom, loadIter[LoadFrom] + Taken(t), storeIter[LoadFrom])
          /\ KeysIn(StoreTo, 0, storeIter[StoreTo] + Stored(t))
          /\ storeIter[StoreTo] <= size[StoreTo]

\* A lookup at p with the locals l works with what is there, and misses no key.
Looks(p, l) ==
  /\ p # "skip"
  /\ p \in {"store", "max", "drained", "refill", "swap", "lo", "hi", "peek", "take", "same",
            "advance"} => l.loadKey = idx
  /\ p \in {"max", "drained", "refill", "swap"} => l.storeKey = idx + 1
  /\ p \in {"resetload", "resetstore"} => l.storeKey = idx /\ l.loadKey + 1 = idx
  /\ p = "drained" => l.hi = storeIter[LoadFrom]
  /\ p \in {"refill", "swap", "claim", "fetch", "undo"} =>
       storeIter[LoadFrom] <= loadIter[LoadFrom]
  /\ p \in {"claim", "fetch", "undo"} => storeIter[StoreTo] = 0
  /\ p \in {"lo", "hi", "peek", "take"} => loadIter[LoadFrom] < storeIter[LoadFrom]
  /\ p = "hi" => l.lo = loadIter[LoadFrom]
  /\ p \in {"peek", "take"} => l.i = loadIter[LoadFrom]
  /\ p = "peek" => l.hi = storeIter[LoadFrom]
  /\ p = "take" => cells[LoadFrom][l.i] = l.key
  /\ p = "same" => l.key # 0
  /\ p \in {"store", "max", "drained", "refill", "swap", "lo", "hi", "peek", "take", "same"} =>
       l.miss = 0

\* A delete at p with the locals l finds a free cell behind the keys, or appends.
Puts(p, l) ==
  /\ p \notin {"dsame", "dskip"}
  /\ p \in {"check", "drange", "dpeek", "put", "append", "dwrite", "dannounce", "count"} =>
       l.storeKey = idx + 1
  /\ p \in {"drange", "dpeek", "put"} => storeIter[StoreTo] < size[StoreTo]
  /\ ((p = "dpeek" /\ ~l.found) \/ p = "put") => l.i = storeIter[StoreTo] /\ l.hi = size[StoreTo]
  /\ p \in {"dreach", "disable", "dstore", "check", "drange", "dpeek", "put"} => l.miss = 0
  /\ p = "append" => ~l.found
  /\ p \in {"append", "dwrite", "dannounce"} => storeIter[StoreTo] = size[StoreTo]
  /\ p = "dwrite" => l.at = storeIter[StoreTo]
  /\ p = "count" => storeIter[StoreTo] < size[StoreTo]

\* A key t has in hand, and every key is in one of the three places.
Hand(t) == IF t \in Carriers THEN 1 ELSE 0
Accounted(t) == Cardinality(held) + Cardinality(FreeCells) + Hand(t) = slotsSize

\* The item of a key that is held is in the slot of the key.
Stores(t) ==
  /\ \A h \in held : slots[h[1] - 1] = h[2]
  /\ pc[t] \in Before => loc[t].item \in Items /\ slots[loc[t].key - 1] = loc[t].item
  /\ pc[t] \in {"fill", "len", "announce"} => loc[t].at = slotsSize
  /\ pc[t] \in {"len", "announce"} => slots[loc[t].at] = loc[t].item

\* The claimed slots whose chunk has counted them.
Settled(t) == slotsClaimed - (IF pc[t] \in {"fill", "len"} THEN 1 ELSE 0)

\* The walks of a single caller go by counters that no other call disturbs.
Walks(t) ==
  /\ slotsLen = IF Settled(t) <= KS THEN Settled(t) ELSE KS
  /\ pc[t] \in Homeless => KS * chunk[t] <= Settled(t)
  /\ pc[t] \in {"fill", "len"} => Settled(t) < KS * (chunk[t] + 1)
  /\ pc[t] \in {"reach", "dreach"} => KS * chunk[t] <= loc[t].key - 1
  /\ pc[t] \notin Homeless \cup {"reach", "dreach"} => chunk[t] = 0
  /\ Exact

\* What is known of the free vectors and of the call that works on them.
Queue(t) == Vectors(t) /\ Looks(pc[t], loc[t]) /\ Puts(pc[t], loc[t])

\* The inductive invariant for one caller.
OneInvariant(t) ==
  /\ KeyInvariant
  /\ Queue(t)
  /\ Nameable => SlotInvariant /\ Accounted(t) /\ Stores(t) /\ Walks(t)

\* Loaded from and stored to are two vectors, which a swap exchanges.
LEMMA TwoVectors ==
  ASSUME NEW n \in Nat
  PROVE  /\ n % 2 \in Vecs /\ (n + 1) % 2 \in Vecs /\ n % 2 # (n + 1) % 2
         /\ (n + 1 + 1) % 2 = n % 2
  BY DEF Vecs

\* What is known of the numbers and the call before a step of t.
LEMMA OneFacts ==
  ASSUME IInv, NEW t \in Threads, NEW from, pc[t] = from
  PROVE  /\ Fits(from, loc[t], idx) /\ loc[t] \in Locals /\ loc \in [Threads -> Locals]
         /\ pc \in [Threads -> PCs] /\ idx \in Nat
         /\ storeIter \in [Vecs -> Nat] /\ loadIter \in [Vecs -> Nat]
         /\ size \in [Vecs -> Nat] /\ \A v \in Vecs : size[v] <= MaxItems
         /\ claimed \in [Vecs -> Nat]
         /\ cells \in [Vecs -> [Positions -> Keys]]
         /\ LoadFrom \in Vecs /\ StoreTo \in Vecs /\ LoadFrom # StoreTo
         /\ MaxItems \in Nat
  <1>1. TypeOK /\ Calls
    BY DEF IInv
  <1>2. idx \in Nat
    BY <1>1, CallAt
  <1>3. LoadFrom \in Vecs /\ StoreTo \in Vecs /\ LoadFrom # StoreTo
    BY <1>2, TwoVectors DEF LoadFrom, StoreTo
  <1> QED
    BY <1>1, <1>2, <1>3, CallAt, Consts DEF Calls

\* A step that leaves the free vectors alone and neither takes nor stores a key.
LEMMA VectorsStay ==
  ASSUME NEW t, Vectors(t), UNCHANGED free,
         pc[t] \notin {"resetload", "resetstore"}, pc'[t] \notin {"resetload", "resetstore"},
         Taken(t)' = Taken(t), Stored(t)' = Stored(t)
  PROVE  Vectors(t)'
  <1>1. /\ LoadFrom' = LoadFrom /\ StoreTo' = StoreTo
        /\ storeIter' = storeIter /\ loadIter' = loadIter /\ size' = size /\ cells' = cells
    BY DEF free, LoadFrom, StoreTo
  <1> QED
    BY <1>1 DEF Vectors, KeysIn

\* The call has come to `to` with the locals m.
LEMMA Arrives ==
  ASSUME NEW t, NEW to, NEW m, pc'[t] = to, loc'[t] = m,
         Vectors(t)', Looks(to, m)', Puts(to, m)'
  PROVE  Queue(t)'
  BY DEF Queue, Looks, Puts

\* The first steps of a push, up to the swap or the range of the lookup.
LEMMA LookupBegins ==
  ASSUME IInv, NEW t \in Threads, Queue(t),
         \/ PushStart(t) \/ LoadKey(t) \/ StoreKey(t) \/ LoadMax(t) \/ Drained(t)
         \/ Refill(t) \/ RangeLo(t) \/ RangeHi(t)
  PROVE  Queue(t)'
  <1> PICK m : m = loc'[t]
    OBVIOUS
  <1> DEFINE l == loc[t]
  <1>1. /\ Vectors(t) /\ Looks(pc[t], l) /\ Puts(pc[t], l)
        /\ l \in Locals /\ loc \in [Threads -> Locals] /\ pc \in [Threads -> PCs]
        /\ storeIter \in [Vecs -> Nat] /\ loadIter \in [Vecs -> Nat]
        /\ size \in [Vecs -> Nat] /\ LoadFrom \in Vecs /\ StoreTo \in Vecs /\ idx \in Nat
    BY OneFacts DEF Queue
  <1>2. UNCHANGED free
    BY DEF PushStart, LoadKey, StoreKey, LoadMax, Drained, Refill, RangeLo, RangeHi
  <1>3. /\ LoadFrom' = LoadFrom /\ StoreTo' = StoreTo /\ idx' = idx
        /\ storeIter' = storeIter /\ loadIter' = loadIter /\ size' = size /\ cells' = cells
    BY <1>2 DEF free, LoadFrom, StoreTo
  <1>4. ASSUME NEW from \in {"idle", "load", "store", "max", "drained", "refill", "lo", "hi"},
               NEW to \in {"load", "store", "max", "drained", "refill", "swap", "claim",
                           "lo", "hi", "peek"},
               Step(t, from, to), Looks(to, m)'
        PROVE  Queue(t)'
    <2>1. pc[t] = from /\ pc'[t] = to
      BY <1>1, <1>4 DEF Step
    <2>2. Vectors(t)'
      BY <1>1, <1>2, <1>4, <2>1, VectorsStay DEF Taken, Stored
    <2>3. Puts(to, m)'
      BY DEF Puts
    <2> QED
      BY <1>4, <2>1, <2>2, <2>3, Arrives
  <1>5. CASE PushStart(t)
    <2>1. Looks("load", m)'
      BY DEF Looks
    <2> QED
      BY <1>4, <1>5, <2>1 DEF PushStart
  <1>6. CASE LoadKey(t)
    <2>1. m = [NoLocals EXCEPT !.loadKey = idx, !.item = loc[t].item]
      BY <1>1, <1>6 DEF LoadKey, Set
    <2>2. m.loadKey = idx /\ m.miss = 0
      BY <2>1 DEF NoLocals
    <2>3. Looks("store", m)'
      BY <1>3, <2>2 DEF Looks
    <2> QED
      BY <1>4, <1>6, <2>3 DEF LoadKey
  <1>7. CASE StoreKey(t)
    <2>1. m = [l EXCEPT !.storeKey = idx + 1] /\ pc[t] = "store"
      BY <1>1, <1>7 DEF StoreKey, Set, Step
    <2>2. m.loadKey = l.loadKey /\ m.miss = l.miss /\ m.storeKey = idx + 1
      BY <1>1, <2>1 DEF Locals
    <2>3. Looks("max", m)'
      BY <1>1, <1>3, <2>1, <2>2 DEF Looks
    <2> QED
      BY <1>4, <1>7, <2>3 DEF StoreKey
  <1>8. CASE LoadMax(t)
    <2>1. m = [l EXCEPT !.hi = storeIter[LoadVec(t)]] /\ pc[t] = "max"
      BY <1>1, <1>8 DEF LoadMax, Set, Step
    <2>2. /\ m.loadKey = l.loadKey /\ m.miss = l.miss
          /\ m.storeKey = l.storeKey /\ m.hi = storeIter[LoadVec(t)]
      BY <1>1, <2>1 DEF Locals
    <2>3. LoadVec(t) = LoadFrom
      BY <1>1, <2>1 DEF Looks, LoadVec, LoadFrom
    <2>4. Looks("drained", m)'
      BY <1>1, <1>3, <2>1, <2>2, <2>3 DEF Looks
    <2> QED
      BY <1>4, <1>8, <2>4 DEF LoadMax
  <1>9. CASE Drained(t)
    <2>1. pc[t] = "drained" /\ m = l
      BY <1>9 DEF Drained, Step
    <2>2. LoadVec(t) = LoadFrom
      BY <1>1, <2>1 DEF Looks, LoadVec, LoadFrom
    <2>3. storeIter[LoadFrom] \in Nat /\ loadIter[LoadFrom] \in Nat /\ l.hi = storeIter[LoadFrom]
      BY <1>1, <2>1 DEF Looks
    <2>4. CASE l.hi <= loadIter[LoadFrom]
      <3>1. Step(t, "drained", "refill")
        BY <1>9, <2>2, <2>4 DEF Drained
      <3>2. Looks("refill", m)'
        BY <1>1, <1>3, <2>1, <2>3, <2>4 DEF Looks
      <3> QED
        BY <1>4, <3>1, <3>2
    <2>5. CASE ~(l.hi <= loadIter[LoadFrom])
      <3>1. Step(t, "drained", "lo")
        BY <1>9, <2>2, <2>5 DEF Drained
      <3>2. Looks("lo", m)'
        BY <1>1, <1>3, <2>1, <2>3, <2>5 DEF Looks
      <3> QED
        BY <1>4, <3>1, <3>2
    <2> QED
      BY <2>4, <2>5
  <1>10. CASE Refill(t)
    <2>1. pc[t] = "refill" /\ m = l
      BY <1>10 DEF Refill, Step
    <2>2. StoreVec(t) = StoreTo
      BY <1>1, <2>1 DEF Looks, StoreVec, StoreTo
    <2>3. CASE storeIter[StoreTo] = 0
      <3>1. Step(t, "refill", "claim")
        BY <1>10, <2>2, <2>3 DEF Refill
      <3>2. Looks("claim", m)'
        BY <1>1, <1>3, <2>1, <2>3 DEF Looks
      <3> QED
        BY <1>4, <3>1, <3>2
    <2>4. CASE storeIter[StoreTo] # 0
      <3>1. Step(t, "refill", "swap")
        BY <1>10, <2>2, <2>4 DEF Refill
      <3>2. Looks("swap", m)'
        BY <1>1, <1>3, <2>1 DEF Looks
      <3> QED
        BY <1>4, <3>1, <3>2
    <2> QED
      BY <2>3, <2>4
  <1>11. CASE RangeLo(t)
    <2>1. m = [l EXCEPT !.lo = loadIter[LoadVec(t)]] /\ pc[t] = "lo"
      BY <1>1, <1>11 DEF RangeLo, Set, Step
    <2>2. /\ m.loadKey = l.loadKey /\ m.miss = l.miss /\ m.lo = loadIter[LoadVec(t)]
      BY <1>1, <2>1 DEF Locals
    <2>3. LoadVec(t) = LoadFrom
      BY <1>1, <2>1 DEF Looks, LoadVec, LoadFrom
    <2>4. Looks("hi", m)'
      BY <1>1, <1>3, <2>1, <2>2, <2>3 DEF Looks
    <2> QED
      BY <1>4, <1>11, <2>4 DEF RangeLo
  <1>12. CASE RangeHi(t)
    <2>1. pc[t] = "hi" /\ storeIter[LoadFrom] <= size[LoadFrom]
      BY <1>1, <1>12 DEF RangeHi, Step, Vectors
    <2>2. LoadVec(t) = LoadFrom
      BY <1>1, <2>1 DEF Looks, LoadVec, LoadFrom
    <2>3. m = [l EXCEPT !.i = l.lo, !.hi = storeIter[LoadFrom]]
      BY <1>1, <1>12, <2>1, <2>2 DEF RangeHi, Set
    <2>4. /\ m.loadKey = l.loadKey /\ m.miss = l.miss
          /\ m.i = l.lo /\ m.hi = storeIter[LoadFrom]
      BY <1>1, <2>3 DEF Locals
    <2>5. Looks("peek", m)'
      BY <1>1, <1>3, <2>1, <2>4 DEF Looks
    <2> QED
      BY <1>4, <1>12, <2>5 DEF RangeHi
  <1> QED
    BY <1>5, <1>6, <1>7, <1>8, <1>9, <1>10, <1>11, <1>12

\* A push swaps the vectors: the one it found drained is empty, and gets the next keys.
LEMMA LookupSwaps ==
  ASSUME IInv, NEW t \in Threads, Queue(t), Swap(t) \/ ResetLoad(t) \/ ResetStore(t)
  PROVE  Queue(t)'
  <1> DEFINE l == loc[t]
  <1>1. /\ Vectors(t) /\ Looks(pc[t], l) /\ Puts(pc[t], l)
        /\ l \in Locals /\ loc \in [Threads -> Locals] /\ pc \in [Threads -> PCs]
        /\ storeIter \in [Vecs -> Nat] /\ loadIter \in [Vecs -> Nat]
        /\ size \in [Vecs -> Nat] /\ LoadFrom \in Vecs /\ StoreTo \in Vecs /\ idx \in Nat
        /\ LoadFrom # StoreTo /\ l.loadKey \in Nat /\ l.storeKey \in Nat
    BY OneFacts DEF Queue, Locals
  <1>2. loc' = loc /\ size' = size /\ cells' = cells
    BY DEF Swap, ResetLoad, ResetStore
  <1>3. Positions \subseteq Nat
    BY Consts DEF Positions
  <1> PICK m : m = loc'[t]
    OBVIOUS
  <1>4. m = l
    BY <1>2
  <1>5. CASE Swap(t)
    <2>1. pc[t] = "swap" /\ l.loadKey = idx /\ l.storeKey = idx + 1
      BY <1>1, <1>5 DEF Swap, Step, Looks
    <2>2. /\ pc'[t] = "resetload" /\ idx' = idx + 1
          /\ storeIter' = storeIter /\ loadIter' = loadIter
      BY <1>1, <1>5, <2>1 DEF Swap, Step
    <2>3. LoadFrom' = StoreTo /\ StoreTo' = LoadFrom
      BY <1>1, <2>2, TwoVectors DEF LoadFrom, StoreTo
    <2>4. /\ KeysIn(LoadFrom, loadIter[LoadFrom], storeIter[LoadFrom])
          /\ KeysIn(StoreTo, 0, storeIter[StoreTo])
          /\ storeIter[StoreTo] <= size[StoreTo]
      BY <1>1, <2>1 DEF Vectors, Taken, Stored
    <2>5. storeIter[LoadFrom] <= loadIter[LoadFrom]
      BY <1>1, <2>1 DEF Looks
    <2>6. KeysIn(LoadFrom, 0, 0)
      <3>1. storeIter[LoadFrom] \in Nat /\ loadIter[LoadFrom] \in Nat
        BY <1>1
      <3>2. \A p \in Nat : ~(loadIter[LoadFrom] <= p /\ p < storeIter[LoadFrom])
        BY <2>5, <3>1
      <3>3. \A p \in Nat : ~(0 <= p /\ p < 0)
        OBVIOUS
      <3> QED
        BY <1>3, <2>4, <3>2, <3>3 DEF KeysIn
    <2>7. Vectors(t)'
      BY <1>2, <2>2, <2>3, <2>4, <2>6 DEF Vectors, KeysIn
    <2>8. Looks("resetload", m)'
      BY <1>4, <2>1, <2>2 DEF Looks
    <2>9. Puts("resetload", m)'
      BY DEF Puts
    <2> QED
      BY <2>2, <2>7, <2>8, <2>9, Arrives
  <1>6. CASE ResetLoad(t)
    <2>1. pc[t] = "resetload" /\ l.storeKey = idx /\ l.loadKey + 1 = idx
      BY <1>1, <1>6 DEF ResetLoad, Step, Looks
    <2>2. /\ pc'[t] = "resetstore" /\ idx' = idx /\ storeIter' = storeIter
          /\ loadIter' = [loadIter EXCEPT ![LoadFrom] = 0]
          /\ LoadFrom' = LoadFrom /\ StoreTo' = StoreTo
      BY <1>1, <1>6, <2>1 DEF ResetLoad, Step, StoreVec, LoadFrom, StoreTo
    <2>3. /\ KeysIn(LoadFrom, 0, storeIter[LoadFrom]) /\ KeysIn(StoreTo, 0, 0)
          /\ storeIter[LoadFrom] <= size[LoadFrom]
      BY <1>1, <2>1 DEF Vectors
    <2>4. loadIter'[LoadFrom] = 0
      BY <1>1, <2>2
    <2>5. Vectors(t)'
      BY <1>2, <2>2, <2>3, <2>4 DEF Vectors, KeysIn
    <2>6. Looks("resetstore", m)'
      BY <1>4, <2>1, <2>2 DEF Looks
    <2>7. Puts("resetstore", m)'
      BY DEF Puts
    <2> QED
      BY <2>2, <2>5, <2>6, <2>7, Arrives
  <1>7. CASE ResetStore(t)
    <2>1. pc[t] = "resetstore" /\ l.loadKey + 1 = idx
      BY <1>1, <1>7 DEF ResetStore, Step, Looks
    <2>2. LoadVec(t) = StoreTo
      BY <1>1, <2>1, TwoVectors DEF LoadVec, StoreTo
    <2>3. /\ pc'[t] = "load" /\ idx' = idx /\ loadIter' = loadIter
          /\ storeIter' = [storeIter EXCEPT ![StoreTo] = 0]
          /\ LoadFrom' = LoadFrom /\ StoreTo' = StoreTo
      BY <1>1, <1>7, <2>1, <2>2 DEF ResetStore, Step, LoadFrom, StoreTo
    <2>4. /\ KeysIn(LoadFrom, 0, storeIter[LoadFrom]) /\ KeysIn(StoreTo, 0, 0)
          /\ storeIter[LoadFrom] <= size[LoadFrom] /\ loadIter[LoadFrom] = 0
      BY <1>1, <2>1 DEF Vectors
    <2>5. storeIter'[StoreTo] = 0 /\ storeIter'[LoadFrom] = storeIter[LoadFrom]
          /\ storeIter'[StoreTo] <= size[StoreTo]
      BY <1>1, <2>3
    <2>6. Taken(t)' = 0 /\ Stored(t)' = 0
      BY <2>3 DEF Taken, Stored
    <2>7. Vectors(t)'
      BY <1>2, <2>3, <2>4, <2>5, <2>6 DEF Vectors, KeysIn
    <2>8. Looks("load", m)'
      BY DEF Looks
    <2>9. Puts("load", m)'
      BY DEF Puts
    <2> QED
      BY <2>3, <2>7, <2>8, <2>9, Arrives
  <1> QED
    BY <1>5, <1>6, <1>7

\* The keys of v are there as they were but for the cell p.
LEMMA CellOf ==
  ASSUME cells \in [Vecs -> [Positions -> Keys]], NEW v \in Vecs, NEW p \in Positions,
         NEW n \in Keys, cells' = [cells EXCEPT ![v][p] = n]
  PROVE  /\ \A w \in Vecs \ {v} : cells'[w] = cells[w]
         /\ \A q \in Positions \ {p} : cells'[v][q] = cells[v][q]
         /\ cells'[v][p] = n
  OBVIOUS

\* A push takes the first key behind load_iter, and counts it.
LEMMA LookupTakes ==
  ASSUME IInv, NEW t \in Threads, Queue(t),
         Peek(t) \/ Take(t) \/ StillSame(t) \/ SkipTaken(t) \/ Advance(t)
  PROVE  Queue(t)'
  <1> DEFINE l == loc[t]
  <1>1. /\ Vectors(t) /\ Looks(pc[t], l) /\ Puts(pc[t], l)
        /\ l \in Locals /\ loc \in [Threads -> Locals] /\ pc \in [Threads -> PCs]
        /\ storeIter \in [Vecs -> Nat] /\ loadIter \in [Vecs -> Nat]
        /\ size \in [Vecs -> Nat] /\ LoadFrom \in Vecs /\ StoreTo \in Vecs /\ idx \in Nat
        /\ LoadFrom # StoreTo /\ cells \in [Vecs -> [Positions -> Keys]]
        /\ \A v \in Vecs : size[v] <= MaxItems
    BY OneFacts DEF Queue
  <1>2. /\ idx' = idx /\ storeIter' = storeIter /\ size' = size
        /\ LoadFrom' = LoadFrom /\ StoreTo' = StoreTo
    BY DEF Peek, Take, StillSame, SkipTaken, Advance, LoadFrom, StoreTo, free
  <1>3. Positions \subseteq Nat /\ MaxItems \in Nat /\ 0 \in Keys
    BY Consts DEF Positions, Keys
  <1>4. pc[t] \in {"peek", "take", "same", "advance"} => LoadVec(t) = LoadFrom
    BY <1>1 DEF Looks, LoadVec, LoadFrom
  <1>5. pc[t] \in {"peek", "take", "same", "advance"} =>
          /\ KeysIn(LoadFrom, loadIter[LoadFrom] + Taken(t), storeIter[LoadFrom])
          /\ KeysIn(StoreTo, 0, storeIter[StoreTo])
          /\ storeIter[StoreTo] <= size[StoreTo] /\ storeIter[LoadFrom] <= size[LoadFrom]
    BY <1>1 DEF Vectors, Stored
  <1> PICK m : m = loc'[t]
    OBVIOUS
  <1>6. CASE Peek(t)
    <2>1. pc[t] = "peek" /\ l.i = loadIter[LoadFrom] /\ l.hi = storeIter[LoadFrom]
          /\ l.i < l.hi
      BY <1>1, <1>6 DEF Peek, Step, Looks
    <2>2. l.i \in Positions
      BY <1>1, <1>3, <1>5, <2>1 DEF Positions
    <2>3. cells[LoadFrom][l.i] # 0
      BY <1>1, <1>3, <1>5, <2>1, <2>2 DEF KeysIn, Taken
    <2>4. /\ Step(t, "peek", "take") /\ Set(t, [l EXCEPT !.key = cells[LoadFrom][l.i]])
          /\ UNCHANGED free
      BY <1>1, <1>3, <1>4, <1>6, <2>1, <2>2, <2>3 DEF Peek
    <2>5. pc'[t] = "take" /\ m = [l EXCEPT !.key = cells[LoadFrom][l.i]]
      BY <1>1, <2>4 DEF Step, Set
    <2>6. /\ m.loadKey = l.loadKey /\ m.miss = l.miss /\ m.i = l.i
          /\ m.key = cells[LoadFrom][l.i]
      BY <1>1, <2>5 DEF Locals
    <2>7. Vectors(t)'
      BY <1>1, <2>1, <2>4, <2>5, VectorsStay DEF Taken, Stored
    <2>8. loadIter' = loadIter /\ cells' = cells
      BY <2>4 DEF free
    <2>9. Looks("take", m)'
      BY <1>1, <1>2, <2>1, <2>6, <2>8 DEF Looks
    <2>10. Puts("take", m)'
      BY DEF Puts
    <2> QED
      BY <2>5, <2>7, <2>9, <2>10, Arrives
  <1>7. CASE Take(t)
    <2>1. /\ pc[t] = "take" /\ l.i = loadIter[LoadFrom] /\ l.i < storeIter[LoadFrom]
          /\ cells[LoadFrom][l.i] = l.key /\ l.miss = 0 /\ l.loadKey = idx
      BY <1>1, <1>7 DEF Take, Step, Looks
    <2>2. /\ Step(t, "take", "same") /\ cells' = [cells EXCEPT ![LoadFrom][l.i] = 0]
          /\ UNCHANGED loc /\ loadIter' = loadIter
      BY <1>4, <1>7, <2>1 DEF Take
    <2>3. l.i \in Positions
      BY <1>1, <1>3, <1>5, <2>1 DEF Positions
    <2>4. l.key # 0
      BY <1>1, <1>3, <1>5, <2>1, <2>3 DEF KeysIn, Taken
    <2>5. pc'[t] = "same" /\ m = l
      BY <1>1, <2>2 DEF Step
    <2>6. /\ cells'[StoreTo] = cells[StoreTo]
          /\ \A q \in Positions \ {l.i} : cells'[LoadFrom][q] = cells[LoadFrom][q]
          /\ cells'[LoadFrom][l.i] = 0
      BY <1>1, <1>3, <2>2, <2>3, CellOf
    <2>7. \A q \in Positions : cells'[LoadFrom][q] # 0 <=>
            loadIter[LoadFrom] + 1 <= q /\ q < storeIter[LoadFrom]
      BY <1>1, <1>3, <1>5, <2>1, <2>3, <2>6 DEF KeysIn, Taken
    <2>8. Taken(t)' = 1 /\ Stored(t)' = 0
      BY <2>5 DEF Taken, Stored
    <2>9. Vectors(t)'
      BY <1>1, <1>2, <1>5, <2>1, <2>2, <2>5, <2>6, <2>7, <2>8 DEF Vectors, KeysIn
    <2>10. Looks("same", m)'
      BY <1>2, <2>1, <2>4, <2>5 DEF Looks
    <2>11. Puts("same", m)'
      BY DEF Puts
    <2> QED
      BY <2>5, <2>9, <2>10, <2>11, Arrives
  <1>8. CASE StillSame(t)
    <2>1. pc[t] = "same" /\ l.key # 0 /\ l.miss = 0 /\ l.loadKey = idx
      BY <1>1, <1>8 DEF StillSame, Step, Looks
    <2>2. Step(t, "same", "advance") /\ UNCHANGED free /\ m = l
      BY <1>8, <2>1 DEF StillSame, AfterLookup
    <2>3. pc'[t] = "advance"
      BY <1>1, <2>2 DEF Step
    <2>4. Vectors(t)'
      BY <1>1, <2>1, <2>2, <2>3, VectorsStay DEF Taken, Stored
    <2>5. Looks("advance", m)'
      BY <1>2, <2>1, <2>2 DEF Looks
    <2>6. Puts("advance", m)'
      BY DEF Puts
    <2> QED
      BY <2>3, <2>4, <2>5, <2>6, Arrives
  <1>9. CASE SkipTaken(t)
    BY <1>1, <1>9 DEF SkipTaken, Step, Looks
  <1>10. CASE Advance(t)
    <2>1. pc[t] = "advance"
      BY <1>10 DEF Advance, Step
    <2>2. /\ pc'[t] = "reach" /\ cells' = cells
          /\ loadIter' = [loadIter EXCEPT ![LoadFrom] = @ + 1]
      BY <1>1, <1>4, <1>10, <2>1 DEF Advance, Step
    <2>3. loadIter'[LoadFrom] = loadIter[LoadFrom] + 1
      BY <1>1, <2>2
    <2>4. Taken(t)' = 0 /\ Stored(t)' = 0 /\ Taken(t) = 1
      BY <2>1, <2>2 DEF Taken, Stored
    <2>5. \A q \in Positions : cells'[LoadFrom][q] # 0 <=>
            loadIter'[LoadFrom] + 0 <= q /\ q < storeIter[LoadFrom]
      BY <1>1, <1>3, <1>5, <2>1, <2>2, <2>3, <2>4 DEF KeysIn
    <2>6. Vectors(t)'
      BY <1>1, <1>2, <1>5, <2>1, <2>2, <2>4, <2>5 DEF Vectors, KeysIn
    <2>7. Looks("reach", m)'
      BY DEF Looks
    <2>8. Puts("reach", m)'
      BY DEF Puts
    <2> QED
      BY <2>2, <2>6, <2>7, <2>8, Arrives
  <1> QED
    BY <1>6, <1>7, <1>8, <1>9, <1>10

\* A push that has its key or wants a new slot, and the beginning of a delete.
LEMMA OthersBegin ==
  ASSUME IInv, NEW t \in Threads, Queue(t),
         Storing(t) \/ DeleteStart(t) \/ ReachDeleted(t) \/ Disable(t)
  PROVE  Queue(t)'
  <1> DEFINE Claims == {"claim", "fetch", "undo"}
             Deletes == {"dreach", "disable", "dstore"}
  <1>1. /\ Vectors(t) /\ Puts(pc[t], loc[t]) /\ Looks(pc[t], loc[t]) /\ Fits(pc[t], loc[t], idx)
        /\ loc[t] \in Locals /\ loc \in [Threads -> Locals] /\ pc \in [Threads -> PCs]
        /\ storeIter \in [Vecs -> Nat] /\ loadIter \in [Vecs -> Nat]
        /\ LoadFrom \in Vecs /\ StoreTo \in Vecs
    BY OneFacts DEF Queue
  <1>2. UNCHANGED free
    BY Walking DEF Storing, ReachReused, Reuse, LoadSlots, ClaimSlot, UndoSlot, FillSlot, CountSlot,
         AnnounceSlot, DeleteStart, ReachDeleted, Disable, free
  <1>3. /\ storeIter' = storeIter /\ loadIter' = loadIter
        /\ LoadFrom' = LoadFrom /\ StoreTo' = StoreTo
    BY <1>2 DEF free, LoadFrom, StoreTo
  <1> PICK m : m = loc'[t]
    OBVIOUS
  <1>4. ASSUME NEW from \in Claims \cup Deletes \cup
                              {"reach", "reuse", "fill", "len", "announce", "idle"},
               NEW to \in Claims \cup Deletes \cup
                            {"reach", "reuse", "fill", "len", "announce", "idle"},
               Step(t, from, to), to \in Deletes => m.miss = 0, to \in Claims => from \in Claims
        PROVE  Queue(t)'
    <2>1. pc[t] = from /\ pc'[t] = to
      BY <1>1, <1>4 DEF Step
    <2>2. Vectors(t)'
      BY <1>1, <1>2, <1>4, <2>1, VectorsStay DEF Taken, Stored
    <2>3. Puts(to, m)'
      BY <1>4 DEF Puts
    <2>4. Looks(to, m)'
      BY <1>1, <1>3, <1>4, <2>1 DEF Looks
    <2> QED
      BY <2>1, <2>2, <2>3, <2>4, Arrives
  <1>5. CASE \/ Reuse(t) \/ LoadSlots(t) \/ ClaimSlot(t) \/ UndoSlot(t) \/ FillSlot(t)
             \/ CountSlot(t) \/ AnnounceSlot(t) \/ ReachReused(t)
    BY <1>4, <1>5 DEF Reuse, LoadSlots, ClaimSlot, UndoSlot, FillSlot, CountSlot, AnnounceSlot,
         ReachReused, Reach, Return
  <1>6. CASE DeleteStart(t)
    <2>1. PICK h : IF h[1] = 0
                   THEN Step(t, "idle", "idle") /\ UNCHANGED loc
                   ELSE /\ Step(t, "idle", "dreach")
                        /\ Set(t, [NoLocals EXCEPT !.key = h[1], !.item = h[2]])
      BY <1>6 DEF DeleteStart
    <2>2. CASE h[1] = 0
      BY <1>4, <2>1, <2>2
    <2>3. CASE h[1] # 0
      <3>1. m = [NoLocals EXCEPT !.key = h[1], !.item = h[2]]
        BY <1>1, <2>1, <2>3 DEF Set
      <3>2. m.miss = 0
        BY <3>1 DEF NoLocals
      <3> QED
        BY <1>4, <2>1, <2>3, <3>2
    <2> QED
      BY <2>2, <2>3
  <1>7. CASE ReachDeleted(t)
    <2>1. pc[t] = "dreach" /\ loc[t].miss = 0 /\ loc[t].key # 0
      BY <1>1, <1>7 DEF ReachDeleted, Reach, Step, Puts, Fits, DeletePC
    <2>2. m.miss = 0
      <3>1. CASE loc' = loc
        BY <2>1, <3>1
      <3>2. CASE Set(t, WithAt(loc[t], Reached(t)))
        <4>1. m = WithAt(loc[t], Reached(t))
          BY <1>1, <3>2 DEF Set
        <4> QED
          BY <1>1, <2>1, <4>1 DEF WithAt, Locals
      <3> QED
        BY <1>7, <3>1, <3>2, Walking DEF ReachDeleted
    <2> QED
      BY <1>4, <1>7, <2>2 DEF ReachDeleted, Reach
  <1>8. CASE Disable(t)
    <2>1. \/ Step(t, "disable", "idle")
          \/ Step(t, "disable", "dstore") /\ m = loc[t]
      BY <1>8 DEF Disable, Return
    <2>2. pc[t] = "disable"
      BY <2>1 DEF Step
    <2> QED
      BY <1>1, <1>4, <2>1, <2>2 DEF Puts
  <1> QED
    BY <1>5, <1>6, <1>7, <1>8 DEF Storing

\* A delete looks for a cell behind the keys of the vector it stores to.
LEMMA DeleteLooks ==
  ASSUME IInv, Scanning, NEW t \in Threads, Queue(t),
         DStoreKey(t) \/ CheckStore(t) \/ DRange(t) \/ DPeek(t)
  PROVE  Queue(t)'
  <1> DEFINE l == loc[t]
  <1>1. /\ Vectors(t) /\ Looks(pc[t], l) /\ Puts(pc[t], l)
        /\ l \in Locals /\ loc \in [Threads -> Locals] /\ pc \in [Threads -> PCs]
        /\ storeIter \in [Vecs -> Nat] /\ loadIter \in [Vecs -> Nat]
        /\ size \in [Vecs -> Nat] /\ LoadFrom \in Vecs /\ StoreTo \in Vecs /\ idx \in Nat
        /\ cells \in [Vecs -> [Positions -> Keys]] /\ \A v \in Vecs : size[v] <= MaxItems
    BY OneFacts DEF Queue
  <1>2. UNCHANGED free
    BY DEF DStoreKey, CheckStore, DRange, DPeek
  <1>3. /\ LoadFrom' = LoadFrom /\ StoreTo' = StoreTo /\ idx' = idx
        /\ storeIter' = storeIter /\ loadIter' = loadIter /\ size' = size /\ cells' = cells
    BY <1>2 DEF free, LoadFrom, StoreTo
  <1>4. pc[t] \in {"check", "drange", "dpeek"} => StoreVec(t) = StoreTo
    BY <1>1 DEF Puts, StoreVec, StoreTo
  <1>5. Positions \subseteq Nat /\ MaxItems \in Nat
    BY Consts DEF Positions
  <1> PICK m : m = loc'[t]
    OBVIOUS
  <1>6. ASSUME NEW from \in {"dstore", "check", "drange", "dpeek"},
               NEW to \in {"check", "drange", "append", "dpeek", "put", "count"},
               Step(t, from, to), Puts(to, m)', Stored(t)' = Stored(t)
        PROVE  Queue(t)'
    <2>1. pc[t] = from /\ pc'[t] = to
      BY <1>1, <1>6 DEF Step
    <2>2. Vectors(t)'
      BY <1>1, <1>2, <1>6, <2>1, VectorsStay DEF Taken
    <2>3. Looks(to, m)'
      BY <1>6 DEF Looks
    <2> QED
      BY <1>6, <2>1, <2>2, <2>3, Arrives
  <1>7. CASE DStoreKey(t)
    <2>1. /\ m = [l EXCEPT !.storeKey = idx + 1] /\ pc[t] = "dstore" /\ pc'[t] = "check"
      BY <1>1, <1>7 DEF DStoreKey, Set, Step
    <2>2. m.storeKey = idx + 1 /\ m.miss = l.miss
      BY <1>1, <2>1 DEF Locals
    <2>3. Puts("check", m)'
      BY <1>1, <1>3, <2>1, <2>2 DEF Puts
    <2> QED
      BY <1>6, <1>7, <2>1, <2>3 DEF DStoreKey, Stored
  <1>8. CASE CheckStore(t)
    <2>1. pc[t] = "check" /\ m = l /\ ~l.found
      BY <1>8 DEF CheckStore, Step, Scanning, Scans
    <2>2. storeIter[StoreTo] <= size[StoreTo] /\ storeIter[StoreTo] \in Nat /\ size[StoreTo] \in Nat
      BY <1>1, <2>1 DEF Vectors
    <2>3. CASE storeIter[StoreTo] < size[StoreTo]
      <3>1. Step(t, "check", "drange")
        BY <1>4, <1>8, <2>1, <2>3 DEF CheckStore
      <3>2. pc'[t] = "drange"
        BY <1>1, <3>1 DEF Step
      <3>3. Puts("drange", m)'
        BY <1>1, <1>3, <2>1, <2>3 DEF Puts
      <3> QED
        BY <1>6, <2>1, <3>1, <3>2, <3>3 DEF Stored
    <2>4. CASE ~(storeIter[StoreTo] < size[StoreTo])
      <3>1. Step(t, "check", "append")
        BY <1>4, <1>8, <2>1, <2>4 DEF CheckStore
      <3>2. pc'[t] = "append"
        BY <1>1, <3>1 DEF Step
      <3>3. storeIter[StoreTo] = size[StoreTo]
        BY <2>2, <2>4
      <3>4. Puts("append", m)'
        BY <1>1, <1>3, <2>1, <3>3 DEF Puts
      <3> QED
        BY <1>6, <2>1, <3>1, <3>2, <3>4 DEF Stored
    <2> QED
      BY <2>3, <2>4
  <1>9. CASE DRange(t)
    <2>1. pc[t] = "drange" /\ pc'[t] = "dpeek" /\ ~l.found
      BY <1>1, <1>9 DEF DRange, Step, Scanning, Scans
    <2>2. m = [l EXCEPT !.i = storeIter[StoreTo], !.hi = size[StoreTo]]
      BY <1>1, <1>4, <1>9, <2>1 DEF DRange, Set
    <2>3. /\ m.storeKey = l.storeKey /\ m.miss = l.miss /\ m.found = l.found
          /\ m.i = storeIter[StoreTo] /\ m.hi = size[StoreTo]
      BY <1>1, <2>2 DEF Locals
    <2>4. Puts("dpeek", m)'
      BY <1>1, <1>3, <2>1, <2>3 DEF Puts
    <2> QED
      BY <1>6, <1>9, <2>1, <2>3, <2>4 DEF DRange, Stored
  <1>10. CASE DPeek(t)
    <2>1. pc[t] = "dpeek" /\ l.miss = 0 /\ l.i \in Nat /\ l.hi \in Nat
      BY <1>1, <1>10 DEF DPeek, Step, Puts, Locals
    <2>2. CASE l.found
      <3>1. l.i >= l.hi
        BY <2>1, <2>2 DEF Scanning, Scans
      <3>2. ~(l.i < l.hi) /\ ~(l.miss > 0)
        BY <2>1, <3>1
      <3>3. Step(t, "dpeek", "count") /\ m = l
        BY <1>10, <2>2, <3>2 DEF DPeek, AfterScan
      <3>4. pc'[t] = "count"
        BY <1>1, <3>3 DEF Step
      <3>5. Puts("count", m)'
        BY <1>1, <1>3, <2>1, <3>3 DEF Puts
      <3> QED
        BY <1>6, <2>1, <2>2, <3>3, <3>4, <3>5 DEF Stored
    <2>3. CASE ~l.found
      <3>1. l.i = storeIter[StoreTo] /\ l.hi = size[StoreTo] /\ l.i < l.hi
        BY <1>1, <2>1, <2>3 DEF Puts
      <3>2. l.i \in Positions
        BY <1>1, <1>5, <2>1, <3>1 DEF Positions
      <3>3. KeysIn(StoreTo, 0, storeIter[StoreTo])
        BY <1>1, <2>1, <2>3 DEF Vectors, Stored
      <3>4. cells[StoreTo][l.i] = 0
        BY <1>1, <2>1, <3>1, <3>2, <3>3 DEF KeysIn
      <3>5. Step(t, "dpeek", "put") /\ m = l
        BY <1>4, <1>10, <2>1, <3>1, <3>4 DEF DPeek
      <3>6. pc'[t] = "put"
        BY <1>1, <3>5 DEF Step
      <3>7. Puts("put", m)'
        BY <1>1, <1>3, <2>1, <2>3, <3>5 DEF Puts
      <3> QED
        BY <1>6, <2>1, <2>3, <3>5, <3>6, <3>7 DEF Stored
    <2> QED
      BY <2>2, <2>3
  <1> QED
    BY <1>7, <1>8, <1>9, <1>10

\* The cells of a vector a single call has claimed and not announced.
LEMMA OneAppends ==
  ASSUME IInv, NEW t, Threads = {t}, NEW v \in Vecs
  PROVE  /\ pc[t] \in {"dwrite", "dannounce"} /\ StoreVec(t) = v => claimed[v] = size[v] + 1
         /\ pc[t] \notin {"dwrite", "dannounce"} => claimed[v] = size[v]
  <1>1. /\ size[v] + Cardinality(Appending(v)) = claimed[v]
        /\ size[v] \in Nat /\ claimed[v] \in Nat
    BY DEF IInv, Budget, TypeOK
  <1>2. ASSUME pc[t] \in {"dwrite", "dannounce"}, StoreVec(t) = v
        PROVE  claimed[v] = size[v] + 1
    <2>1. Appending(v) = {t}
      BY <1>2 DEF Appending, At
    <2> QED
      BY <1>1, <2>1, FS_Singleton
  <1>3. ASSUME pc[t] \notin {"dwrite", "dannounce"}
        PROVE  claimed[v] = size[v]
    <2>1. Appending(v) = {}
      BY <1>3 DEF Appending, At
    <2> QED
      BY <1>1, <2>1, FS_EmptySet
  <1> QED
    BY <1>2, <1>3

\* A delete writes its key to the first cell behind the keys, and counts it.
LEMMA DeleteStores ==
  ASSUME IInv, Scanning, NEW t, Threads = {t}, Queue(t),
         \/ Put(t) \/ DSame(t) \/ DSkip(t) \/ Append(t) \/ AppendWrite(t)
         \/ AppendAnnounce(t) \/ CountKey(t)
  PROVE  Queue(t)'
  <1> DEFINE l == loc[t]
             n == storeIter[StoreTo]
  <1>0. t \in Threads
    OBVIOUS
  <1>1. /\ Vectors(t) /\ Looks(pc[t], l) /\ Puts(pc[t], l) /\ Fits(pc[t], l, idx)
        /\ l \in Locals /\ loc \in [Threads -> Locals] /\ pc \in [Threads -> PCs]
        /\ storeIter \in [Vecs -> Nat] /\ loadIter \in [Vecs -> Nat]
        /\ size \in [Vecs -> Nat] /\ LoadFrom \in Vecs /\ StoreTo \in Vecs /\ idx \in Nat
        /\ cells \in [Vecs -> [Positions -> Keys]] /\ \A v \in Vecs : size[v] <= MaxItems
        /\ LoadFrom # StoreTo /\ claimed \in [Vecs -> Nat]
    BY <1>0, OneFacts DEF Queue
  <1>2. /\ idx' = idx /\ loadIter' = loadIter /\ LoadFrom' = LoadFrom /\ StoreTo' = StoreTo
    BY DEF Put, DSame, DSkip, Append, AppendWrite, AppendAnnounce, CountKey, LoadFrom, StoreTo,
           free
  <1>3. pc[t] \in DeletePC \cup {"idle"}
    BY DEF Put, DSame, DSkip, Append, AppendWrite, AppendAnnounce, CountKey, Step, Return, DeletePC
  <1>4. /\ KeysIn(LoadFrom, loadIter[LoadFrom], storeIter[LoadFrom])
        /\ KeysIn(StoreTo, 0, n + Stored(t))
        /\ n <= size[StoreTo] /\ storeIter[LoadFrom] <= size[LoadFrom]
        /\ loadIter[LoadFrom] \in Nat /\ storeIter[LoadFrom] \in Nat /\ n \in Nat
        /\ size[StoreTo] \in Nat /\ loadIter[LoadFrom] + 0 = loadIter[LoadFrom] /\ n + 0 = n
    <2>1. Taken(t) = 0 /\ pc[t] \notin {"resetload", "resetstore"}
      BY <1>3 DEF Taken, DeletePC
    <2> QED
      BY <1>1, <2>1 DEF Vectors
  <1>5. pc[t] \in {"put", "append", "dwrite", "dannounce", "count"} => StoreVec(t) = StoreTo
    BY <1>1 DEF Puts, StoreVec, StoreTo
  <1>6. Positions \subseteq Nat /\ MaxItems \in Nat /\ l.key \in Keys
    BY <1>1, Consts DEF Positions, Locals
  <1> PICK m : m = loc'[t]
    OBVIOUS
  <1>7. ASSUME NEW p \in Positions, p = n, l.key # 0, KeysIn(StoreTo, 0, n),
               cells' = [cells EXCEPT ![StoreTo][p] = l.key],
               size' = size, storeIter' = storeIter,
               Taken(t)' = 0, Stored(t)' = 1, pc'[t] \notin {"resetload", "resetstore"}
        PROVE  Vectors(t)'
    <2>1. /\ cells'[LoadFrom] = cells[LoadFrom]
          /\ \A q \in Positions \ {p} : cells'[StoreTo][q] = cells[StoreTo][q]
          /\ cells'[StoreTo][p] = l.key
      BY <1>1, <1>6, <1>7, CellOf
    <2>2. \A q \in Positions : cells'[StoreTo][q] # 0 <=> 0 <= q /\ q < n + 1
      BY <1>4, <1>6, <1>7, <2>1 DEF KeysIn
    <2> QED
      BY <1>2, <1>4, <1>7, <2>1, <2>2 DEF Vectors, KeysIn
  <1>8. CASE Put(t)
    <2>1. /\ pc[t] = "put" /\ l.i = n /\ l.hi = size[StoreTo] /\ n < size[StoreTo]
          /\ ~l.found /\ l.key # 0 /\ Stored(t) = 0 /\ l.miss = 0 /\ l.storeKey = idx + 1
      BY <1>1, <1>8 DEF Put, Step, Puts, Scanning, Scans, Stored, Fits, DeletePC
    <2>2. l.i \in Positions
      BY <1>1, <1>4, <1>6, <2>1 DEF Positions
    <2>3. cells[StoreTo][l.i] = 0
      BY <1>4, <1>6, <2>1, <2>2 DEF KeysIn
    <2>4. /\ pc'[t] = "dpeek" /\ size' = size /\ storeIter' = storeIter
          /\ cells' = [cells EXCEPT ![StoreTo][l.i] = l.key]
          /\ m = [l EXCEPT !.found = TRUE, !.i = K * (l.i \div K + 1)]
      BY <1>1, <1>5, <1>8, <2>1, <2>3 DEF Put, Step, Set
    <2>5. m.found = TRUE /\ m.storeKey = l.storeKey /\ m.miss = l.miss
      BY <1>1, <2>4 DEF Locals
    <2>6. Taken(t)' = 0 /\ Stored(t)' = 1
      BY <2>4, <2>5 DEF Taken, Stored
    <2>7. Vectors(t)'
      BY <1>4, <1>7, <2>1, <2>2, <2>4, <2>6
    <2>8. Puts("dpeek", m)'
      BY <1>2, <2>1, <2>4, <2>5 DEF Puts
    <2>9. Looks("dpeek", m)'
      BY DEF Looks
    <2> QED
      BY <2>4, <2>7, <2>8, <2>9, Arrives
  <1>9. CASE DSame(t) \/ DSkip(t)
    BY <1>1, <1>9 DEF DSame, DSkip, Step, Puts
  <1>10. CASE Append(t)
    <2>1. /\ pc[t] = "append" /\ n = size[StoreTo] /\ Stored(t) = 0 /\ l.storeKey = idx + 1
          /\ ~l.found
      BY <1>1, <1>10 DEF Append, Step, Puts, Stored
    <2>2. claimed[StoreTo] = n
      BY <1>1, <2>1, OneAppends
    <2>3. /\ pc'[t] = "dwrite" /\ size' = size /\ storeIter' = storeIter /\ cells' = cells
          /\ m = [l EXCEPT !.at = n]
      BY <1>1, <1>5, <1>10, <2>1, <2>2 DEF Append, Step, Set
    <2>4. m.at = n /\ m.storeKey = l.storeKey
      BY <1>1, <2>3 DEF Locals
    <2>5. Taken(t)' = 0 /\ Stored(t)' = 0
      BY <2>3 DEF Taken, Stored
    <2>6. Vectors(t)'
      BY <1>2, <1>4, <2>1, <2>3, <2>5 DEF Vectors, KeysIn
    <2>7. Puts("dwrite", m)'
      BY <1>2, <2>1, <2>3, <2>4 DEF Puts
    <2>8. Looks("dwrite", m)'
      BY DEF Looks
    <2> QED
      BY <2>3, <2>6, <2>7, <2>8, Arrives
  <1>11. CASE AppendWrite(t)
    <2>1. /\ pc[t] = "dwrite" /\ n = size[StoreTo] /\ Stored(t) = 0 /\ l.storeKey = idx + 1
          /\ l.at = n /\ l.key # 0
      BY <1>1, <1>11 DEF AppendWrite, Step, Puts, Stored, Fits, DeletePC
    <2>2. claimed[StoreTo] = n + 1 /\ claimed[StoreTo] <= MaxItems
      BY <1>1, <1>5, <2>1, OneAppends DEF IInv, TypeOK
    <2>3. l.at \in Positions
      BY <1>4, <1>6, <2>1, <2>2 DEF Positions
    <2>4. /\ pc'[t] = "dannounce" /\ size' = size /\ storeIter' = storeIter /\ m = l
          /\ cells' = [cells EXCEPT ![StoreTo][l.at] = l.key]
      BY <1>1, <1>5, <1>11, <2>1 DEF AppendWrite, Step
    <2>5. Taken(t)' = 0 /\ Stored(t)' = 1
      BY <2>4 DEF Taken, Stored
    <2>6. Vectors(t)'
      BY <1>4, <1>7, <2>1, <2>3, <2>4, <2>5
    <2>7. Puts("dannounce", m)'
      BY <1>2, <2>1, <2>4 DEF Puts
    <2>8. Looks("dannounce", m)'
      BY DEF Looks
    <2> QED
      BY <2>4, <2>6, <2>7, <2>8, Arrives
  <1>12. CASE AppendAnnounce(t)
    <2>1. /\ pc[t] = "dannounce" /\ n = size[StoreTo] /\ Stored(t) = 1 /\ l.storeKey = idx + 1
      BY <1>1, <1>12 DEF AppendAnnounce, Step, Puts, Stored
    <2>2. /\ pc'[t] = "count" /\ storeIter' = storeIter /\ cells' = cells /\ m = l
          /\ size' = [size EXCEPT ![StoreTo] = @ + 1]
      BY <1>1, <1>5, <1>12, <2>1 DEF AppendAnnounce, Step
    <2>3. size'[StoreTo] = n + 1 /\ size'[LoadFrom] = size[LoadFrom]
      BY <1>1, <2>1, <2>2
    <2>4. Taken(t)' = 0 /\ Stored(t)' = 1 /\ n <= n + 1 /\ n < n + 1
      BY <1>4, <2>2 DEF Taken, Stored
    <2>5. Vectors(t)'
      BY <1>2, <1>4, <2>1, <2>2, <2>3, <2>4 DEF Vectors, KeysIn
    <2>6. Puts("count", m)'
      BY <1>2, <2>1, <2>2, <2>3, <2>4 DEF Puts
    <2>7. Looks("count", m)'
      BY DEF Looks
    <2> QED
      BY <2>2, <2>5, <2>6, <2>7, Arrives
  <1>13. CASE CountKey(t)
    <2>1. /\ pc[t] = "count" /\ n < size[StoreTo] /\ Stored(t) = 1
      BY <1>1, <1>13 DEF CountKey, Return, Step, Puts, Stored
    <2>2. /\ pc'[t] = "idle" /\ cells' = cells /\ size' = size
          /\ storeIter' = [storeIter EXCEPT ![StoreTo] = @ + 1]
      BY <1>1, <1>5, <1>13, <2>1 DEF CountKey, Return, Step
    <2>3. storeIter'[StoreTo] = n + 1 /\ storeIter'[LoadFrom] = storeIter[LoadFrom]
      BY <1>1, <2>2
    <2>4. Taken(t)' = 0 /\ Stored(t)' = 0 /\ n + 1 <= size[StoreTo] /\ n + 1 + 0 = n + 1
      BY <1>4, <2>1, <2>2 DEF Taken, Stored
    <2>5. Vectors(t)'
      BY <1>2, <1>4, <2>1, <2>2, <2>3, <2>4 DEF Vectors, KeysIn
    <2>6. Puts("idle", m)'
      BY DEF Puts
    <2>7. Looks("idle", m)'
      BY DEF Looks
    <2> QED
      BY <2>2, <2>5, <2>6, <2>7, Arrives
  <1> QED
    BY <1>8, <1>9, <1>10, <1>11, <1>12, <1>13

\* The free cells are finitely many.
LEMMA CellsFinite == IsFiniteSet(FreeCells) /\ Cardinality(FreeCells) \in Nat
  <1>1. IsFiniteSet(Vecs)
    <2>1. Vecs = {0} \cup {1}
      BY DEF Vecs
    <2> QED
      BY <2>1, FS_Singleton, FS_AddElement
  <1>2. IsFiniteSet(Vecs \X Positions)
    <2>1. MaxItems - 1 \in Int
      BY Consts
    <2>2. IsFiniteSet(Positions)
      BY <2>1, FS_Interval DEF Positions
    <2> QED
      BY <1>1, <2>2, FS_Product
  <1>3. FreeCells \in SUBSET (Vecs \X Positions)
    BY DEF FreeCells
  <1> QED
    BY <1>2, <1>3, FS_Subset, FS_CardinalityType

\* A cell that gets a key is one free cell more.
LEMMA CellFilled ==
  ASSUME cells \in [Vecs -> [Positions -> Keys]], NEW v \in Vecs, NEW p \in Positions,
         NEW n \in Keys \ {0}, cells[v][p] = 0, cells' = [cells EXCEPT ![v][p] = n]
  PROVE  Cardinality(FreeCells') = Cardinality(FreeCells) + 1
  <1>1. PICK c : c = <<v, p>>
    OBVIOUS
  <1>2. \A x \in Vecs \X Positions : x # c => cells'[x[1]][x[2]] = cells[x[1]][x[2]]
    <2> SUFFICES ASSUME NEW x \in Vecs \X Positions, x # c
                 PROVE  cells'[x[1]][x[2]] = cells[x[1]][x[2]]
      OBVIOUS
    <2>1. /\ x[1] \in Vecs /\ x[2] \in Positions
          /\ x[1] # v \/ x[2] # p
      BY <1>1
    <2> QED
      BY <2>1
  <1>3. c \in Vecs \X Positions /\ c[1] = v /\ c[2] = p /\ cells'[v][p] = n
    BY <1>1
  <1>4. FreeCells' = FreeCells \cup {c}
    BY <1>2, <1>3 DEF FreeCells
  <1>5. c \notin FreeCells
    BY <1>3 DEF FreeCells
  <1> QED
    BY <1>4, <1>5, CellsFinite, FS_AddElement

\* A cell whose key is taken is one free cell less.
LEMMA CellEmptied ==
  ASSUME cells \in [Vecs -> [Positions -> Keys]], NEW v \in Vecs, NEW p \in Positions,
         0 \in Keys, cells[v][p] # 0, cells' = [cells EXCEPT ![v][p] = 0]
  PROVE  Cardinality(FreeCells') = Cardinality(FreeCells) - 1
  <1>1. PICK c : c = <<v, p>>
    OBVIOUS
  <1>2. \A x \in Vecs \X Positions : x # c => cells'[x[1]][x[2]] = cells[x[1]][x[2]]
    <2> SUFFICES ASSUME NEW x \in Vecs \X Positions, x # c
                 PROVE  cells'[x[1]][x[2]] = cells[x[1]][x[2]]
      OBVIOUS
    <2>1. /\ x[1] \in Vecs /\ x[2] \in Positions
          /\ x[1] # v \/ x[2] # p
      BY <1>1
    <2> QED
      BY <2>1
  <1>3. c \in Vecs \X Positions /\ c[1] = v /\ c[2] = p /\ cells'[v][p] = 0
    BY <1>1
  <1>4. FreeCells' = FreeCells \ {c}
    BY <1>2, <1>3 DEF FreeCells
  <1>5. c \in FreeCells
    BY <1>3 DEF FreeCells
  <1> QED
    BY <1>4, <1>5, CellsFinite, FS_RemoveElement

\* When a call at p with the locals l has a key in hand.
LEMMA HandOf ==
  ASSUME NEW t \in Threads
  PROVE  t \in Carriers <=>
           \/ pc[t] \in {"same", "skip", "advance", "reach", "reuse"} /\ loc[t].key # 0
           \/ pc[t] \in {"dreach", "disable", "dstore", "check", "drange", "append", "dwrite"}
           \/ pc[t] \in {"dpeek", "put", "dsame", "dskip"} /\ ~loc[t].found
  BY DEF Carriers

\* Steps of a call that keep what it has in hand.
LEMMA HandKept ==
  ASSUME IInv, Scanning, NEW t \in Threads, Queue(t),
         \/ Passing(t) \/ (Lookup(t) /\ ~Take(t)) \/ ReachDeleted(t)
         \/ DStoreKey(t) \/ CheckStore(t) \/ DRange(t) \/ DPeek(t) \/ DSame(t) \/ DSkip(t)
         \/ Append(t) \/ AppendAnnounce(t) \/ CountKey(t)
  PROVE  (t \in Carriers)' <=> t \in Carriers
  <1> DEFINE l == loc[t]
             Free == {"idle", "load", "store", "max", "drained", "refill", "swap", "resetload",
                      "resetstore", "lo", "hi", "peek", "take", "claim", "fetch", "undo", "fill",
                      "len", "announce", "dannounce", "count"}
             Always == {"dreach", "disable", "dstore", "check", "drange", "append", "dwrite"}
  <1>1. /\ Looks(pc[t], l) /\ Puts(pc[t], l) /\ Fits(pc[t], l, idx) /\ Scans(pc[t], l)
        /\ l \in Locals /\ loc \in [Threads -> Locals] /\ pc \in [Threads -> PCs]
        /\ l.i \in Nat /\ l.hi \in Nat
    BY OneFacts DEF Queue, Scanning, Locals
  <1>2. ASSUME NEW from \in Free, NEW to \in Free, Step(t, from, to)
        PROVE  (t \in Carriers)' <=> t \in Carriers
    BY <1>1, <1>2 DEF Step, Carriers
  <1>3. ASSUME NEW from \in Always, NEW to \in Always, Step(t, from, to)
        PROVE  (t \in Carriers)' <=> t \in Carriers
    BY <1>1, <1>3 DEF Step, Carriers
  <1>4. CASE \/ PushStart(t) \/ LoadKey(t) \/ StoreKey(t) \/ LoadMax(t) \/ Refill(t)
             \/ ResetLoad(t) \/ ResetStore(t) \/ RangeLo(t) \/ RangeHi(t) \/ LoadSlots(t)
             \/ ClaimSlot(t) \/ UndoSlot(t) \/ FillSlot(t) \/ CountSlot(t) \/ AppendAnnounce(t)
             \/ CountKey(t) \/ Drained(t) \/ Swap(t)
    BY <1>2, <1>4 DEF PushStart, LoadKey, StoreKey, LoadMax, Refill, ResetLoad, ResetStore,
         RangeLo, RangeHi, LoadSlots, ClaimSlot, UndoSlot, FillSlot, CountSlot, AppendAnnounce,
         CountKey, Drained, Swap, Return
  <1>5. CASE DStoreKey(t) \/ CheckStore(t) \/ Append(t) \/ ReachDeleted(t)
    BY <1>3, <1>5 DEF DStoreKey, CheckStore, Append, ReachDeleted, Reach
  <1>6. CASE SkipTaken(t) \/ DSame(t) \/ DSkip(t)
    BY <1>1, <1>6 DEF SkipTaken, DSame, DSkip, Step, Looks, Puts
  <1>7. CASE Peek(t)
    <2>1. pc[t] = "peek" /\ l.key = 0
      BY <1>1, <1>7 DEF Peek, Step, Fits
    <2>2. CASE Step(t, "peek", "same") /\ UNCHANGED loc
      BY <1>1, <2>1, <2>2 DEF Step, Carriers
    <2>3. CASE Step(t, "peek", "peek") \/ Step(t, "peek", "take")
      BY <1>2, <2>3
    <2> QED
      BY <1>7, <2>2, <2>3 DEF Peek
  <1>8. CASE StillSame(t)
    <2>1. pc[t] = "same" /\ l.key # 0 /\ loc' = loc
      BY <1>1, <1>8 DEF StillSame, Step, Looks
    <2>2. Step(t, "same", "skip") \/ Step(t, "same", "advance")
      BY <1>8, <2>1 DEF StillSame, AfterLookup
    <2> QED
      BY <1>1, <2>1, <2>2 DEF Step, Carriers
  <1>9. CASE Advance(t)
    <2>1. pc[t] = "advance" /\ pc'[t] = "reach"
      BY <1>1, <1>9 DEF Advance, Step
    <2>2. loc'[t] = [NoLocals EXCEPT !.key = l.key, !.item = l.item]
      BY <1>1, <1>9 DEF Advance, Set
    <2>3. loc'[t].key = l.key
      BY <2>2 DEF NoLocals
    <2> QED
      BY <2>1, <2>3 DEF Carriers
  <1>10. CASE DRange(t)
    <2>1. pc[t] = "drange" /\ pc'[t] = "dpeek" /\ ~l.found
      BY <1>1, <1>10 DEF DRange, Step, Scans
    <2>2. loc'[t] = [l EXCEPT !.i = storeIter[StoreVec(t)], !.hi = size[StoreVec(t)]]
      BY <1>1, <1>10 DEF DRange, Set
    <2>3. loc'[t].found = l.found
      BY <1>1, <2>2 DEF Locals
    <2> QED
      BY <2>1, <2>3 DEF Carriers
  <1>11. CASE DPeek(t)
    <2>1. pc[t] = "dpeek" /\ ~(l.miss > 0) /\ (l.found => ~(l.i < l.hi))
      BY <1>1, <1>11 DEF DPeek, Step, Scans, Puts
    <2>2. t \in Carriers <=> ~l.found
      BY <2>1 DEF Carriers
    <2>3. \/ /\ pc'[t] = IF l.found THEN "count" ELSE "append"
             /\ loc'[t] = l
          \/ /\ pc'[t] = "dpeek" /\ loc'[t] = [l EXCEPT !.i = @ + 1]
          \/ /\ pc'[t] = "put" /\ loc'[t] = l
      BY <1>1, <1>11, <2>1 DEF DPeek, Step, Set, AfterScan
    <2>4. loc'[t].found = l.found
      BY <1>1, <2>3 DEF Locals
    <2>5. (t \in Carriers)' <=> ~l.found
      BY <2>3, <2>4 DEF Carriers
    <2> QED
      BY <2>2, <2>5
  <1>12. CASE ReachReused(t)
    <2>1. pc[t] = "reach" /\ l.key # 0
      BY <1>1, <1>12 DEF ReachReused, Reach, Step, Fits
    <2>2. pc'[t] \in {"reach", "reuse"} /\ loc'[t].key = l.key
      BY <1>1, <1>12, <2>1, WalkKeeps DEF ReachReused, Reach, Step
    <2> QED
      BY <2>1, <2>2 DEF Carriers
  <1> QED
    BY <1>4, <1>5, <1>6, <1>7, <1>8, <1>9, <1>10, <1>11, <1>12 DEF Lookup, Passing

\* A key in hand is where Sole looks for it.
LEMMA HandIsCall ==
  ASSUME NEW t \in Carriers
  PROVE  IsAt(loc[t].key, "call", t)
  BY DEF Carriers, IsAt, Carries

\* What is known of the slots of one caller.
LEMMA OneSlots ==
  ASSUME NEW t, Threads = {t}, Nameable, SlotInvariant
  PROVE  /\ IInv /\ Scanning /\ Sole
         /\ slots \in [Positions -> Items \cup {0}] /\ held \subseteq Keys \X Items
         /\ slotsSize \in Nat /\ slotsClaimed \in Nat /\ slotsSize < KeySpace
         /\ slotsClaimed <= MaxItems /\ MaxItems \in Nat
         /\ loc \in [Threads -> Locals] /\ pc \in [Threads -> PCs] /\ Fits(pc[t], loc[t], idx)
         /\ \A h \in held : /\ h[1] \in Nat \ {0} /\ h[1] <= slotsSize
                            /\ h[2] \in Items /\ h[1] - 1 \in Positions
         /\ t \in Carriers => /\ loc[t].key \in Nat \ {0} /\ loc[t].key <= slotsSize
                              /\ loc[t].key - 1 \in Positions
                              /\ \A h \in held : h[1] # loc[t].key
         /\ pc[t] \notin {"fill", "len", "announce"} => slotsClaimed = slotsSize
         /\ pc[t] \in {"fill", "len", "announce"} => slotsSize < slotsClaimed
  <1>1. /\ IInv /\ Scanning /\ Sole /\ slots \in [Positions -> Items \cup {0}]
        /\ slotsSize \in Nat /\ slotsClaimed \in Nat /\ slotsClaimed <= MaxItems
        /\ MaxItems \in Nat /\ slotsSize <= MaxItems
    BY SlotFacts, Numbers
  <1>2. held \subseteq Keys \X Items
    BY <1>1 DEF IInv, TypeOK
  <1>3. \A k, place, x : IsAt(k, place, x) => k \in Nat \ {0} /\ k <= slotsSize
    BY <1>1, KeysAreNumbers DEF Sole
  <1>4. \A k \in Nat \ {0} : k <= slotsSize => k - 1 \in Positions
    BY <1>1 DEF Positions
  <1>5. \A h \in held : IsAt(h[1], "held", h) /\ h[2] \in Items
    BY <1>2 DEF IsAt
  <1>6. t \in Carriers => \A h \in held : h[1] # loc[t].key
    BY <1>1, <1>5, HandIsCall DEF Sole
  <1>7. slotsSize + Cardinality(Filling) = slotsClaimed
    BY <1>1 DEF IInv, Budget
  <1>8. pc[t] \notin {"fill", "len", "announce"} => slotsClaimed = slotsSize
    <2> SUFFICES ASSUME pc[t] \notin {"fill", "len", "announce"} PROVE slotsClaimed = slotsSize
      OBVIOUS
    <2>1. Filling = {}
      BY DEF Filling, At
    <2> QED
      BY <1>1, <1>7, <2>1, FS_EmptySet
  <1>9. pc[t] \in {"fill", "len", "announce"} => slotsSize < slotsClaimed
    BY <1>1, Room
  <1>10. slotsSize < KeySpace
    BY DEF Nameable
  <1>11. /\ loc \in [Threads -> Locals] /\ pc \in [Threads -> PCs] /\ Fits(pc[t], loc[t], idx)
    BY <1>1 DEF IInv, Calls, TypeOK, PCs
  <1>12. \A h \in held : /\ h[1] \in Nat \ {0} /\ h[1] <= slotsSize
                         /\ h[2] \in Items /\ h[1] - 1 \in Positions
    BY <1>3, <1>4, <1>5
  <1>13. t \in Carriers => /\ loc[t].key \in Nat \ {0} /\ loc[t].key <= slotsSize
                           /\ loc[t].key - 1 \in Positions
    BY <1>3, <1>4, HandIsCall
  <1> QED
    BY <1>1, <1>2, <1>6, <1>8, <1>9, <1>10, <1>11, <1>12, <1>13

\* The item of every key that is held stays in its slot.
LEMMA StoresKept ==
  ASSUME NEW t, Threads = {t}, Nameable, Nameable', SlotInvariant, Stores(t), Exact,
         PushStart(t) \/ DeleteStart(t) \/ Push(t) \/ Delete(t)
  PROVE  Stores(t)'
  <1> DEFINE l == loc[t]
  <1>1. /\ IInv /\ slots \in [Positions -> Items \cup {0}]
        /\ slotsSize \in Nat /\ slotsClaimed \in Nat /\ slotsClaimed <= MaxItems
        /\ slotsSize < KeySpace
        /\ MaxItems \in Nat /\ loc \in [Threads -> Locals] /\ pc \in [Threads -> PCs]
        /\ l \in Locals /\ Fits(pc[t], l, idx)
        /\ \A h \in held : /\ h[1] \in Nat \ {0} /\ h[1] <= slotsSize
                           /\ h[2] \in Items /\ h[1] - 1 \in Positions
                           /\ slots[h[1] - 1] = h[2]
    BY OneSlots DEF Stores
  <1>2. CASE Lookup(t) \/ PushStart(t) \/ (Delete(t) /\ ~Disable(t) /\ ~ReachDeleted(t))
    <2>1. slots' = slots /\ held' = held
      BY <1>2 DEF Lookup, PushStart, LoadKey, StoreKey, LoadMax,
           Drained, Refill, Swap, ResetLoad, ResetStore, RangeLo, RangeHi, Peek, Take,
           StillSame, SkipTaken, Advance, Delete, DStoreKey, CheckStore, DRange,
           DPeek, Put, DSame, DSkip, Append, AppendWrite, AppendAnnounce, CountKey, items,
           clients
    <2>2. pc'[t] \notin {"dreach", "disable", "fill", "len", "announce"}
      <3>1. PICK from, to \in (PushPC \cup DeletePC \cup {"idle"})
                     \ {"dreach", "disable", "fill", "len", "announce"} : Step(t, from, to)
        BY <1>2 DEF Lookup, PushStart, LoadKey, StoreKey, LoadMax,
           Drained, Refill, Swap, ResetLoad, ResetStore, RangeLo, RangeHi, Peek, Take,
           StillSame, SkipTaken, Advance, Delete, DStoreKey, CheckStore, DRange,
           DPeek, Put, DSame, DSkip, Append, AppendWrite, AppendAnnounce, CountKey,
           AfterLookup, AfterScan, Return, PushPC, DeletePC
      <3> QED
        BY <1>1, <3>1 DEF Step
    <2> QED
      BY <1>1, <2>1, <2>2 DEF Stores, Before
  <1>3. CASE Disable(t)
    <2>1. pc[t] = "disable" /\ l.at = l.key - 1 /\ t \in Carriers /\ pc'[t] \in {"idle", "dstore"} /\ held' = held
      BY <1>1, <1>3 DEF Disable, Return, Step, Carriers, clients, Exact
    <2>2. \A h \in held : h[1] # l.key /\ l.key \in Nat
      BY <2>1, OneSlots
    <2>3. \A h \in held : slots'[h[1] - 1] = slots[h[1] - 1]
      BY <1>1, <1>3, <2>1, <2>2 DEF Disable
    <2> QED
      BY <1>1, <2>1, <2>3 DEF Stores, Before
  <1>4. CASE DeleteStart(t)
    <2>1. PICK h \in held \cup {Invalid} :
            /\ held' = held \ {h}
            /\ IF h[1] = 0
                 THEN Step(t, "idle", "idle") /\ UNCHANGED loc
                 ELSE /\ Step(t, "idle", "dreach")
                      /\ Set(t, [NoLocals EXCEPT !.key = h[1], !.item = h[2]])
      BY <1>4 DEF DeleteStart
    <2>2. slots' = slots
      BY <1>4 DEF DeleteStart, items
    <2>3. CASE h[1] = 0
      <3>1. pc'[t] = "idle"
        BY <1>1, <2>1, <2>3 DEF Step
      <3> QED
        BY <1>1, <2>1, <2>2, <3>1 DEF Stores, Before
    <2>4. CASE h[1] # 0
      <3>1. h \in held
        BY <2>1, <2>4 DEF Invalid
      <3>2. /\ pc'[t] = "dreach"
            /\ loc'[t] = [NoLocals EXCEPT !.key = h[1], !.item = h[2]]
        BY <1>1, <2>1, <2>4 DEF Step, Set
      <3>3. loc'[t].key = h[1] /\ loc'[t].item = h[2]
        BY <3>2 DEF NoLocals
      <3> QED
        BY <1>1, <2>1, <2>2, <3>1, <3>2, <3>3 DEF Stores, Before
    <2> QED
      BY <2>3, <2>4
  <1>5. CASE Reuse(t)
    <2>1. pc[t] = "reuse" /\ pc'[t] = "idle" /\ t \in Carriers /\ l.at = l.key - 1
      BY <1>1, <1>5 DEF Reuse, Return, Step, Carriers, Fits, Exact
    <2>2. /\ \A h \in held : h[1] # l.key
          /\ l.key \in Nat /\ l.key - 1 \in Positions
      BY <2>1, OneSlots
    <2>3. /\ slots' = [slots EXCEPT ![l.key - 1] = l.item]
          /\ held' = held \cup {<<l.key, l.item>>}
      BY <1>5, <2>1 DEF Reuse
    <2>4. \A h \in held : slots'[h[1] - 1] = h[2]
      BY <1>1, <2>2, <2>3
    <2>5. slots'[l.key - 1] = l.item
      BY <1>1, <2>2, <2>3
    <2>6. \A h \in held' : slots'[h[1] - 1] = h[2]
      BY <2>3, <2>4, <2>5
    <2> QED
      BY <2>1, <2>6 DEF Stores, Before
  <1>6. CASE ClaimSlot(t) /\ ~Step(t, "fetch", "undo")
    <2>1. pc[t] = "fetch" /\ pc'[t] = "fill" /\ slots' = slots /\ held' = held
          /\ slotsSize' = slotsSize /\ slotsClaimed = slotsSize
      BY <1>1, <1>6, OneSlots DEF ClaimSlot, Step, clients
    <2>2. loc'[t] = [NoLocals EXCEPT !.item = l.item, !.at = slotsClaimed]
      BY <1>1, <1>6 DEF ClaimSlot, Set
    <2>3. loc'[t].at = slotsSize
      BY <2>1, <2>2 DEF NoLocals
    <2> QED
      BY <1>1, <2>1, <2>3 DEF Stores, Before
  <1>7. CASE FillSlot(t)
    <2>1. pc[t] = "fill" /\ pc'[t] = "len" /\ held' = held /\ loc' = loc
          /\ slotsSize' = slotsSize /\ slotsSize < slotsClaimed /\ l.at = slotsSize
      BY <1>1, <1>7, OneSlots DEF FillSlot, Step, clients, Stores
    <2>2. l.at \in Positions
      BY <1>1, <2>1 DEF Positions
    <2>3. slots' = [slots EXCEPT ![l.at] = l.item]
      BY <1>7 DEF FillSlot
    <2>4. slots'[l.at] = l.item
      BY <1>1, <2>2, <2>3
    <2>5. \A h \in held : h[1] - 1 # l.at
      BY <1>1, <2>1
    <2>6. \A h \in held : slots'[h[1] - 1] = h[2]
      BY <1>1, <2>3, <2>5
    <2> QED
      BY <2>1, <2>4, <2>6 DEF Stores, Before
  <1>8. CASE AnnounceSlot(t)
    <2>1. pc[t] = "announce" /\ pc'[t] = "idle" /\ slots' = slots
          /\ slots[slotsSize] = l.item
      BY <1>1, <1>8 DEF AnnounceSlot, Return, Step, Stores
    <2>2. held' = held \cup {<<(slotsSize + 1) % KeySpace, l.item>>}
      BY <1>8 DEF AnnounceSlot
    <2>3. slotsSize + 1 < KeySpace /\ KeySpace \in Nat
      BY <1>8, Consts DEF AnnounceSlot, Nameable
    <2>4. (slotsSize + 1) % KeySpace = slotsSize + 1 /\ slotsSize + 1 - 1 = slotsSize
      BY <1>1, <2>3
    <2>5. \A h \in held' : slots'[h[1] - 1] = h[2]
      BY <1>1, <2>1, <2>2, <2>4
    <2> QED
      BY <2>1, <2>5 DEF Stores, Before
  <1>9. CASE LoadSlots(t) \/ UndoSlot(t) \/ (ClaimSlot(t) /\ Step(t, "fetch", "undo"))
    <2>1. /\ slots' = slots /\ held' = held
          /\ pc'[t] \notin {"dreach", "disable", "fill", "len", "announce"}
      BY <1>1, <1>9 DEF LoadSlots, UndoSlot, ClaimSlot, Step, items, clients
    <2> QED
      BY <1>1, <2>1 DEF Stores, Before
  <1>10. CASE CountSlot(t)
    <2>1. /\ pc[t] = "len" /\ pc'[t] = "announce" /\ slots' = slots /\ held' = held
          /\ loc' = loc /\ slotsSize' = slotsSize
      BY <1>1, <1>10 DEF CountSlot, Step, clients
    <2> QED
      BY <1>1, <2>1 DEF Stores, Before
  <1>11. CASE ReachReused(t)
    <2>1. slots' = slots /\ held' = held /\ pc'[t] \in {"reach", "reuse"}
      BY <1>1, <1>11, Walking DEF ReachReused, Reach, Step
    <2> QED
      BY <1>1, <2>1 DEF Stores, Before
  <1>12. CASE ReachDeleted(t)
    <2>1. pc[t] = "dreach" /\ l.key # 0
      BY <1>1, <1>12 DEF ReachDeleted, Reach, Step, Fits, DeletePC
    <2>2. /\ slots' = slots /\ held' = held /\ pc'[t] \in {"dreach", "disable"}
          /\ loc'[t].key = l.key /\ loc'[t].item = l.item
      BY <1>1, <1>12, <2>1, Walking, WalkKeeps DEF ReachDeleted, Reach, Step
    <2> QED
      BY <1>1, <2>1, <2>2 DEF Stores, Before
  <1> QED
    BY <1>2, <1>3, <1>4, <1>5, <1>6, <1>7, <1>8, <1>9, <1>10, <1>11, <1>12 DEF Push, Lookup

\* What the keys that moved add up to.
LEMMA AddsUp ==
  ASSUME NEW t, Accounted(t), IInv, NEW h \in Int, NEW c \in Int, NEW n \in Int, NEW s \in Int,
         Cardinality(held') = Cardinality(held) + h,
         Cardinality(FreeCells') = Cardinality(FreeCells) + c,
         Hand(t)' = Hand(t) + n, slotsSize' = slotsSize + s, h + c + n = s
  PROVE  Accounted(t)'
  <1>1. /\ Cardinality(held) \in Nat /\ Cardinality(FreeCells) \in Nat /\ slotsSize \in Nat
        /\ Hand(t) \in Nat
    BY Numbers, CellsFinite DEF Hand
  <1>2. Cardinality(held) + Cardinality(FreeCells) + Hand(t) = slotsSize
    BY DEF Accounted
  <1>3. (Cardinality(held) + h) + (Cardinality(FreeCells) + c) + (Hand(t) + n) = slotsSize + s
    BY <1>1, <1>2
  <1>4. Cardinality(held') + Cardinality(FreeCells') + Hand(t)' = slotsSize'
    BY <1>3
  <1> QED
    BY <1>4 DEF Accounted

\* No key gets lost: it goes from one place to another.
LEMMA AccountKept ==
  ASSUME NEW t, Threads = {t}, Nameable, Nameable', SlotInvariant, Queue(t), Stores(t),
         Accounted(t), Exact, PushStart(t) \/ DeleteStart(t) \/ Push(t) \/ Delete(t)
  PROVE  Accounted(t)'
  <1> DEFINE l == loc[t]
  <1>0. t \in Threads
    OBVIOUS
  <1>1. /\ IInv /\ Scanning
        /\ slotsSize \in Nat /\ loc \in [Threads -> Locals] /\ pc \in [Threads -> PCs]
        /\ l \in Locals /\ Fits(pc[t], l, idx) /\ Scans(pc[t], l)
        /\ Looks(pc[t], l) /\ Puts(pc[t], l) /\ Vectors(t)
        /\ \A h \in held : /\ h[1] \in Nat \ {0} /\ h[1] <= slotsSize /\ h[2] \in Items
                           /\ slots[h[1] - 1] = h[2]
    BY OneSlots DEF Stores, Queue, Scanning
  <1>2. /\ storeIter \in [Vecs -> Nat] /\ loadIter \in [Vecs -> Nat] /\ size \in [Vecs -> Nat]
        /\ LoadFrom \in Vecs /\ StoreTo \in Vecs /\ cells \in [Vecs -> [Positions -> Keys]]
        /\ \A v \in Vecs : size[v] <= MaxItems
        /\ MaxItems \in Nat /\ l.key \in Keys /\ 0 \in Keys /\ Keys \subseteq Nat
        /\ Positions \subseteq Nat /\ IsFiniteSet(held)
    <2>1. /\ storeIter \in [Vecs -> Nat] /\ loadIter \in [Vecs -> Nat] /\ size \in [Vecs -> Nat]
          /\ LoadFrom \in Vecs /\ StoreTo \in Vecs /\ cells \in [Vecs -> [Positions -> Keys]]
          /\ \A v \in Vecs : size[v] <= MaxItems
      BY <1>0, <1>1, OneFacts
    <2>2. l.key \in Keys /\ IsFiniteSet(held)
      BY <1>1, Numbers DEF Locals
    <2>3. MaxItems \in Nat /\ 0 \in Keys /\ Keys \subseteq Nat /\ Positions \subseteq Nat
      BY Consts DEF Keys, Positions
    <2> QED
      BY <2>1, <2>2, <2>3
  <1>3. cells' = cells => Cardinality(FreeCells') = Cardinality(FreeCells) + 0
    BY CellsFinite DEF FreeCells
  <1>4. held' = held => Cardinality(held') = Cardinality(held) + 0
    BY <1>1, Numbers
  <1>5. CASE \/ Passing(t) \/ (Lookup(t) /\ ~Take(t)) \/ ReachDeleted(t)
             \/ DStoreKey(t) \/ CheckStore(t) \/ DRange(t) \/ DPeek(t) \/ DSame(t) \/ DSkip(t)
             \/ Append(t) \/ AppendAnnounce(t) \/ CountKey(t)
    <2>1. cells' = cells /\ held' = held /\ slotsSize' = slotsSize
      BY <1>5, Walking DEF Lookup, Passing, PushStart, LoadKey, StoreKey, LoadMax,
           Drained, Refill, Swap, ResetLoad, ResetStore, RangeLo, RangeHi, Peek,
           StillSame, SkipTaken, Advance, LoadSlots, ClaimSlot, UndoSlot, FillSlot, CountSlot,
           ReachReused, ReachDeleted, DStoreKey, CheckStore, DRange,
           DPeek, DSame, DSkip, Append, AppendAnnounce, CountKey, items, clients, free
    <2>2. (t \in Carriers)' <=> t \in Carriers
      BY <1>0, <1>1, <1>5, HandKept DEF Queue
    <2>3. Hand(t)' = Hand(t) + 0 /\ slotsSize' = slotsSize + 0
      BY <1>1, <2>1, <2>2 DEF Hand
    <2> QED
      BY <1>1, <1>3, <1>4, <2>1, <2>3, AddsUp
  <1>6. CASE Take(t)
    <2>1. /\ pc[t] = "take" /\ cells[LoadFrom][l.i] = l.key /\ l.key # 0
          /\ l.i = loadIter[LoadFrom] /\ loadIter[LoadFrom] < storeIter[LoadFrom]
          /\ LoadVec(t) = LoadFrom /\ storeIter[LoadFrom] <= size[LoadFrom]
      BY <1>1, <1>6 DEF Take, Step, Looks, Fits, LoadVec, LoadFrom, Vectors
    <2>2. l.i \in Positions
      BY <1>2, <2>1 DEF Positions
    <2>3. /\ pc'[t] = "same" /\ loc' = loc /\ held' = held /\ slotsSize' = slotsSize
          /\ cells' = [cells EXCEPT ![LoadFrom][l.i] = 0]
      BY <1>1, <1>6, <2>1 DEF Take, Step, items, clients
    <2>4. Cardinality(FreeCells') = Cardinality(FreeCells) + (-1)
      <3>1. Cardinality(FreeCells') = Cardinality(FreeCells) - 1
        BY <1>2, <2>1, <2>2, <2>3, CellEmptied
      <3> QED
        BY <3>1, CellsFinite
    <2>5. Hand(t)' = Hand(t) + 1 /\ slotsSize' = slotsSize + 0
      BY <1>1, <2>1, <2>3 DEF Hand, Carriers
    <2> QED
      BY <1>1, <1>4, <2>3, <2>4, <2>5, AddsUp
  <1>7. CASE Put(t)
    <2> DEFINE n == storeIter[StoreTo]
    <2>1. /\ pc[t] = "put" /\ l.i = n /\ n < size[StoreTo] /\ ~l.found /\ l.key # 0
          /\ StoreVec(t) = StoreTo
      BY <1>1, <1>7 DEF Put, Step, Puts, Fits, Scans, StoreVec, StoreTo, DeletePC
    <2>2. l.i \in Positions
      BY <1>2, <2>1 DEF Positions
    <2>3. cells[StoreTo][l.i] = 0
      BY <1>1, <1>2, <2>1, <2>2 DEF Vectors, KeysIn, Stored
    <2>4. /\ pc'[t] = "dpeek" /\ held' = held /\ slotsSize' = slotsSize
          /\ cells' = [cells EXCEPT ![StoreTo][l.i] = l.key]
          /\ loc'[t] = [l EXCEPT !.found = TRUE, !.i = K * (l.i \div K + 1)]
      BY <1>1, <1>7, <2>1, <2>3 DEF Put, Step, Set, items, clients
    <2>5. Cardinality(FreeCells') = Cardinality(FreeCells) + 1
      BY <1>2, <2>1, <2>2, <2>3, <2>4, CellFilled
    <2>6. loc'[t].found = TRUE
      BY <1>1, <2>4 DEF Locals
    <2>7. t \in Carriers /\ ~(t \in Carriers)'
      <3>1. pc'[t] = "dpeek"
        BY <2>4
      <3> QED
        BY <1>0, <2>1, <2>6, <3>1 DEF Carriers
    <2>8. Hand(t)' = Hand(t) + (-1) /\ slotsSize' = slotsSize + 0
      BY <1>1, <2>4, <2>7 DEF Hand
    <2> QED
      BY <1>1, <1>4, <2>4, <2>5, <2>8, AddsUp
  <1>8. CASE AppendWrite(t)
    <2> DEFINE n == storeIter[StoreTo]
    <2>1. /\ pc[t] = "dwrite" /\ n = size[StoreTo] /\ l.at = n /\ l.key # 0
          /\ StoreVec(t) = StoreTo
      BY <1>1, <1>8 DEF AppendWrite, Step, Puts, Fits, StoreVec, StoreTo, DeletePC
    <2>2. claimed[StoreTo] = n + 1 /\ claimed[StoreTo] <= MaxItems
      BY <1>1, <1>2, <2>1, OneAppends DEF IInv, TypeOK
    <2>3. l.at \in Positions
      BY <1>2, <2>1, <2>2 DEF Positions
    <2>4. cells[StoreTo][l.at] = 0
      BY <1>1, <1>2, <2>1, <2>3 DEF Vectors, KeysIn, Stored
    <2>5. /\ pc'[t] = "dannounce" /\ held' = held /\ slotsSize' = slotsSize /\ loc' = loc
          /\ cells' = [cells EXCEPT ![StoreTo][l.at] = l.key]
      BY <1>1, <1>8, <2>1 DEF AppendWrite, Step, items, clients
    <2>6. Cardinality(FreeCells') = Cardinality(FreeCells) + 1
      BY <1>2, <2>1, <2>3, <2>4, <2>5, CellFilled
    <2>7. Hand(t)' = Hand(t) + (-1) /\ slotsSize' = slotsSize + 0
      BY <1>0, <1>1, <2>1, <2>5 DEF Hand, Carriers
    <2> QED
      BY <1>1, <1>4, <2>5, <2>6, <2>7, AddsUp
  <1>9. CASE Reuse(t)
    <2>1. pc[t] = "reuse" /\ pc'[t] = "idle" /\ t \in Carriers
      BY <1>1, <1>9 DEF Reuse, Return, Step, Carriers, Fits
    <2>2. PICK g : g = <<l.key, l.item>>
      OBVIOUS
    <2>3. held' = held \cup {g} /\ cells' = cells /\ slotsSize' = slotsSize /\ g[1] = l.key
      BY <1>9, <2>2 DEF Reuse, free
    <2>4. g \notin held
      BY <2>1, <2>3, OneSlots
    <2>5. Cardinality(held') = Cardinality(held) + 1
      BY <1>2, <2>3, <2>4, FS_AddElement
    <2>6. Hand(t)' = Hand(t) + (-1) /\ slotsSize' = slotsSize + 0
      BY <1>1, <2>1, <2>3 DEF Hand, Carriers
    <2>7. Cardinality(FreeCells') = Cardinality(FreeCells) + 0
      BY <1>3, <2>3
    <2> QED
      BY <1>1, <2>5, <2>6, <2>7, AddsUp
  <1>10. CASE AnnounceSlot(t)
    <2>1. pc[t] = "announce" /\ pc'[t] = "idle"
      BY <1>1, <1>10 DEF AnnounceSlot, Return, Step
    <2>2. PICK g : g = <<(slotsSize + 1) % KeySpace, l.item>>
      OBVIOUS
    <2>3. held' = held \cup {g} /\ cells' = cells /\ slotsSize' = slotsSize + 1
      BY <1>10, <2>2 DEF AnnounceSlot, free
    <2>4. g[1] = slotsSize + 1
      <3>1. slotsSize + 1 < KeySpace /\ KeySpace \in Nat
        BY <2>3, Consts DEF Nameable
      <3> QED
        BY <1>1, <2>2, <3>1
    <2>5. g \notin held
      BY <1>1, <2>4
    <2>6. Cardinality(held') = Cardinality(held) + 1
      BY <1>2, <2>3, <2>5, FS_AddElement
    <2>7. Hand(t)' = Hand(t) + 0
      BY <1>1, <2>1 DEF Hand, Carriers
    <2>8. Cardinality(FreeCells') = Cardinality(FreeCells) + 0 /\ slotsSize' = slotsSize + 1
      BY <1>3, <2>3
    <2> QED
      BY <1>1, <2>6, <2>7, <2>8, AddsUp
  <1>11. CASE DeleteStart(t)
    <2>1. PICK h \in held \cup {Invalid} :
            /\ held' = held \ {h}
            /\ IF h[1] = 0
                 THEN Step(t, "idle", "idle") /\ UNCHANGED loc
                 ELSE /\ Step(t, "idle", "dreach")
                      /\ Set(t, [NoLocals EXCEPT !.key = h[1], !.item = h[2]])
      BY <1>11 DEF DeleteStart
    <2>2. Cardinality(FreeCells') = Cardinality(FreeCells) + 0 /\ slotsSize' = slotsSize + 0
      <3>1. cells' = cells /\ slotsSize' = slotsSize
        BY <1>11 DEF DeleteStart, free, items
      <3> QED
        BY <1>1, <1>3, <3>1
    <2>3. CASE h[1] = 0
      <3>1. h \notin held
        BY <1>1, <2>3
      <3>2. held' = held
        BY <2>1, <3>1
      <3>3. Hand(t)' = Hand(t) + 0
        BY <1>1, <2>1, <2>3 DEF Step, Hand, Carriers
      <3> QED
        BY <1>1, <1>4, <2>2, <3>2, <3>3, AddsUp
    <2>4. CASE h[1] # 0
      <3>1. h \in held
        BY <2>1, <2>4 DEF Invalid
      <3>2. Cardinality(held') = Cardinality(held) + (-1)
        <4>1. Cardinality(held') = Cardinality(held) - 1
          BY <1>2, <2>1, <3>1, FS_RemoveElement
        <4> QED
          BY <1>1, <4>1, Numbers
      <3>3. Hand(t)' = Hand(t) + 1
        BY <1>0, <1>1, <2>1, <2>4 DEF Step, Hand, Carriers
      <3> QED
        BY <1>1, <2>2, <3>2, <3>3, AddsUp
    <2> QED
      BY <2>3, <2>4
  <1>12. CASE Disable(t)
    <2>1. pc[t] = "disable" /\ l.at = l.key - 1 /\ cells' = cells /\ held' = held /\ slotsSize' = slotsSize
      BY <1>1, <1>12 DEF Disable, Return, Step, free, clients, Exact
    <2>2. slots[l.key - 1] # 0
      BY <2>1, Consts DEF Stores, Items, Before
    <2>3. pc'[t] = "dstore"
      BY <1>1, <1>12, <2>1, <2>2 DEF Disable, Step
    <2>4. Hand(t)' = Hand(t) + 0 /\ slotsSize' = slotsSize + 0
      BY <1>0, <1>1, <2>1, <2>3 DEF Hand, Carriers
    <2> QED
      BY <1>1, <1>3, <1>4, <2>1, <2>4, AddsUp
  <1> QED
    BY <1>5, <1>6, <1>7, <1>8, <1>9, <1>10, <1>11, <1>12 DEF Push, Passing, Lookup, Delete

\* Where a chunk of slots begins.
LEMMA ChunkBegins ==
  ASSUME NEW c \in Nat
  PROVE  /\ KS \in Nat /\ KS > 0 /\ KS * c \in Nat /\ KS * (c + 1) = KS * c + KS /\ KS * 0 = 0
         /\ c # 0 => KS <= KS * c
  <1>1. KS \in Nat /\ KS > 0
    BY Consts
  <1>2. KS * c \in Nat /\ KS * (c + 1) = KS * c + KS /\ KS * 0 = 0
    BY <1>1
  <1>3. ASSUME c # 0 PROVE KS <= KS * c
    <2>1. PICK d \in Nat : c = d + 1
      <3>1. c - 1 \in Nat /\ c = (c - 1) + 1
        BY <1>3
      <3> QED
        BY <3>1
    <2>2. KS * d \in Nat /\ KS * (d + 1) = KS * d + KS
      BY <1>1
    <2> QED
      BY <1>1, <2>1, <2>2
  <1> QED
    BY <1>1, <1>2, <1>3

\* The index of a slot is the beginning of its chunk and its place there.
LEMMA PlaceInChunk ==
  ASSUME NEW c \in Nat, NEW k \in Nat, KS * c <= k, k < KS * (c + 1)
  PROVE  (KS * c) + (k % KS) = k
  <1>1. KS \in Nat /\ KS > 0
    BY Consts
  <1>2. PICK d : d = k \div KS
    OBVIOUS
  <1>3. d \in Nat /\ k = KS * d + (k % KS) /\ k % KS \in 0 .. KS - 1
    BY <1>1, <1>2
  <1>4. d = c
    <2>1. ASSUME d + 1 <= c PROVE FALSE
      <3>1. KS * (d + 1) <= KS * c
        BY <1>1, <1>3, <2>1
      <3>2. KS * (d + 1) = KS * d + KS
        BY <1>1, <1>3
      <3> QED
        BY <1>1, <1>3, <3>1, <3>2
    <2>2. ASSUME c + 1 <= d PROVE FALSE
      <3>1. KS * (c + 1) <= KS * d
        BY <1>1, <1>3, <2>2
      <3> QED
        BY <1>1, <1>3, <3>1
    <2> QED
      BY <1>3, <2>1, <2>2
  <1> QED
    BY <1>3, <1>4

\* A walk of a single caller goes on to the chunk of the slot and stops there.
LEMMA OneReaches ==
  ASSUME NEW t, Threads = {t}, IInv, Walks(t), NEW k \in Nat, k = loc[t].key - 1,
         pc[t] \in {"reach", "dreach"}, k < slotsClaimed
  PROVE  /\ Beyond(t) => KS * (chunk[t] + 1) <= k
         /\ ~Beyond(t) => Reached(t) = k
  <1> DEFINE c == chunk[t]
             b == KS * c
  <1>1. c \in Nat /\ slotsClaimed \in Nat /\ slotsLen \in Nat
    BY DEF IInv, TypeOK
  <1>2. KS \in Nat /\ KS > 0 /\ b \in Nat /\ KS * (c + 1) = b + KS /\ (c = 0 => b = 0)
    BY <1>1, ChunkBegins
  <1>3. /\ Settled(t) = slotsClaimed /\ b <= k
        /\ slotsLen = IF slotsClaimed <= KS THEN slotsClaimed ELSE KS
    BY <1>1 DEF Walks, Settled
  <1>4. Cardinality(Undoing(c)) = 0
    <2>1. Undoing(c) = {}
      BY DEF Undoing
    <2> QED
      BY <2>1, FS_EmptySet
  <1>5. Loaded(c) = IF c = 0 THEN slotsLen ELSE IF slotsClaimed >= b + KS THEN KS ELSE slotsClaimed - b
    BY <1>2, <1>4 DEF Loaded, Full
  <1>6. Beyond(t) <=> Loaded(c) >= KS /\ k >= Loaded(c) + b
    BY DEF Beyond
  <1> HIDE DEF b
  <1>7. Beyond(t) => b + KS <= k
    BY <1>1, <1>2, <1>3, <1>5, <1>6
  <1>8. ~Beyond(t) => k < b + KS
    BY <1>1, <1>2, <1>3, <1>5, <1>6
  <1>9. ~Beyond(t) => Reached(t) = k
    <2> SUFFICES ASSUME ~Beyond(t) PROVE Reached(t) = k
      OBVIOUS
    <2>1. KS * c <= k /\ k < KS * (c + 1)
      BY <1>2, <1>3, <1>8 DEF b
    <2>2. (KS * c) + (k % KS) = k
      BY <1>1, <2>1, PlaceInChunk
    <2> QED
      BY <2>2 DEF Reached
  <1> QED
    BY <1>2, <1>7, <1>9

\* Every step keeps the walks on their way.
LEMMA WalksKept ==
  ASSUME NEW t, Threads = {t}, Nameable, SlotInvariant, Walks(t),
         PushStart(t) \/ DeleteStart(t) \/ Push(t) \/ Delete(t)
  PROVE  Walks(t)'
  <1> DEFINE c == chunk[t]
             Elsewhere == Homeless \cup {"reach", "dreach"}
  <1>0. t \in Threads
    OBVIOUS
  <1>1. /\ IInv /\ slotsSize \in Nat /\ slotsClaimed \in Nat /\ slotsLen \in Nat
        /\ loc \in [Threads -> Locals] /\ loc[t] \in Locals /\ pc \in [Threads -> PCs]
        /\ Fits(pc[t], loc[t], idx) /\ chunk \in [Threads -> Nat] /\ c \in Nat
    BY <1>0, OneSlots DEF IInv, TypeOK
  <1>2. /\ KS \in Nat /\ KS > 0 /\ KS * c \in Nat /\ KS * (c + 1) = KS * c + KS /\ KS * 0 = 0
        /\ c # 0 => KS <= KS * c
    BY <1>1, ChunkBegins
  <1>3. ASSUME NEW from \in PCs \ Elsewhere,
               NEW to \in PCs \ {"fill", "len", "reuse", "disable"}, Step(t, from, to),
               chunk' = chunk, slotsLen' = slotsLen, slotsClaimed' = slotsClaimed,
               to \in {"reach", "dreach"} => loc'[t].key \in Nat \ {0}
        PROVE  Walks(t)'
    <2>1. pc[t] = from /\ pc'[t] = to /\ c = 0 /\ chunk'[t] = 0
      BY <1>1, <1>3 DEF Step, Walks
    <2>2. Settled(t) = slotsClaimed /\ Settled(t)' = slotsClaimed
      BY <1>1, <1>3, <2>1 DEF Settled, Homeless
    <2>3. Exact'
      BY <1>3, <2>1 DEF Exact
    <2>4. to \in {"reach", "dreach"} => 0 <= loc'[t].key - 1
      BY <1>3
    <2> QED
      BY <1>1, <1>2, <1>3, <2>1, <2>2, <2>3, <2>4 DEF Walks
  <1>4. ASSUME NEW from \in Homeless, NEW to \in Homeless, Step(t, from, to),
               slotsLen' = slotsLen, Settled(t)' = Settled(t),
               KS * chunk'[t] <= Settled(t),
               to \in {"fill", "len"} => Settled(t) < KS * (chunk'[t] + 1)
        PROVE  Walks(t)'
    <2>1. pc[t] = from /\ pc'[t] = to /\ pc'[t] \notin {"reuse", "disable", "reach", "dreach"}
      BY <1>1, <1>4 DEF Step, Homeless
    <2>2. Exact'
      BY <2>1 DEF Exact
    <2> QED
      BY <1>1, <1>4, <2>1, <2>2 DEF Walks
  <1>5. ASSUME NEW from \in {"reach", "dreach"}, NEW to \in {"reuse", "disable"},
               Reach(t, from, to), loc[t].key # 0, t \in Carriers
        PROVE  Walks(t)'
    <2>1. pc[t] = from /\ pc[t] \in {"reach", "dreach"}
      BY <1>5 DEF Reach, Step
    <2>2. /\ loc[t].key \in Nat \ {0} /\ loc[t].key <= slotsSize /\ slotsSize = slotsClaimed
      BY <1>5, <2>1, OneSlots
    <2>3. PICK k : k = loc[t].key - 1
      OBVIOUS
    <2>4. k \in Nat /\ k < slotsClaimed
      BY <1>1, <2>2, <2>3
    <2>5. /\ Beyond(t) => KS * (c + 1) <= k
          /\ ~Beyond(t) => Reached(t) = k
      BY <1>0, <1>1, <2>1, <2>3, <2>4, OneReaches
    <2>6. slotsLen' = slotsLen /\ slotsClaimed' = slotsClaimed
      BY <1>5, Walking
    <2>7. CASE Step(t, from, from) /\ UNCHANGED loc /\ Beyond(t) /\ chunk' = [chunk EXCEPT ![t] = @ + 1]
      <3>1. pc'[t] = from /\ chunk'[t] = c + 1 /\ pc'[t] \in {"reach", "dreach"}
        BY <1>1, <2>7 DEF Step
      <3>2. Settled(t)' = Settled(t) /\ pc[t] \notin Homeless /\ pc'[t] \notin Homeless
        BY <2>1, <2>6, <3>1 DEF Settled, Homeless
      <3>3. Exact'
        BY <3>1 DEF Exact
      <3>4. KS * chunk'[t] <= loc'[t].key - 1
        BY <2>3, <2>5, <2>7, <3>1
      <3> QED
        BY <2>6, <3>1, <3>2, <3>3, <3>4 DEF Walks, Homeless
    <2>8. CASE /\ Step(t, from, to) /\ Set(t, WithAt(loc[t], Reached(t)))
               /\ ~Beyond(t) /\ chunk' = [chunk EXCEPT ![t] = 0]
      <3>1. pc'[t] = to /\ chunk'[t] = 0
        BY <1>1, <2>8 DEF Step
      <3>2. loc'[t] = WithAt(loc[t], k)
        BY <1>1, <2>5, <2>8 DEF Set
      <3>3. loc'[t].at = k /\ loc'[t].key - 1 = k
        <4>1. WithAt(loc[t], k).at = k /\ WithAt(loc[t], k).key = loc[t].key
          BY <1>1, <2>4, SetPlace
        <4> QED
          BY <2>3, <3>2, <4>1
      <3>4. Settled(t)' = Settled(t) /\ pc'[t] \notin Homeless \cup {"reach", "dreach"}
        BY <2>1, <2>6, <3>1 DEF Settled, Homeless
      <3>5. Exact'
        BY <3>3 DEF Exact
      <3> QED
        BY <2>6, <3>1, <3>4, <3>5 DEF Walks, Homeless
    <2> QED
      BY <1>5, <2>7, <2>8, Walking
  <1>6. CASE ReachReused(t)
    <2>1. pc[t] = "reach" /\ loc[t].key # 0 /\ t \in Carriers
      BY <1>0, <1>1, <1>6 DEF ReachReused, Reach, Step, Fits, Carriers
    <2> QED
      BY <1>5, <1>6, <2>1 DEF ReachReused
  <1>7. CASE ReachDeleted(t)
    <2>1. pc[t] = "dreach" /\ loc[t].key # 0 /\ t \in Carriers
      BY <1>0, <1>1, <1>7 DEF ReachDeleted, Reach, Step, Fits, Carriers, DeletePC
    <2> QED
      BY <1>5, <1>7, <2>1 DEF ReachDeleted
  <1>8. CASE LoadSlots(t)
    <2>1. /\ pc[t] = "claim" /\ pc'[t] = "fetch" /\ slotsLen' = slotsLen
          /\ slotsClaimed' = slotsClaimed /\ chunk'[t] = IF Full(c) THEN c + 1 ELSE c
      BY <1>1, <1>8 DEF LoadSlots, Step
    <2>2. Settled(t) = slotsClaimed /\ Settled(t)' = slotsClaimed
      BY <1>1, <2>1 DEF Settled
    <2>3. KS * c <= slotsClaimed
      BY <2>1, <2>2 DEF Walks, Homeless
    <2>4. KS * chunk'[t] <= Settled(t)
      BY <2>1, <2>2, <2>3 DEF Full
    <2> QED
      BY <1>4, <1>8, <2>1, <2>2, <2>4 DEF LoadSlots, Homeless
  <1>9. CASE ClaimSlot(t)
    <2>1. pc[t] = "fetch" /\ slotsLen' = slotsLen /\ chunk' = chunk /\ Settled(t) = slotsClaimed
      BY <1>1, <1>9 DEF ClaimSlot, Step, Settled
    <2>2. KS * c <= Settled(t)
      BY <2>1 DEF Walks, Homeless
    <2>3. CASE Step(t, "fetch", "undo") /\ slotsClaimed' = slotsClaimed
      <3>1. Settled(t)' = Settled(t)
        BY <1>1, <2>1, <2>3 DEF Settled, Step
      <3> QED
        BY <1>4, <2>1, <2>2, <2>3, <3>1 DEF Homeless
    <2>4. CASE Step(t, "fetch", "fill") /\ ~Full(c) /\ slotsClaimed' = slotsClaimed + 1
      <3>1. Settled(t)' = Settled(t)
        BY <1>1, <2>1, <2>4 DEF Settled, Step
      <3>2. Settled(t) < KS * (c + 1)
        BY <1>1, <1>2, <2>1, <2>4 DEF Full
      <3> QED
        BY <1>4, <2>1, <2>2, <2>4, <3>1, <3>2 DEF Homeless
    <2> QED
      BY <1>9, <2>3, <2>4 DEF ClaimSlot
  <1>10. CASE UndoSlot(t)
    <2>1. /\ pc[t] = "undo" /\ pc'[t] = "claim" /\ slotsLen' = slotsLen
          /\ slotsClaimed' = slotsClaimed /\ chunk' = chunk
      BY <1>1, <1>10 DEF UndoSlot, Step, items
    <2>2. Settled(t)' = Settled(t)
      BY <2>1 DEF Settled
    <2>3. KS * c <= Settled(t)
      BY <2>1 DEF Walks, Homeless
    <2> QED
      BY <1>4, <1>10, <2>1, <2>2, <2>3 DEF UndoSlot, Homeless
  <1>11. CASE FillSlot(t)
    <2>1. /\ pc[t] = "fill" /\ pc'[t] = "len" /\ slotsLen' = slotsLen
          /\ slotsClaimed' = slotsClaimed /\ chunk' = chunk
      BY <1>1, <1>11 DEF FillSlot, Step
    <2>2. Settled(t)' = Settled(t)
      BY <2>1 DEF Settled
    <2>3. KS * c <= Settled(t) /\ Settled(t) < KS * (c + 1)
      BY <2>1 DEF Walks, Homeless
    <2> QED
      BY <1>4, <1>11, <2>1, <2>2, <2>3 DEF FillSlot, Homeless
  <1>12. CASE CountSlot(t)
    <2>1. /\ pc[t] = "len" /\ pc'[t] = "announce" /\ slotsClaimed' = slotsClaimed
          /\ slotsLen' = IF c = 0 THEN slotsLen + 1 ELSE slotsLen
          /\ chunk'[t] = 0
      BY <1>1, <1>12 DEF CountSlot, Step
    <2>2. Settled(t) = slotsClaimed - 1 /\ Settled(t)' = slotsClaimed
      BY <1>1, <2>1 DEF Settled
    <2>3. KS * c <= Settled(t) /\ Settled(t) < KS * (c + 1)
      BY <2>1 DEF Walks, Homeless
    <2>4. slotsLen' = IF slotsClaimed <= KS THEN slotsClaimed ELSE KS
      <3> DEFINE b == KS * c
      <3>1. slotsLen = IF Settled(t) <= KS THEN Settled(t) ELSE KS
        BY DEF Walks
      <3>2. b \in Nat /\ b <= Settled(t) /\ Settled(t) < b + KS /\ (c = 0 => b = 0) /\ (c # 0 => KS <= b)
        BY <1>2, <2>3
      <3>3. KS \in Nat /\ slotsClaimed \in Nat /\ slotsLen \in Nat /\ Settled(t) = slotsClaimed - 1
        BY <1>1, <1>2, <2>2
      <3> HIDE DEF b
      <3>4. CASE c = 0
        BY <2>1, <3>1, <3>2, <3>3, <3>4
      <3>5. CASE c # 0
        BY <2>1, <3>1, <3>2, <3>3, <3>5
      <3> QED
        BY <3>4, <3>5
    <2>5. Exact'
      BY <2>1 DEF Exact
    <2> QED
      BY <2>1, <2>2, <2>4, <2>5 DEF Walks, Homeless
  <1>13. CASE Lookup(t) \/ PushStart(t) \/ Reuse(t) \/ AnnounceSlot(t)
    <2>1. PICK from \in PCs \ Elsewhere, to \in PCs \ {"fill", "len", "reuse", "disable", "dreach"} :
            Step(t, from, to)
      BY <1>13 DEF Lookup, PushStart, Reuse, AnnounceSlot, LoadKey, StoreKey, LoadMax, Drained,
           Refill, Swap, ResetLoad, ResetStore, RangeLo, RangeHi, Peek, Take, StillSame,
           SkipTaken, Advance, AfterLookup, Return, PCs, PushPC, DeletePC, Homeless
    <2>2. chunk' = chunk /\ slotsLen' = slotsLen /\ slotsClaimed' = slotsClaimed
      BY <1>13 DEF Lookup, PushStart, Reuse, AnnounceSlot, LoadKey, StoreKey, LoadMax, Drained,
           Refill, Swap, ResetLoad, ResetStore, RangeLo, RangeHi, Peek, Take, StillSame,
           SkipTaken, Advance, items
    <2>3. to = "reach" => loc'[t].key \in Nat \ {0}
      <3> SUFFICES ASSUME to = "reach" PROVE loc'[t].key \in Nat \ {0}
        OBVIOUS
      <3>1. pc'[t] = "reach"
        BY <1>1, <2>1 DEF Step
      <3>2. pc[t] = "advance" /\ loc'[t] = [NoLocals EXCEPT !.key = loc[t].key, !.item = loc[t].item]
        BY <1>1, <1>13, <3>1 DEF Lookup, PushStart, Reuse, AnnounceSlot, LoadKey, StoreKey, LoadMax,
           Drained, Refill, Swap, ResetLoad, ResetStore, RangeLo, RangeHi, Peek, Take, StillSame,
           SkipTaken, Advance, AfterLookup, Return, Step, Set
      <3>3. loc'[t].key = loc[t].key
        BY <3>2 DEF NoLocals
      <3> QED
        BY <1>1, <3>2, <3>3, Consts DEF Fits, Locals, Keys
    <2> QED
      BY <1>3, <2>1, <2>2, <2>3
  <1>14. CASE DeleteStart(t)
    <2>1. PICK h \in held \cup {Invalid} :
            IF h[1] = 0
              THEN Step(t, "idle", "idle")
              ELSE /\ Step(t, "idle", "dreach")
                   /\ Set(t, [NoLocals EXCEPT !.key = h[1], !.item = h[2]])
      BY <1>14 DEF DeleteStart
    <2>2. chunk' = chunk /\ slotsLen' = slotsLen /\ slotsClaimed' = slotsClaimed
      BY <1>14 DEF DeleteStart, items
    <2>3. "idle" \in PCs \ Elsewhere /\ "dreach" \in PCs \ {"fill", "len", "reuse", "disable"}
          /\ "idle" \in PCs \ {"fill", "len", "reuse", "disable"}
      BY DEF PCs, PushPC, DeletePC, Homeless
    <2>4. CASE h[1] = 0
      BY <1>3, <2>1, <2>2, <2>3, <2>4
    <2>5. CASE h[1] # 0
      <3>1. h \in held
        BY <2>1, <2>5 DEF Invalid
      <3>2. h[1] \in Nat \ {0}
        BY <1>0, <3>1, OneSlots
      <3>3. loc'[t] = [NoLocals EXCEPT !.key = h[1], !.item = h[2]]
        BY <1>1, <2>1, <2>5 DEF Set
      <3>4. loc'[t].key = h[1]
        BY <3>3 DEF NoLocals
      <3> QED
        BY <1>3, <2>1, <2>2, <2>3, <2>5, <3>2, <3>4
    <2> QED
      BY <2>4, <2>5
  <1>15. CASE Delete(t) /\ ~ReachDeleted(t)
    <2>1. PICK from \in PCs \ Elsewhere,
               to \in PCs \ {"fill", "len", "reuse", "disable", "reach", "dreach"} : Step(t, from, to)
      BY <1>15 DEF Delete, Disable, DStoreKey, CheckStore, DRange, DPeek, Put, DSame,
           DSkip, Append, AppendWrite, AppendAnnounce, CountKey, AfterScan, Return, PCs, PushPC,
           DeletePC, Homeless
    <2>2. chunk' = chunk /\ slotsLen' = slotsLen /\ slotsClaimed' = slotsClaimed
      BY <1>15 DEF Delete, Disable, DStoreKey, CheckStore, DRange, DPeek, Put, DSame,
           DSkip, Append, AppendWrite, AppendAnnounce, CountKey, items
    <2> QED
      BY <1>3, <2>1, <2>2
  <1> QED
    BY <1>6, <1>7, <1>8, <1>9, <1>10, <1>11, <1>12, <1>13, <1>14, <1>15 DEF Push, Lookup

\* Every step keeps the invariant for one caller.
LEMMA OneInductive ==
  ASSUME NEW t, Threads = {t}, OneChunk, OneInvariant(t), [Next]_vars
  PROVE  OneInvariant(t)'
  <1>0. /\ t \in Threads /\ KeyInvariant' /\ KeyInvariant /\ IInv /\ Scanning /\ Queue(t)
        /\ Nameable => SlotInvariant /\ Accounted(t) /\ Stores(t) /\ Walks(t)
    BY KeysInductive DEF OneInvariant, KeyInvariant, Scanning
  <1>1. ASSUME PushStart(t) \/ DeleteStart(t) \/ Push(t) \/ Delete(t)
        PROVE  OneInvariant(t)'
    <2>1. Queue(t)'
      BY <1>0, <1>1, LookupBegins, LookupSwaps, LookupTakes, OthersBegin, DeleteLooks,
         DeleteStores DEF Push, Delete, Storing
    <2>2. ASSUME Nameable' PROVE SlotInvariant' /\ Accounted(t)' /\ Stores(t)' /\ Walks(t)'
      <3>1. slotsSize' = slotsSize \/ slotsSize' = slotsSize + 1
        BY <1>1, Walking DEF PushStart, ReachReused, Reuse, LoadSlots, ClaimSlot, UndoSlot,
             FillSlot, CountSlot, AnnounceSlot, Push, ReachDeleted,
             LoadKey, StoreKey, LoadMax, Drained, Refill, Swap, ResetLoad,
             ResetStore, RangeLo, RangeHi, Peek, Take, StillSame, SkipTaken, Advance,
             DeleteStart, Delete, Disable, DStoreKey, CheckStore, DRange, DPeek, Put,
             DSame, DSkip, Append, AppendWrite, AppendAnnounce, CountKey, items
      <3>2. Nameable
        BY <1>0, <2>2, <3>1, NameableBefore
      <3>3. SlotInvariant /\ Accounted(t) /\ Stores(t) /\ Walks(t) /\ Exact
        BY <1>0, <3>2 DEF Walks
      <3>4. SlotInvariant'
        BY <2>2, <3>2, <3>3, SlotsInductive
      <3> QED
        BY <1>0, <1>1, <2>2, <3>2, <3>3, <3>4, AccountKept, StoresKept, WalksKept
    <2> QED
      BY <1>0, <2>1, <2>2 DEF OneInvariant
  <1>2. ASSUME UNCHANGED vars PROVE OneInvariant(t)'
    <2>1. /\ pc' = pc /\ loc' = loc /\ slots' = slots /\ slotsSize' = slotsSize /\ held' = held
          /\ slotsClaimed' = slotsClaimed /\ slotsLen' = slotsLen /\ chunk' = chunk
          /\ UNCHANGED free
      BY <1>2 DEF vars, items, clients
    <2>2. Queue(t)'
      BY <1>0, <2>1 DEF Queue, Vectors, KeysIn, Taken, Stored, Looks, Puts, LoadFrom, StoreTo,
                        free
    <2>3. Nameable' => Nameable
      BY <2>1 DEF Nameable
    <2>4. Stores(t) => Stores(t)'
      BY <2>1 DEF Stores
    <2>5. Accounted(t) => Accounted(t)'
      BY <2>1 DEF Accounted, Hand, Carriers, FreeCells, free
    <2>6. Walks(t) => Walks(t)'
      BY <2>1 DEF Walks, Settled, Exact
    <2>7. Walks(t) => Exact
      BY DEF Walks
    <2> QED
      BY <1>0, <2>2, <2>3, <2>4, <2>5, <2>6, <2>7, SlotsInductive DEF OneInvariant
  <1> QED
    BY <1>1, <1>2 DEF Next

\* The invariant holds at first.
LEMMA OneInitially ==
  ASSUME NEW t, Threads = {t}, Init
  PROVE  OneInvariant(t)
  <1>1. KeyInvariant
    BY InitialKeys
  <1>2. Queue(t)
    <2>1. idx = 0 /\ LoadFrom \in Vecs /\ StoreTo \in Vecs /\ Positions \subseteq Nat
      BY Consts DEF Init, LoadFrom, StoreTo, Vecs, Positions
    <2>2. /\ Vectors(t)
      BY <2>1 DEF Init, Vectors, KeysIn, Taken, Stored
    <2> QED
      BY <2>1, <2>2 DEF Init, Queue, Looks, Puts
  <1>3. SlotInvariant /\ Exact
    BY InitialSlots DEF AtHome
  <1>4. FreeCells = {} /\ held = {} /\ Hand(t) = 0
    BY DEF Init, FreeCells, Hand, Carriers
  <1>5. Accounted(t)
    BY <1>4, FS_EmptySet DEF Init, Accounted
  <1>6. Stores(t)
    BY DEF Init, Stores, Before
  <1>7. Walks(t)
    <2>1. pc[t] = "idle" /\ slotsClaimed = 0 /\ KS \in Nat
      BY Consts DEF Init
    <2>2. Settled(t) = 0
      <3>1. Settled(t) = slotsClaimed - 0
        BY <2>1 DEF Settled
      <3> QED
        BY <2>1, <3>1
    <2> QED
      BY <1>3, <2>1, <2>2 DEF Init, Walks, Homeless
  <1> QED
    BY <1>1, <1>2, <1>3, <1>5, <1>6, <1>7 DEF OneInvariant

\* With one caller between calls, push() finds every free key.
LEMMA OneFinds ==
  ASSUME NEW t, Threads = {t}, OneInvariant(t)
  PROVE  NoKeyLost
  <1>1. IInv /\ Queue(t)
    BY DEF OneInvariant, KeyInvariant
  <1>2. /\ storeIter \in [Vecs -> Nat] /\ loadIter \in [Vecs -> Nat]
        /\ LoadFrom \in Vecs /\ StoreTo \in Vecs /\ LoadFrom # StoreTo
        /\ Positions \subseteq Nat
    BY <1>1, OneFacts, Consts DEF Positions
  <1>3. \A v \in Vecs : v = LoadFrom \/ v = StoreTo
    BY <1>2 DEF Vecs
  <1>4. ASSUME pc[t] \in {"idle", "claim"}
        PROVE  /\ KeysIn(LoadFrom, loadIter[LoadFrom], storeIter[LoadFrom])
               /\ KeysIn(StoreTo, 0, storeIter[StoreTo])
    BY <1>1, <1>2, <1>4 DEF Queue, Vectors, Taken, Stored
  <1>5. ASSUME Idle, Nameable
        PROVE  /\ Findable = FreeCells
               /\ Cardinality(held) + Cardinality(FreeCells) = slotsSize
    <2>1. pc[t] = "idle"
      BY <1>5 DEF Idle
    <2>2. ASSUME NEW c \in FreeCells PROVE c \in Findable
      <3>1. c[1] \in Vecs /\ c[2] \in Positions /\ cells[c[1]][c[2]] # 0
        BY DEF FreeCells
      <3> QED
        BY <1>2, <1>3, <1>4, <2>1, <3>1 DEF Findable, KeysIn, LoadFrom, StoreTo
    <2>3. Findable = FreeCells
      BY <2>2 DEF Findable
    <2>4. Cardinality(held) + Cardinality(FreeCells) = slotsSize
      <3>1. Hand(t) = 0 /\ Accounted(t)
        BY <1>5, <2>1 DEF Hand, Carriers, OneInvariant
      <3>2. Cardinality(held) \in Nat /\ Cardinality(FreeCells) \in Nat
        BY <1>1, Numbers, CellsFinite
      <3> QED
        BY <3>1, <3>2 DEF Accounted
    <2> QED
      BY <2>3, <2>4
  <1>6. ASSUME pc[t] = "claim" PROVE FreeCells = {}
    <2>1. storeIter[LoadFrom] <= loadIter[LoadFrom] /\ storeIter[StoreTo] = 0
      BY <1>1, <1>6 DEF Queue, Looks
    <2>2. \A v \in Vecs, p \in Positions : cells[v][p] = 0
      BY <1>2, <1>3, <1>4, <1>6, <2>1 DEF KeysIn
    <2> QED
      BY <2>2 DEF FreeCells
  <1> QED
    BY <1>5, <1>6 DEF NoKeyLost

\* No key of a single caller is lost, as long as the free vectors are within one chunk: between
\* calls push() finds every key that nobody holds, and it claims a new slot only when there is none.
THEOREM NoKeyIsLost ==
  ASSUME OneCaller
  PROVE  Spec /\ []OneChunk => []NoKeyLost
  <1>0. PICK t : Threads = {t}
    BY DEF OneCaller
  <1>1. Init => OneInvariant(t)
    BY <1>0, OneInitially
  <1>2. OneChunk /\ OneInvariant(t) /\ [Next]_vars => OneInvariant(t)'
    BY <1>0, OneInductive
  <1>3. OneInvariant(t) => NoKeyLost
    BY <1>0, OneFinds
  <1> QED
    BY <1>1, <1>2, <1>3, PTL DEF Spec

-----------------------------------------------------------------------------
(* The store one caller sees *)

\* The keys under which an item is stored, and what is stored under them.
InUse == {k \in Keys : k - 1 \in Positions /\ slots[k - 1] # 0}
Contents == [k \in InUse |-> slots[k - 1]]

\* A step that stores x under k, which was free.
LEMMA PutsItem ==
  ASSUME slots \in [Positions -> Items \cup {0}], Keys \subseteq Nat, Positions \subseteq Nat,
         0 \notin Items, NEW k \in Keys, k - 1 \in Positions, NEW x \in Items,
         slots[k - 1] = 0, slots' = [slots EXCEPT ![k - 1] = x]
  PROVE  Store!Put(k, x)
  <1>1. \A j \in Nat : j # k => j - 1 # k - 1
    OBVIOUS
  <1>2. InUse' = InUse \cup {k} /\ k \notin InUse
    BY <1>1 DEF InUse
  <1>3. \A j \in InUse' : slots'[j - 1] = IF j = k THEN x ELSE slots[j - 1]
    BY <1>1 DEF InUse
  <1>4. Contents' = [j \in InUse \cup {k} |-> IF j = k THEN x ELSE Contents[j]]
    BY <1>2, <1>3 DEF Contents
  <1>5. DOMAIN Contents = InUse
    BY DEF Contents
  <1> QED
    BY <1>2, <1>4, <1>5 DEF Store!Put, Contents, InUse

\* A step that takes out what is stored under k.
LEMMA TakesItem ==
  ASSUME slots \in [Positions -> Items \cup {0}], Keys \subseteq Nat, Positions \subseteq Nat,
         NEW k \in Keys, k - 1 \in Positions, slots' = [slots EXCEPT ![k - 1] = 0],
         slots[k - 1] # 0, held' = held, \A h \in held : h[1] # k
  PROVE  k \in DOMAIN Contents /\ Store!Delete(k)
  <1>1. \A j \in Nat : j # k => j - 1 # k - 1
    OBVIOUS
  <1>2. InUse' = InUse \ {k} /\ k \in InUse
    BY <1>1 DEF InUse
  <1>3. \A j \in InUse' : slots'[j - 1] = slots[j - 1]
    BY <1>1, <1>2 DEF InUse
  <1>4. Contents' = [j \in InUse \ {k} |-> Contents[j]]
    BY <1>2, <1>3 DEF Contents
  <1>5. DOMAIN Contents = InUse
    BY DEF Contents
  <1> QED
    BY <1>2, <1>4, <1>5 DEF Store!Delete, Contents, InUse

\* A step after which the same items are stored.
LEMMA SameItems ==
  ASSUME slots' = slots
  PROVE  Contents' = Contents
  BY DEF Contents, InUse

\* What the store does when the call of its only caller makes a step.
LEMMA StoreSteps ==
  ASSUME NEW t, Threads = {t}, Nameable, Nameable', SlotInvariant, Stores(t), Exact,
         PushStart(t) \/ DeleteStart(t) \/ Push(t) \/ Delete(t)
  PROVE  Store!Step \/ (Contents' = Contents /\ held' = held)
  <1> DEFINE l == loc[t]
  <1>0. t \in Threads
    OBVIOUS
  <1>1. /\ IInv /\ slots \in [Positions -> Items \cup {0}]
        /\ slotsSize \in Nat /\ slotsClaimed \in Nat /\ slotsClaimed <= MaxItems
        /\ slotsSize < KeySpace
        /\ MaxItems \in Nat /\ loc \in [Threads -> Locals] /\ pc \in [Threads -> PCs]
        /\ l \in Locals /\ Fits(pc[t], l, idx)
        /\ \A h \in held : /\ h[1] \in Nat \ {0} /\ h[1] <= slotsSize
                           /\ h[2] \in Items /\ h[1] - 1 \in Positions
                           /\ slots[h[1] - 1] = h[2]
    BY OneSlots DEF Stores
  <1>2. /\ Keys \subseteq Nat /\ Positions \subseteq Nat /\ 0 \notin Items /\ KeySpace \in Nat
        /\ \A k \in Nat : k < KeySpace => k \in Keys
        /\ \A n \in Nat : n < MaxItems => n \in Positions
    BY Consts DEF Keys, Positions, Items
  <1>3. DOMAIN Contents = InUse
    BY DEF Contents
  <1>4. CASE \/ Lookup(t) \/ (Passing(t) /\ ~FillSlot(t)) \/ (Delete(t) /\ ~Disable(t))
    <2>1. slots' = slots /\ held' = held
      BY <1>4, Walking DEF Lookup, Passing, PushStart, LoadKey, StoreKey, LoadMax, ReachReused,
           ReachDeleted, LoadSlots, ClaimSlot, UndoSlot, CountSlot,
           Drained, Refill, Swap, ResetLoad, ResetStore, RangeLo, RangeHi, Peek, Take,
           StillSame, SkipTaken, Advance, Delete, DStoreKey, CheckStore, DRange,
           DPeek, Put, DSame, DSkip, Append, AppendWrite, AppendAnnounce, CountKey, items,
           clients
    <2> QED
      BY <2>1, SameItems
  <1>5. CASE Reuse(t)
    <2>1. pc[t] = "reuse" /\ t \in Carriers /\ l.item \in Items /\ l.at = l.key - 1
      BY <1>0, <1>1, <1>5 DEF Reuse, Return, Step, Carriers, Fits, PushPC, Exact
    <2>2. l.key \in Keys /\ l.key - 1 \in Positions /\ slots[l.key - 1] = 0
      BY <1>0, <1>1, <2>1, OneSlots, WrittenDisabled DEF Locals
    <2>3. /\ slots' = [slots EXCEPT ![l.key - 1] = l.item]
          /\ held' = held \cup {<<l.key, l.item>>}
      BY <1>5, <2>1 DEF Reuse
    <2>4. PICK k \in Keys, x \in Items : k = l.key /\ x = l.item
      BY <2>1, <2>2
    <2>5. Store!Put(k, x)
      BY <1>1, <1>2, <2>2, <2>3, <2>4, PutsItem
    <2>6. Store!Push(k, x)
      BY <2>3, <2>4, <2>5 DEF Store!Push
    <2> QED
      BY <2>6 DEF Store!Step
  <1>6. CASE FillSlot(t)
    <2>1. /\ pc[t] = "fill" /\ l.at = slotsSize /\ slotsSize < slotsClaimed /\ l.item \in Items
          /\ slots[slotsSize] = 0 /\ held' = held
          /\ slots' = [slots EXCEPT ![slotsSize] = l.item]
      BY <1>0, <1>1, <1>6, OneSlots, WrittenDisabled
         DEF FillSlot, Step, Stores, Fits, PushPC, clients
    <2>2. PICK k : k = slotsSize + 1
      OBVIOUS
    <2>3. k \in Nat /\ k - 1 = slotsSize /\ k - 1 \in Positions
      BY <1>1, <1>2, <2>1, <2>2
    <2>4. CASE k \in Keys
      <3>1. PICK x \in Items : x = l.item
        BY <2>1
      <3>2. slots[k - 1] = 0 /\ slots' = [slots EXCEPT ![k - 1] = x]
        BY <2>1, <2>3, <3>1
      <3>3. Store!Put(k, x)
        BY <1>1, <1>2, <2>3, <2>4, <3>2, PutsItem
      <3>4. Store!Push(k, x)
        BY <2>1, <3>3 DEF Store!Push
      <3> QED
        BY <2>4, <3>4 DEF Store!Step
    <2>5. CASE k \notin Keys
      <3>1. \A j \in Keys : j - 1 # slotsSize
        BY <1>1, <1>2, <2>2, <2>5
      <3>2. \A j \in Keys : j - 1 \in Positions => slots'[j - 1] = slots[j - 1]
        BY <1>1, <2>1, <3>1
      <3>3. InUse' = InUse
        BY <3>2 DEF InUse
      <3>4. Contents' = Contents
        BY <3>2, <3>3 DEF Contents, InUse
      <3> QED
        BY <2>1, <3>4
    <2> QED
      BY <2>4, <2>5
  <1>7. CASE AnnounceSlot(t)
    <2>1. /\ pc[t] = "announce" /\ slots' = slots /\ slots[slotsSize] = l.item
          /\ l.item \in Items /\ slotsSize < slotsClaimed /\ slotsSize' = slotsSize + 1
          /\ held' = held \cup {<<(slotsSize + 1) % KeySpace, l.item>>}
      BY <1>0, <1>1, <1>7, OneSlots DEF AnnounceSlot, Return, Step, Stores, Fits, PushPC
    <2>2. PICK k : k = (slotsSize + 1) % KeySpace
      OBVIOUS
    <2>3. slotsSize + 1 < KeySpace
      BY <2>1 DEF Nameable
    <2>4. k = slotsSize + 1 /\ k \in Nat /\ k - 1 = slotsSize
      BY <1>1, <1>2, <2>2, <2>3
    <2>5. k \in Keys /\ k - 1 \in Positions
      BY <1>1, <1>2, <2>1, <2>3, <2>4
    <2>6. k \in InUse /\ Contents[k] = l.item
      BY <1>2, <2>1, <2>4, <2>5 DEF InUse, Contents
    <2>7. Contents' = Contents
      BY <2>1, SameItems
    <2>8. Store!Give(k)
      BY <2>1, <2>2, <2>6, <2>7 DEF Store!Give, Contents, InUse
    <2> QED
      BY <1>3, <2>6, <2>8 DEF Store!Step, Contents, InUse
  <1>8. CASE DeleteStart(t)
    <2>1. slots' = slots /\ \E h \in held \cup {Invalid} : held' = held \ {h}
      BY <1>8 DEF DeleteStart, items
    <2>2. Contents' = Contents
      BY <2>1, SameItems
    <2>3. PICK h \in held \cup {Invalid} : held' = held \ {h}
      BY <2>1
    <2>4. CASE h \in held
      <3>1. Store!GiveUp(h)
        BY <2>2, <2>3 DEF Store!GiveUp, Contents, InUse
      <3> QED
        BY <2>4, <3>1 DEF Store!Step
    <2>5. CASE h \notin held
      BY <2>2, <2>3, <2>5
    <2> QED
      BY <2>4, <2>5
  <1>9. CASE Disable(t)
    <2>1. /\ pc[t] = "disable" /\ t \in Carriers /\ held' = held /\ l.at = l.key - 1
          /\ slots[l.key - 1] # 0
          /\ slots' = [slots EXCEPT ![l.key - 1] = 0]
      BY <1>0, <1>1, <1>2, <1>9 DEF Disable, Return, Step, Carriers, clients, Stores, Exact,
           Before
    <2>2. /\ l.key \in Keys /\ l.key - 1 \in Positions /\ \A h \in held : h[1] # l.key
      BY <1>1, <2>1, OneSlots DEF Locals
    <2>3. PICK k \in Keys : k = l.key
      BY <2>2
    <2>4. k \in DOMAIN Contents /\ Store!Delete(k)
      BY <1>1, <1>2, <2>1, <2>2, <2>3, TakesItem
    <2> QED
      BY <2>4 DEF Store!Step, Contents, InUse
  <1> QED
    BY <1>4, <1>5, <1>6, <1>7, <1>8, <1>9 DEF Push, Passing, Lookup

\* Every step of one caller is a step of the store, or none.
LEMMA StoreSimulated ==
  ASSUME NEW t, Threads = {t}, OneInvariant(t), [Next]_vars
  PROVE  [Store!Next]_Store!vars
  <1>1. CASE ~Nameable'
    <2>1. Nameable' = FALSE
      BY <1>1
    <2> QED
      BY <2>1 DEF Store!Next
  <1>2. CASE Nameable' /\ \E u \in Threads : PushStart(u) \/ DeleteStart(u) \/ Push(u) \/ Delete(u)
    <2>1. PushStart(t) \/ DeleteStart(t) \/ Push(t) \/ Delete(t)
      BY <1>2
    <2>2. slotsSize' = slotsSize \/ slotsSize' = slotsSize + 1
      BY <2>1, Walking DEF PushStart, ReachReused, Reuse, LoadSlots, ClaimSlot, UndoSlot, FillSlot,
             CountSlot, AnnounceSlot, Push, ReachDeleted,
             LoadKey, StoreKey, LoadMax, Drained, Refill, Swap, ResetLoad,
             ResetStore, RangeLo, RangeHi, Peek, Take, StillSame, SkipTaken, Advance,
             DeleteStart, Delete, Disable, DStoreKey, CheckStore, DRange, DPeek, Put,
             DSame, DSkip, Append, AppendWrite, AppendAnnounce, CountKey, items
    <2>3. Nameable
      BY <1>2, <2>2, NameableBefore DEF OneInvariant, KeyInvariant
    <2>4. Store!Step \/ (Contents' = Contents /\ held' = held)
      BY <1>2, <2>1, <2>3, StoreSteps DEF OneInvariant, Walks
    <2>5. Nameable' = Nameable
      BY <1>2, <2>3
    <2> QED
      BY <2>3, <2>4, <2>5 DEF Store!Next, Store!vars, Contents, InUse
  <1>3. CASE UNCHANGED vars
    <2>1. slots' = slots /\ held' = held /\ slotsSize' = slotsSize
      BY <1>3 DEF vars, items, clients
    <2>2. Contents' = Contents /\ Nameable' = Nameable
      BY <2>1, SameItems DEF Nameable
    <2> QED
      BY <2>1, <2>2 DEF Store!vars, Contents, InUse
  <1> QED
    BY <1>1, <1>2, <1>3 DEF Next

\* At first nothing is stored.
LEMMA StoreInitially ==
  ASSUME Init
  PROVE  Store!Init
  <1>1. InUse = {}
    BY DEF Init, InUse
  <1>2. Contents = <<>>
    BY <1>1 DEF Contents
  <1>3. Nameable = TRUE
    BY Consts DEF Init, Nameable
  <1> QED
    BY <1>2, <1>3 DEF Init, Store!Init, Contents, InUse

\* What one caller sees, as long as the free vectors are within one chunk and there are more
\* keys than slots, is a store that chooses the key: no key is handed out while an item is
\* stored under it, and delete() takes out the item of the key it is given.
THEOREM Refinement ==
  ASSUME OneCaller
  PROVE  Spec /\ []OneChunk => ImplementsKeyedStore
  <1>0. PICK t : Threads = {t}
    BY DEF OneCaller
  <1>1. Init => OneInvariant(t)
    BY <1>0, OneInitially
  <1>2. OneChunk /\ OneInvariant(t) /\ [Next]_vars => OneInvariant(t)'
    BY <1>0, OneInductive
  <1>3. OneInvariant(t) /\ [Next]_vars => [Store!Next]_Store!vars
    BY <1>0, StoreSimulated
  <1>4. Init => Store!Init
    BY StoreInitially
  <1> QED
    BY <1>1, <1>2, <1>3, <1>4, PTL DEF Spec, ImplementsKeyedStore, Store!Spec
=============================================================================
