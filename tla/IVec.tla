------------------------------- MODULE IVec --------------------------------
(***************************************************************************)
(* IVec<T>: a sorted vector of which every version is a snapshot on the    *)
(* heap.  get_or_insert() copies the current snapshot, adds an item and    *)
(* swings the root with a compare_exchange; older snapshots hang off it    *)
(* through `prev` until clear_prev_snapshots() frees them.  Snapshots are  *)
(* immutable once published, so searching or copying one is one step.      *)
(* Snapshot 0 is the static empty one.  An item is known by its ivec_id    *)
(* and by the call of init_data that made it, its object.                  *)
(***************************************************************************)
EXTENDS Integers, FiniteSets, FiniteSetsExt

CONSTANTS
  Threads,     \* threads that call get and get_or_insert
  Ids,         \* ids of items, ordered
  MaxSnaps,    \* room for the snapshots on the heap
  MaxObjects   \* bound: calls of init_data

ASSUME IVecAssumption ==
  /\ IsFiniteSet(Threads)
  /\ IsFiniteSet(Ids) /\ Ids \subseteq Nat
  /\ MaxSnaps \in Nat /\ MaxSnaps >= Cardinality(Ids) + Cardinality(Threads)
  /\ MaxObjects \in Nat /\ MaxObjects >= Cardinality(Ids) * Cardinality(Threads)

VARIABLES
  root,           \* the current snapshot
  data,           \* snapshot -> id -> object, for the ids it holds
  prev,           \* snapshot -> the one it was copied from
  alloc,          \* snapshots on the heap
  disposable,     \* is_disposable_and_pinned, fixed by the constructor
  needDisposing,  \* need_disposing
  registered,     \* entries of this vector in IVEC_DROP_SNAPSHOTS
  created,        \* objects made by init_data
  drops,          \* object -> how often it was dropped
  pc, loc         \* thread -> next step, locals of its call

heap == <<root, data, prev, alloc>>
frame == <<disposable, needDisposing, registered>>
objects == <<created, drops>>
vars == <<heap, frame, objects, pc, loc>>

Snaps == 1 .. MaxSnaps
Objects == 1 .. MaxObjects
Empty == [i \in {} |-> 0]
NoLocals == [id |-> 0, insert |-> FALSE, rootPtr |-> 0, new |-> 0, obj |-> 0,
             snap |-> 0, elem |-> 0]

Step(t, from, to) == pc[t] = from /\ pc' = [pc EXCEPT ![t] = to]
Set(t, l) == loc' = [loc EXCEPT ![t] = l]
Idle == \A t \in Threads : pc[t] = "idle"

\* The snapshots from s on: s, its prev, and so on down to the static one.  They are
\* what all sets with s have that have the prev of each of their members.
Chain(s) ==
  LET closed == {C \in SUBSET Snaps :
        /\ s = 0 \/ s \in C
        /\ \A c \in C : prev[c] = 0 \/ prev[c] \in C}
  IN {x \in Snaps : \A C \in closed : x \in C}

Init ==
  /\ root = 0
  /\ data = [s \in Snaps \cup {0} |-> Empty]
  /\ prev = [s \in Snaps |-> 0]
  /\ alloc = {}
  /\ disposable \in BOOLEAN
  /\ needDisposing = FALSE
  /\ registered = 0
  /\ created = 0
  /\ drops = [o \in Objects |-> 0]
  /\ pc = [t \in Threads |-> "idle"]
  /\ loc = [t \in Threads |-> NoLocals]

-----------------------------------------------------------------------------
(* get and get_or_insert *)

\* A call starts with loading the root.
Call(t) ==
  \E id \in Ids, insert \in BOOLEAN :
    /\ Step(t, "idle", "search")
    /\ Set(t, [NoLocals EXCEPT !.id = id, !.insert = insert, !.rootPtr = root])
    /\ UNCHANGED <<heap, frame, objects>>

\* binary_search_by finds the id in the snapshot.
Find(t) ==
  LET l == loc[t] IN
    /\ Step(t, "search", "return")
    /\ l.id \in DOMAIN data[l.rootPtr]
    /\ Set(t, [l EXCEPT !.snap = l.rootPtr, !.elem = l.id])
    /\ UNCHANGED <<heap, frame, objects>>

\* get() returns None.
FindNone(t) ==
  /\ Step(t, "search", "idle")
  /\ ~loc[t].insert /\ loc[t].id \notin DOMAIN data[loc[t].rootPtr]
  /\ Set(t, NoLocals)
  /\ UNCHANGED <<heap, frame, objects>>

\* A copy of the snapshot with the new item, sorted: still private.
Build(t) ==
  LET l == loc[t] IN
    /\ Step(t, "search", "cas")
    /\ l.insert /\ l.id \notin DOMAIN data[l.rootPtr]
    /\ LET s == Min(Snaps \ alloc)
           o == created + 1
       IN /\ alloc' = alloc \cup {s}
          /\ data' = [data EXCEPT ![s] =
               [i \in DOMAIN data[l.rootPtr] \cup {l.id} |->
                  IF i = l.id THEN o ELSE data[l.rootPtr][i]]]
          /\ prev' = [prev EXCEPT ![s] = l.rootPtr]
          /\ created' = o
          /\ Set(t, [l EXCEPT !.new = s, !.obj = o])
    /\ UNCHANGED <<root, frame, drops>>

\* The element at index 0.
Last_First(s) == Min(DOMAIN data[s])

\* The element of the new snapshot the winner returns: the one at index
\* root.len, the greatest id.
Last(s) == Max(DOMAIN data[s])

\* A plain store instead of the compare_exchange.
Switch_Store(t) ==
  LET l == loc[t] IN
    /\ Step(t, "cas", IF disposable THEN "need" ELSE "return")
    /\ root' = l.new
    /\ Set(t, [l EXCEPT !.snap = l.new, !.elem = Last(l.new)])
    /\ UNCHANGED <<data, prev, alloc, frame, objects>>

\* The loser forgets to free its copy.
Switch_Leak(t) ==
  LET l == loc[t] IN
    /\ \/ /\ Step(t, "cas", IF disposable THEN "need" ELSE "return")
          /\ root = l.rootPtr
          /\ root' = l.new
          /\ Set(t, [l EXCEPT !.snap = l.new, !.elem = Last(l.new)])
          /\ UNCHANGED drops
       \/ /\ Step(t, "cas", "search")
          /\ root # l.rootPtr
          /\ drops' = [drops EXCEPT ![l.obj] = @ + 1]
          /\ Set(t, [l EXCEPT !.rootPtr = root, !.new = 0, !.obj = 0])
          /\ UNCHANGED root
    /\ UNCHANGED <<data, prev, alloc, frame, created>>

\* The loser drops every item of its copy, the shared ones included.
Switch_DropAll(t) ==
  LET l == loc[t] IN
    /\ \/ /\ Step(t, "cas", IF disposable THEN "need" ELSE "return")
          /\ root = l.rootPtr
          /\ root' = l.new
          /\ Set(t, [l EXCEPT !.snap = l.new, !.elem = Last(l.new)])
          /\ UNCHANGED <<data, alloc, drops>>
       \/ /\ Step(t, "cas", "search")
          /\ root # l.rootPtr
          /\ drops' = [o \in Objects |-> drops[o] +
               IF \E i \in DOMAIN data[l.new] : data[l.new][i] = o THEN 1 ELSE 0]
          /\ alloc' = alloc \ {l.new}
          /\ data' = [data EXCEPT ![l.new] = Empty]
          /\ Set(t, [l EXCEPT !.rootPtr = root, !.new = 0, !.obj = 0])
          /\ UNCHANGED root
    /\ UNCHANGED <<prev, frame, created>>

\* A compare_exchange_weak, which may fail on the root it expects.
Switch_Weak(t) ==
  LET l == loc[t] IN
    /\ \/ /\ Step(t, "cas", IF disposable THEN "need" ELSE "return")
          /\ root = l.rootPtr
          /\ root' = l.new
          /\ Set(t, [l EXCEPT !.snap = l.new, !.elem = Last(l.new)])
          /\ UNCHANGED <<data, alloc, drops>>
       \/ /\ Step(t, "cas", "search")
          /\ drops' = [drops EXCEPT ![l.obj] = @ + 1]
          /\ alloc' = alloc \ {l.new}
          /\ data' = [data EXCEPT ![l.new] = Empty]
          /\ Set(t, [l EXCEPT !.rootPtr = root, !.new = 0, !.obj = 0])
          /\ UNCHANGED root
    /\ UNCHANGED <<prev, frame, created>>

\* The compare_exchange on the root.  The loser drops its own item only, frees
\* its copy and searches the snapshot it lost to.
Switch(t) ==
  LET l == loc[t] IN
    /\ \/ /\ Step(t, "cas", IF disposable THEN "need" ELSE "return")
          /\ root = l.rootPtr
          /\ root' = l.new
          /\ Set(t, [l EXCEPT !.snap = l.new, !.elem = Last(l.new)])
          /\ UNCHANGED <<data, alloc, drops>>
       \/ /\ Step(t, "cas", "search")
          /\ root # l.rootPtr
          /\ drops' = [drops EXCEPT ![l.obj] = @ + 1]
          /\ alloc' = alloc \ {l.new}
          /\ data' = [data EXCEPT ![l.new] = Empty]
          /\ Set(t, [l EXCEPT !.rootPtr = root, !.new = 0, !.obj = 0])
          /\ UNCHANGED root
    /\ UNCHANGED <<prev, frame, created>>

CheckNeed(t) ==
  /\ Step(t, "need", IF needDisposing THEN "return" ELSE "mark")
  /\ UNCHANGED <<heap, frame, objects, loc>>

Mark(t) ==
  /\ Step(t, "mark", "register")
  /\ needDisposing' = TRUE
  /\ UNCHANGED <<heap, disposable, registered, objects, loc>>

Register(t) ==
  /\ Step(t, "register", "return")
  /\ registered' = registered + 1
  /\ UNCHANGED <<heap, disposable, needDisposing, objects, loc>>

Return(t) ==
  /\ Step(t, "return", "idle")
  /\ Set(t, NoLocals)
  /\ UNCHANGED <<heap, frame, objects>>

-----------------------------------------------------------------------------
(* Clearing, disposing and dropping: nobody else uses the vector meanwhile *)

\* Every snapshot behind the root is freed; its items are not dropped, the root
\* shares them.
ClearPrev ==
  LET old == Chain(root) \ {root} IN
    /\ alloc' = alloc \ old
    /\ data' = [s \in Snaps \cup {0} |-> IF s \in old THEN Empty ELSE data[s]]
    /\ prev' = [s \in Snaps |-> IF s = root \/ s \in old THEN 0 ELSE prev[s]]

\* clear_prev_snapshots() called on the vector itself.
Clear ==
  /\ Idle
  /\ root # 0
  /\ ClearPrev
  /\ UNCHANGED <<root, frame, objects, pc, loc>>

\* need_disposing is left set after disposing.
Dispose_KeepNeed ==
  /\ Idle
  /\ registered > 0
  /\ ClearPrev
  /\ registered' = 0
  /\ UNCHANGED <<root, disposable, needDisposing, objects, pc, loc>>

\* The end of a frame: every registered entry is disposed (once more does
\* nothing) and the list is reset.
Dispose ==
  /\ Idle
  /\ registered > 0
  /\ ClearPrev
  /\ needDisposing' = FALSE
  /\ registered' = 0
  /\ UNCHANGED <<root, disposable, objects, pc, loc>>

\* Drop of the vector, and a new one in its place.  A pinned one lives on.  Each
\* id is inserted once in a vector's life and makes every other thread lose at
\* most once: the bound leaves room for that many objects.
Drop ==
  LET chain == Chain(root) IN
    /\ Idle
    /\ ~disposable /\ root # 0
    /\ created + Cardinality(Ids) * Cardinality(Threads) <= MaxObjects
    /\ drops' = [o \in Objects |-> drops[o] +
         IF \E i \in DOMAIN data[root] : data[root][i] = o THEN 1 ELSE 0]
    /\ alloc' = alloc \ chain
    /\ data' = [s \in Snaps \cup {0} |-> IF s \in chain THEN Empty ELSE data[s]]
    /\ prev' = [s \in Snaps |-> IF s \in chain THEN 0 ELSE prev[s]]
    /\ root' = 0
    /\ UNCHANGED <<frame, created, pc, loc>>

GetOrInsert(t) ==
  \/ Find(t) \/ FindNone(t) \/ Build(t) \/ Switch(t)
  \/ CheckNeed(t) \/ Mark(t) \/ Register(t) \/ Return(t)

Next ==
  \/ \E t \in Threads : Call(t) \/ GetOrInsert(t)
  \/ Clear \/ Dispose \/ Drop

Spec == Init /\ [][Next]_vars

-----------------------------------------------------------------------------
(* Properties *)

TypeOK ==
  /\ root \in Snaps \cup {0}
  /\ \A s \in Snaps \cup {0} : DOMAIN data[s] \subseteq Ids
  /\ prev \in [Snaps -> Snaps \cup {0}]
  /\ alloc \subseteq Snaps
  /\ disposable \in BOOLEAN
  /\ needDisposing \in BOOLEAN
  /\ registered \in 0 .. Cardinality(Threads)
  /\ created \in 0 .. MaxObjects
  /\ drops \in [Objects -> 0 .. 1]

InFlight == {t \in Threads : pc[t] = "cas"}

\* Every snapshot on the heap is the root, hangs off it or is a private copy of
\* one thread: none leaks, none is freed twice, and every copy was made of a
\* snapshot still on the heap.
SnapshotsAccounted ==
  LET chain == Chain(root) IN
    /\ alloc = chain \cup {loc[t].new : t \in InFlight}
    /\ \A s, t \in InFlight : s # t => loc[s].new # loc[t].new
    /\ \A t \in InFlight : loc[t].new \notin chain
    /\ \A t \in Threads : pc[t] \in {"search", "cas"} => loc[t].rootPtr \in chain \cup {0}

\* Every object init_data made is in the root, or in a private copy not published
\* yet, or was dropped, exactly one of the three and never twice.
DroppedOnce ==
  \A o \in 1 .. created :
    drops[o] + Cardinality({i \in DOMAIN data[root] : data[root][i] = o})
      + Cardinality({t \in InFlight : loc[t].obj = o}) = 1

\* An item inserted stays the item of its id until the vector is dropped: a
\* reference to it and later lookups agree, and no insert is lost.
InsertedForever ==
  [][Drop \/ \A i \in DOMAIN data[root] :
       i \in DOMAIN data'[root'] /\ data'[root'][i] = data[root][i]]_vars

\* get_or_insert starts over only when others got ahead: who loses the switch searches
\* a snapshot with all the ids of the one it copied and at least one more, so that
\* no thread loses more often than there are ids, and init_data runs no more often.
LossMeansProgress ==
  [][\A t \in Threads : pc[t] = "cas" /\ pc'[t] = "search" =>
       LET ids(s) == DOMAIN data[s]
       IN ids(loc[t].rootPtr) \subseteq ids(loc'[t].rootPtr)
          /\ ids(loc'[t].rootPtr) # ids(loc[t].rootPtr)]_vars

\* Snapshots that wait to be freed are waited for: with no call in flight a
\* disposable vector that has any is registered for the end of the frame.
StaleIsRegistered ==
  Idle /\ disposable /\ root # 0 /\ prev[root] # 0 => registered > 0

\* The reference a call is about to return leads into a snapshot that is not freed, to the
\* item that is in the root under its id, whoever has switched the root since.  It is the
\* item asked for, unless the call inserted it below a greater id: sync_ivec.rs:216 returns
\* the greatest of the new snapshot, where line 177 asserts that the item made has the id.
ReturnsItem ==
  LET chain == Chain(root) IN
    \A t \in Threads : pc[t] \in {"need", "mark", "register", "return"} =>
      LET l == loc[t] IN
        /\ l.snap \in chain
        /\ l.elem \in DOMAIN data[l.snap] \cap DOMAIN data[root]
        /\ data[root][l.elem] = data[l.snap][l.elem]
        /\ l.elem # l.id =>
             /\ l.snap = l.new
             /\ l.id \in DOMAIN data[l.new] /\ l.id < l.elem
             /\ \A i \in DOMAIN data[l.new] : i <= l.elem
=============================================================================
