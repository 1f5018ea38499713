------------------------------ MODULE SlotMap ------------------------------
(***************************************************************************)
(* SyncSlotMap<T, N>: items in a SyncVec, addressed by keys; deleted keys  *)
(* go to one of two free vectors and are reused by push().  free_keys idx  *)
(* names the vector keys are loaded from (idx % 2) and the one they are    *)
(* stored to ((idx + 1) % 2); the drained one is swapped for the other.    *)
(* One action is one access to shared memory, or two loads in a row where  *)
(* the comment says so.  The free vectors are what SyncVec implements, see *)
(* TicketVec: claim a position, write it, announce it.  The vector of      *)
(* slots is read by index as well, by a walk over its chunks, so that it   *)
(* has the counters this walk goes by.                                     *)
(***************************************************************************)
EXTENDS Integers, FiniteSets

CONSTANTS
  Threads,   \* threads that push and delete
  K,         \* cells of a chunk of the free vectors (512)
  KS,        \* cells of a chunk of slots (1024)
  KeySpace,  \* keys a SyncSlot<N> can name, 2^(8 N)
  MaxItems,  \* bound: items ever pushed
  MaxSwaps   \* bound: swaps of the free vectors

ASSUME SlotMapAssumption ==
  /\ IsFiniteSet(Threads)
  /\ K \in Nat \ {0}
  /\ KS \in Nat \ {0}
  /\ Cardinality(Threads) <= KS
  /\ KeySpace \in Nat \ {0}
  /\ MaxItems \in Nat
  /\ MaxSwaps \in Nat

VARIABLES
  idx,        \* free_keys_store_idx
  storeIter,  \* vector -> free_keys_meta.store_iter
  loadIter,   \* vector -> free_keys_meta.load_iter
  cells,      \* vector -> position -> key, 0 where there is none
  claimed,    \* vector -> positions given out by its push
  size,       \* vector -> its size()
  slots,      \* index -> the item of an enabled slot, 0 where it is disabled
  slotsClaimed, slotsSize,  \* the same two counters of the vector of slots
  slotsLen,   \* len of its root chunk: the cells counted after they were written
  chunk,      \* thread -> chunk_idx of slots.push() and of get_unchecked_ptr
  held,       \* <<key, item>> pairs the callers of push hold
  pushed,     \* history: items ever pushed
  pc,         \* thread -> the access it makes next
  loc         \* thread -> locals of its call

free == <<idx, storeIter, loadIter, cells, claimed, size>>
items == <<slots, slotsClaimed, slotsSize, slotsLen, chunk>>
clients == <<held, pushed>>
vars == <<free, items, clients, pc, loc>>

Vecs == {0, 1}
Positions == 0 .. MaxItems - 1
Items == 1 .. MaxItems
Keys == 0 .. KeySpace - 1

NoLocals ==
  [loadKey |-> 0, storeKey |-> 0, lo |-> 0, hi |-> 0, i |-> 0, miss |-> 0,
   key |-> 0, item |-> 0, at |-> 0, found |-> FALSE]

\* SyncSlot::invalid()
Invalid == <<0, 0>>

LoadVec(t) == loc[t].loadKey % 2
StoreVec(t) == loc[t].storeKey % 2

Step(t, from, to) == pc[t] = from /\ pc' = [pc EXCEPT ![t] = to]
Set(t, l) == loc' = [loc EXCEPT ![t] = l]
Return(t, from) == Step(t, from, "idle") /\ Set(t, NoLocals)

Init ==
  /\ idx = 0
  /\ storeIter = [v \in Vecs |-> 0]
  /\ loadIter = [v \in Vecs |-> 0]
  /\ cells = [v \in Vecs |-> [p \in Positions |-> 0]]
  /\ claimed = [v \in Vecs |-> 0]
  /\ size = [v \in Vecs |-> 0]
  /\ slots = [p \in Positions |-> 0]
  /\ slotsClaimed = 0
  /\ slotsSize = 0
  /\ slotsLen = 0
  /\ chunk = [t \in Threads |-> 0]
  /\ held = {}
  /\ pushed = 0
  /\ pc = [t \in Threads |-> "idle"]
  /\ loc = [t \in Threads |-> NoLocals]

-----------------------------------------------------------------------------
(* push: get_free_key *)

PushStart(t) ==
  /\ pushed < MaxItems
  /\ Step(t, "idle", "load")
  /\ pushed' = pushed + 1
  /\ Set(t, [NoLocals EXCEPT !.item = pushed + 1])
  /\ UNCHANGED <<free, items, held>>

\* get_load_vec; the counters of the loop body start anew.
LoadKey(t) ==
  /\ Step(t, "load", "store")
  /\ Set(t, [NoLocals EXCEPT !.loadKey = idx, !.item = loc[t].item])
  /\ UNCHANGED <<free, items, clients>>

\* get_store_vec: the index is loaded a second time.
StoreKey(t) ==
  /\ Step(t, "store", "max")
  /\ Set(t, [loc[t] EXCEPT !.storeKey = idx + 1])
  /\ UNCHANGED <<free, items, clients>>

LoadMax(t) ==
  /\ Step(t, "max", "drained")
  /\ Set(t, [loc[t] EXCEPT !.hi = storeIter[LoadVec(t)]])
  /\ UNCHANGED <<free, items, clients>>

\* store_iter.saturating_sub(load_iter) == 0
Drained(t) ==
  /\ IF loc[t].hi <= loadIter[LoadVec(t)]
       THEN Step(t, "drained", "refill")
       ELSE Step(t, "drained", "lo")
  /\ UNCHANGED <<free, items, clients, loc>>

\* The vectors are swapped although nothing is stored.
Refill_NoCheck(t) ==
  /\ Step(t, "refill", "swap")
  /\ UNCHANGED <<free, items, clients, loc>>

\* Nothing stored either: a new slot.  Otherwise swap the vectors.
Refill(t) ==
  /\ IF storeIter[StoreVec(t)] = 0
       THEN Step(t, "refill", "claim")
       ELSE Step(t, "refill", "swap")
  /\ UNCHANGED <<free, items, clients, loc>>

\* The loser of the compare_exchange looks again, and so does the winner
\* after it reset both counters.
Swap(t) ==
  /\ \/ /\ Step(t, "swap", "resetload")
        /\ idx = loc[t].loadKey
        /\ idx < MaxSwaps
        /\ idx' = loc[t].storeKey
     \/ /\ Step(t, "swap", "load")
        /\ idx # loc[t].loadKey
        /\ UNCHANGED idx
  /\ UNCHANGED <<storeIter, loadIter, cells, claimed, size, items, clients, loc>>

ResetLoad(t) ==
  /\ Step(t, "resetload", "resetstore")
  /\ loadIter' = [loadIter EXCEPT ![StoreVec(t)] = 0]
  /\ UNCHANGED <<idx, storeIter, cells, claimed, size, items, clients, loc>>

ResetStore(t) ==
  /\ Step(t, "resetstore", "load")
  /\ storeIter' = [storeIter EXCEPT ![LoadVec(t)] = 0]
  /\ UNCHANGED <<idx, loadIter, cells, claimed, size, items, clients, loc>>

RangeLo(t) ==
  /\ Step(t, "lo", "hi")
  /\ Set(t, [loc[t] EXCEPT !.lo = loadIter[LoadVec(t)]])
  /\ UNCHANGED <<free, items, clients>>

\* ZipRangeIterator::add: up to store_iter, and not beyond the size (two loads).
RangeHi(t) ==
  LET v == LoadVec(t) IN
    /\ Step(t, "hi", "peek")
    /\ Set(t, [loc[t] EXCEPT !.i = loc[t].lo,
         !.hi = IF storeIter[v] <= size[v] THEN storeIter[v] ELSE size[v]])
    /\ UNCHANGED <<free, items, clients>>

\* 'linear_lookup: the next cell with a key, if any is left.
Peek(t) ==
  LET l == loc[t] IN
    /\ \/ /\ Step(t, "peek", "same")
          /\ l.i >= l.hi
          /\ UNCHANGED loc
       \/ /\ Step(t, "peek", "peek")
          /\ l.i < l.hi
          /\ cells[LoadVec(t)][l.i] = 0
          /\ Set(t, [l EXCEPT !.i = @ + 1])
       \/ /\ Step(t, "peek", "take")
          /\ l.i < l.hi
          /\ cells[LoadVec(t)][l.i] # 0
          /\ Set(t, [l EXCEPT !.key = cells[LoadVec(t)][l.i]])
    /\ UNCHANGED <<free, items, clients>>

\* A plain store of 0: two pushes can take the same key.
Take_Store(t) ==
  LET l == loc[t] IN
    /\ Step(t, "take", "same")
    /\ cells' = [cells EXCEPT ![LoadVec(t)][l.i] = 0]
    /\ UNCHANGED <<idx, storeIter, loadIter, claimed, size, items, clients, loc>>

\* compare_exchange(free_key, 0)
Take(t) ==
  LET l == loc[t] IN
    /\ \/ /\ Step(t, "take", "same")
          /\ cells[LoadVec(t)][l.i] = l.key
          /\ cells' = [cells EXCEPT ![LoadVec(t)][l.i] = 0]
          /\ UNCHANGED loc
       \/ /\ Step(t, "take", "peek")
          /\ cells[LoadVec(t)][l.i] # l.key
          /\ Set(t, [l EXCEPT !.key = 0, !.miss = @ + 1, !.i = @ + 1])
          /\ UNCHANGED cells
    /\ UNCHANGED <<idx, storeIter, loadIter, claimed, size, items, clients>>

\* Where the loop body goes once load_iter was corrected.
AfterLookup(t, same) ==
  IF loc[t].key # 0 THEN "advance" ELSE IF same THEN "claim" ELSE "load"

\* still_same_load
StillSame(t) ==
  /\ IF loc[t].miss >= 1 /\ idx = loc[t].loadKey
       THEN Step(t, "same", "skip")
       ELSE Step(t, "same", AfterLookup(t, idx = loc[t].loadKey))
  /\ UNCHANGED <<free, items, clients, loc>>

\* The counter is moved the wrong way.
SkipTaken_Sub(t) ==
  /\ Step(t, "skip", AfterLookup(t, TRUE))
  /\ loadIter' = [loadIter EXCEPT ![LoadVec(t)] = @ - loc[t].miss]
  /\ UNCHANGED <<idx, storeIter, cells, claimed, size, items, clients, loc>>

SkipTaken(t) ==
  /\ Step(t, "skip", AfterLookup(t, TRUE))
  /\ loadIter' = [loadIter EXCEPT ![LoadVec(t)] = @ + loc[t].miss]
  /\ UNCHANGED <<idx, storeIter, cells, claimed, size, items, clients, loc>>

Advance(t) ==
  /\ Step(t, "advance", "reach")
  /\ loadIter' = [loadIter EXCEPT ![LoadVec(t)] = @ + 1]
  /\ Set(t, [NoLocals EXCEPT !.key = loc[t].key, !.item = loc[t].item])
  /\ UNCHANGED <<idx, storeIter, cells, claimed, size, items, clients>>

-----------------------------------------------------------------------------
(* The vector of slots: which cell an index names *)

\* Chunk c has no cell left, claims about to be taken back apart.
Full(c) == slotsClaimed >= KS * (c + 1)

\* Threads whose fetch_add found chunk c full and that still owe the fetch_sub.
Undoing(c) == {t \in Threads : pc[t] = "undo" /\ chunk[t] = c}

\* What the walk loads of a chunk it is at: len of the root, raw_len of the others.
Loaded(c) ==
  IF c = 0 THEN slotsLen
  ELSE IF Full(c) THEN KS + Cardinality(Undoing(c)) ELSE slotsClaimed - KS * c

\* The while condition of get_unchecked_ptr; an index of the root never meets it.
Beyond(t) ==
  LET n == Loaded(chunk[t]) IN n >= KS /\ loc[t].key - 1 >= n + KS * chunk[t]

\* get_unchecked_ptr for the slot of a key: each chunk's count is one load, and the
\* chunk where the walk stops gives the cell.
Reach(t, from, to) ==
  /\ \/ /\ Step(t, from, from)
        /\ Beyond(t)
        /\ chunk' = [chunk EXCEPT ![t] = @ + 1]
        /\ UNCHANGED loc
     \/ /\ Step(t, from, to)
        /\ ~Beyond(t)
        /\ chunk' = [chunk EXCEPT ![t] = 0]
        /\ Set(t, [loc[t] EXCEPT !.at = (KS * chunk[t]) + ((loc[t].key - 1) % KS)])
  /\ UNCHANGED <<free, slots, slotsClaimed, slotsSize, slotsLen, clients>>

-----------------------------------------------------------------------------
(* push: the slot *)

ReachReused(t) == Reach(t, "reach", "reuse")

\* mem::replace of the slot reached; the old content is not dropped.
Reuse(t) ==
  LET l == loc[t] IN
    /\ Return(t, "reuse")
    /\ slots' = [slots EXCEPT ![l.at] = l.item]
    /\ held' = held \cup {<<l.key, l.item>>}
    /\ UNCHANGED <<free, slotsClaimed, slotsSize, slotsLen, chunk, pushed>>

\* slots.push(): raw_len is loaded, and a full chunk is left for the next.
LoadSlots(t) ==
  /\ Step(t, "claim", "fetch")
  /\ chunk' = [chunk EXCEPT ![t] = IF Full(chunk[t]) THEN @ + 1 ELSE @]
  /\ UNCHANGED <<free, slots, slotsClaimed, slotsSize, slotsLen, clients, loc>>

\* fetch_add: the next cell, unless the chunk has filled up since, or was not looked at
\* after the one before was full.
ClaimSlot(t) ==
  /\ \/ /\ Step(t, "fetch", "undo")
        /\ Full(chunk[t])
        /\ UNCHANGED <<slotsClaimed, loc>>
     \/ /\ Step(t, "fetch", "fill")
        /\ ~Full(chunk[t])
        /\ slotsClaimed' = slotsClaimed + 1
        /\ Set(t, [NoLocals EXCEPT !.item = loc[t].item, !.at = slotsClaimed])
  /\ UNCHANGED <<free, slots, slotsSize, slotsLen, chunk, clients>>

\* fetch_sub, then again from the same chunk.
UndoSlot(t) ==
  /\ Step(t, "undo", "claim")
  /\ UNCHANGED <<free, items, clients, loc>>

FillSlot(t) ==
  /\ Step(t, "fill", "len")
  /\ slots' = [slots EXCEPT ![loc[t].at] = loc[t].item]
  /\ UNCHANGED <<free, slotsClaimed, slotsSize, slotsLen, chunk, clients, loc>>

\* len of the chunk, of which only that of the root is read here.
CountSlot(t) ==
  /\ Step(t, "len", "announce")
  /\ slotsLen' = IF chunk[t] = 0 THEN slotsLen + 1 ELSE slotsLen
  /\ chunk' = [chunk EXCEPT ![t] = 0]
  /\ UNCHANGED <<free, slots, slotsClaimed, slotsSize, clients, loc>>

\* A key is cut one short.
AnnounceSlot_Short(t) ==
  /\ Return(t, "announce")
  /\ slotsSize' = slotsSize + 1
  /\ held' = held \cup {<<(slotsSize + 1) % (KeySpace - 1), loc[t].item>>}
  /\ UNCHANGED <<free, slots, slotsClaimed, slotsLen, chunk, pushed>>

\* The key is made of the size push() returned, cut to the N bytes of a SyncSlot.
AnnounceSlot(t) ==
  /\ Return(t, "announce")
  /\ slotsSize' = slotsSize + 1
  /\ held' = held \cup {<<(slotsSize + 1) % KeySpace, loc[t].item>>}
  /\ UNCHANGED <<free, slots, slotsClaimed, slotsLen, chunk, pushed>>

-----------------------------------------------------------------------------
(* delete *)

\* The key is passed by value: whoever deletes gives it up.  An invalid key,
\* SyncSlot::invalid() or one cut to 0, returns at once.
DeleteStart(t) ==
  \E h \in held \cup {Invalid} :
    /\ held' = held \ {h}
    /\ IF h[1] = 0
         THEN Step(t, "idle", "idle") /\ UNCHANGED loc
         ELSE /\ Step(t, "idle", "dreach")
              /\ Set(t, [NoLocals EXCEPT !.key = h[1], !.item = h[2]])
    /\ UNCHANGED <<free, items, pushed>>

ReachDeleted(t) == Reach(t, "dreach", "disable")

\* The item is taken out, `enabled` is only read.
Disable_Load(t) ==
  LET p == loc[t].at IN
    /\ \/ Return(t, "disable") /\ slots[p] = 0
       \/ Step(t, "disable", "dstore") /\ slots[p] # 0 /\ UNCHANGED loc
    /\ UNCHANGED <<free, items, clients>>

\* compare_exchange(enabled, true, false), and the winner takes the item.
Disable(t) ==
  LET p == loc[t].at IN
    /\ \/ /\ Return(t, "disable")
          /\ slots[p] = 0
          /\ UNCHANGED slots
       \/ /\ Step(t, "disable", "dstore")
          /\ slots[p] # 0
          /\ slots' = [slots EXCEPT ![p] = 0]
          /\ UNCHANGED loc
    /\ UNCHANGED <<free, slotsClaimed, slotsSize, slotsLen, chunk, clients>>

DStoreKey(t) ==
  /\ Step(t, "dstore", "check")
  /\ Set(t, [loc[t] EXCEPT !.storeKey = idx + 1])
  /\ UNCHANGED <<free, items, clients>>

\* Is there a cell to reuse (two loads)?
CheckStore(t) ==
  LET v == StoreVec(t) IN
    /\ IF storeIter[v] < size[v] THEN Step(t, "check", "drange")
                                 ELSE Step(t, "check", "append")
    /\ UNCHANGED <<free, items, clients, loc>>

\* ZipRangeIterator::add: from store_iter to the size (two loads).
DRange(t) ==
  LET v == StoreVec(t) IN
    /\ Step(t, "drange", "dpeek")
    /\ Set(t, [loc[t] EXCEPT !.i = storeIter[v], !.hi = size[v]])
    /\ UNCHANGED <<free, items, clients>>

\* Where delete goes once store_iter was corrected.
AfterScan(t) == IF loc[t].found THEN "count" ELSE "append"

DPeek(t) ==
  LET l == loc[t] IN
    /\ \/ /\ Step(t, "dpeek", IF l.miss > 0 THEN "dsame" ELSE AfterScan(t))
          /\ l.i >= l.hi
          /\ UNCHANGED loc
       \/ /\ Step(t, "dpeek", "dpeek")
          /\ l.i < l.hi
          /\ cells[StoreVec(t)][l.i] # 0
          /\ Set(t, [l EXCEPT !.i = @ + 1])
       \/ /\ Step(t, "dpeek", "put")
          /\ l.i < l.hi
          /\ cells[StoreVec(t)][l.i] = 0
          /\ UNCHANGED loc
    /\ UNCHANGED <<free, items, clients>>

\* compare_exchange(0, key).  The `break` leaves the loop over this chunk only:
\* the scan goes on in the next chunk.
Put(t) ==
  LET l == loc[t] IN
    /\ Step(t, "put", "dpeek")
    /\ \/ /\ cells[StoreVec(t)][l.i] = 0
          /\ cells' = [cells EXCEPT ![StoreVec(t)][l.i] = l.key]
          /\ Set(t, [l EXCEPT !.found = TRUE, !.i = K * (@ \div K + 1)])
       \/ /\ cells[StoreVec(t)][l.i] # 0
          /\ Set(t, [l EXCEPT !.miss = @ + 1, !.i = @ + 1])
          /\ UNCHANGED cells
    /\ UNCHANGED <<idx, storeIter, loadIter, claimed, size, items, clients>>

DSame(t) ==
  /\ IF idx + 1 = loc[t].storeKey THEN Step(t, "dsame", "dskip")
                                  ELSE Step(t, "dsame", AfterScan(t))
  /\ UNCHANGED <<free, items, clients, loc>>

DSkip(t) ==
  /\ Step(t, "dskip", AfterScan(t))
  /\ storeIter' = [storeIter EXCEPT ![StoreVec(t)] = @ + loc[t].miss]
  /\ UNCHANGED <<idx, loadIter, cells, claimed, size, items, clients, loc>>

\* store_vec.push(): claim, write, announce.
Append(t) ==
  LET v == StoreVec(t) IN
    /\ Step(t, "append", "dwrite")
    /\ Set(t, [loc[t] EXCEPT !.at = claimed[v]])
    /\ claimed' = [claimed EXCEPT ![v] = @ + 1]
    /\ UNCHANGED <<idx, storeIter, loadIter, cells, size, items, clients>>

AppendWrite(t) ==
  /\ Step(t, "dwrite", "dannounce")
  /\ cells' = [cells EXCEPT ![StoreVec(t)][loc[t].at] = loc[t].key]
  /\ UNCHANGED <<idx, storeIter, loadIter, claimed, size, items, clients, loc>>

AppendAnnounce(t) ==
  /\ Step(t, "dannounce", "count")
  /\ size' = [size EXCEPT ![StoreVec(t)] = @ + 1]
  /\ UNCHANGED <<idx, storeIter, loadIter, cells, claimed, items, clients, loc>>

\* Only an appended key is counted.
CountKey_Appended(t) ==
  /\ Return(t, "count")
  /\ storeIter' = IF loc[t].found THEN storeIter
                  ELSE [storeIter EXCEPT ![StoreVec(t)] = @ + 1]
  /\ UNCHANGED <<idx, loadIter, cells, claimed, size, items, clients>>

CountKey(t) ==
  /\ Return(t, "count")
  /\ storeIter' = [storeIter EXCEPT ![StoreVec(t)] = @ + 1]
  /\ UNCHANGED <<idx, loadIter, cells, claimed, size, items, clients>>

Push(t) ==
  \/ LoadKey(t) \/ StoreKey(t) \/ LoadMax(t) \/ Drained(t) \/ Refill(t)
  \/ Swap(t) \/ ResetLoad(t) \/ ResetStore(t) \/ RangeLo(t) \/ RangeHi(t)
  \/ Peek(t) \/ Take(t) \/ StillSame(t) \/ SkipTaken(t) \/ Advance(t)
  \/ ReachReused(t) \/ Reuse(t) \/ LoadSlots(t) \/ ClaimSlot(t) \/ UndoSlot(t)
  \/ FillSlot(t) \/ CountSlot(t) \/ AnnounceSlot(t)
Delete(t) ==
  \/ ReachDeleted(t) \/ Disable(t) \/ DStoreKey(t) \/ CheckStore(t) \/ DRange(t) \/ DPeek(t)
  \/ Put(t) \/ DSame(t) \/ DSkip(t) \/ Append(t) \/ AppendWrite(t)
  \/ AppendAnnounce(t) \/ CountKey(t)

Next == \E t \in Threads : PushStart(t) \/ DeleteStart(t) \/ Push(t) \/ Delete(t)

Spec == Init /\ [][Next]_vars

\* A thread inside a call is scheduled again and again; calling is its choice.
FairSpec == Spec /\ \A t \in Threads : WF_vars(Push(t) \/ Delete(t))

-----------------------------------------------------------------------------
(* Properties *)

PushPC == {"load", "store", "max", "drained", "refill", "swap", "resetload",
  "resetstore", "lo", "hi", "peek", "take", "same", "skip", "advance", "reach",
  "reuse", "claim", "fetch", "undo", "fill", "len", "announce"}
DeletePC == {"dreach", "disable", "dstore", "check", "drange", "dpeek", "put", "dsame",
  "dskip", "append", "dwrite", "dannounce", "count"}

TypeOK ==
  /\ idx \in 0 .. MaxSwaps
  /\ storeIter \in [Vecs -> Nat]
  /\ loadIter \in [Vecs -> Nat]
  /\ cells \in [Vecs -> [Positions -> Keys]]
  /\ claimed \in [Vecs -> 0 .. MaxItems]
  /\ size \in [Vecs -> 0 .. MaxItems]
  /\ slots \in [Positions -> Items \cup {0}]
  /\ slotsClaimed \in 0 .. MaxItems
  /\ slotsSize \in 0 .. MaxItems
  /\ slotsLen \in Nat
  /\ chunk \in [Threads -> Nat]
  /\ held \subseteq Keys \X Items
  /\ pushed \in 0 .. MaxItems
  /\ pc \in [Threads -> {"idle"} \cup PushPC \cup DeletePC]

\* Threads with a key in hand that is in no free cell yet, or no longer.
Carriers == {t \in Threads :
  \/ pc[t] \in {"same", "skip", "advance", "reach", "reuse"} /\ loc[t].key # 0
  \/ pc[t] \in {"dreach", "disable", "dstore", "check", "drange", "append", "dwrite"}
  \/ pc[t] \in {"dpeek", "put", "dsame", "dskip"} /\ ~loc[t].found}
FreeCells == {c \in Vecs \X Positions : cells[c[1]][c[2]] # 0}

\* A SyncSlot<N> can name every slot and is not the invalid one.
Nameable == slotsSize < KeySpace

\* A key is valid and in one place, as long as there are keys enough: with one caller,
\* in the hands of one call or in one free cell, so push() never hands out a key
\* somebody holds.
KeyUnique == Nameable =>
  /\ \A h \in held : h[1] # 0
  /\ \A g, h \in held : g # h => g[1] # h[1]
  /\ \A h \in held, t \in Carriers : h[1] # loc[t].key
  /\ \A h \in held, c \in FreeCells : h[1] # cells[c[1]][c[2]]
  /\ \A s, t \in Carriers : s # t => loc[s].key # loc[t].key
  /\ \A t \in Carriers, c \in FreeCells : loc[t].key # cells[c[1]][c[2]]
  /\ \A b, c \in FreeCells : b # c => cells[b[1]][b[2]] # cells[c[1]][c[2]]

\* The slots are those of the root chunk, where an index needs no walk.
InRoot == slotsClaimed <= KS

\* While the slots are within one chunk, push() never writes over an item that no
\* delete() took out: the slot it is about to write is disabled.
WritesDisabledSlot == InRoot =>
  \A t \in Threads :
    /\ pc[t] = "reuse" => slots[loc[t].at] = 0
    /\ pc[t] = "fill" => slots[loc[t].at] = 0

\* The comment sync_slot.rs:141-142 says that only the owner of a key can delete: the
\* slot delete() takes the item out of is not that of a key somebody else holds.
OnlyOwnerDeletes ==
  \A t \in Threads : pc[t] = "disable" /\ slots[loc[t].at] # 0 =>
    \A h \in held : h[1] - 1 # loc[t].at

\* The tests of sync_slot.rs:568-592 expect delete() to return the item pushed
\* with the key, and slot_map_async:527 that no key is handed out twice.
DeleteReturnsItem ==
  \A t \in Threads : pc[t] = "disable" => slots[loc[t].at] = loc[t].item
NoKeyTwice == \A g, h \in held : g # h => g[1] # h[1]

Idle == \A t \in Threads : pc[t] = "idle"

\* The free cells push() finds: between load_iter and store_iter of the vector it
\* loads from, below store_iter of the other.
Findable ==
  LET load == idx % 2
      store == (idx + 1) % 2
  IN {c \in FreeCells :
        IF c[1] = load THEN loadIter[load] <= c[2] /\ c[2] < storeIter[load]
                       ELSE c[2] < storeIter[store]}

\* With no call in flight every key is either held or free, and a free one is
\* where push() finds it: no key is lost, and a new slot is claimed only when no deleted
\* key waits for reuse.
NoKeyLost ==
  /\ Idle /\ Nameable =>
       /\ Findable = FreeCells
       /\ Cardinality(held) + Cardinality(FreeCells) = slotsSize
  /\ \A t \in Threads : pc[t] = "claim" => FreeCells = {}

\* One caller sees a store that chooses the key: push() uses a key under which nothing
\* is stored, the key it returns is the key of its item, and delete() takes out the
\* item of the key it is given.
Store == INSTANCE KeyedStore WITH
  contents <- [k \in {k \in Keys : k - 1 \in Positions /\ slots[k - 1] # 0} |-> slots[k - 1]],
  room <- Nameable
ImplementsKeyedStore == Store!Spec

\* A call once made returns: the lookup does not swap the vectors for ever.
CallsReturn == \A t \in Threads : pc[t] # "idle" ~> pc[t] = "idle"
=============================================================================
