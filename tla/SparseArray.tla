---------------------------- MODULE SparseArray ----------------------------
(***************************************************************************)
(* SparseArray<T> over RawVecU16: an array indexed by id modulo a prime    *)
(* `hash`.  Entries that collide are packed into the next free slots, at   *)
(* most MAX_COLLISION_PACK_DISTANCE - 1 further; when there is none the    *)
(* array is laid out anew for a greater prime, and above MAX_HASH it is    *)
(* indexed by id (`hash_disabled`).  Slot 0 is never occupied, so that a   *)
(* lookup that finds nothing can return it.                                *)
(*                                                                         *)
(* One thread owns the array: an action is a call.  data holds the slots   *)
(* that are occupied; every other slot below the length holds the default  *)
(* value, whose id is INVALID_SLOT_ID.                                     *)
(***************************************************************************)
EXTENDS Integers, FiniteSets, FiniteSetsExt, Folds, Functions

CONSTANTS
  Ids,        \* ids the caller uses, non-zero u16 other than u16::MAX
  Vals,       \* what an entry holds besides its id
  MAX_HASH,   \* 5000 in the code
  PrimeLimit  \* bound: the primes above it are left out

U16_MAX == 65535
INVALID_SLOT_ID == U16_MAX
MAX_COLLISION_PACK_DISTANCE == 5
BITS_SIZE == 64

ASSUME SparseAssumption ==
  /\ Ids \subseteq 1 .. U16_MAX - 1 /\ Ids # {}
  /\ MAX_HASH \in Nat /\ MAX_HASH >= 2
  /\ MAX_HASH + MAX_COLLISION_PACK_DISTANCE < U16_MAX
  /\ PrimeLimit \in Nat /\ PrimeLimit >= 2 * MAX_HASH

VARIABLES
  hash, hash_disabled,
  data,                              \* index -> entry
  data_capacity,                     \* unpacked
  data_slots, data_slots_end,
  data_slots_min, data_slots_max,
  bits, bits_capacity,               \* ids in the bit set; words allocated
  fate,                              \* "ok", or how the program stopped
  sound                              \* history: no call misplaced an entry

slots == <<hash, hash_disabled, data, data_capacity, data_slots, data_slots_end>>
bounds == <<data_slots_min, data_slots_max, bits, bits_capacity>>
vars == <<slots, bounds, fate, sound>>

Nowhere == -1

PRIME_U16 == {p \in 2 .. PrimeLimit : \A d \in 2 .. p - 1 : p % d # 0}

\* The capacities of a RawVecU16.
Capacities == {Min({2 ^ k, U16_MAX}) : k \in 0 .. 16}

\* packed_capacity(n).capacity()
Capacity(n) == Min({Min({2 ^ k, U16_MAX}) : k \in {e \in 0 .. 16 : 2 ^ e >= n}})

\* The capacity RawVecU16::push and ::resize_with leave a vector of length len.
PushCapacity(cap, len) == IF len + 1 > cap THEN Capacity(Max({len + 1, 2})) ELSE cap
ResizeCapacity(cap, len, newlen) ==
  IF newlen <= len THEN cap ELSE Capacity(Max({newlen, 2, cap}))

\* The slots d with the entry e at i.
Put(d, i, e) == [j \in DOMAIN d \cup {i} |-> IF j = i THEN e ELSE d[j]]

IdAt(d, i) == IF i \in DOMAIN d THEN d[i].id ELSE INVALID_SLOT_ID

DataHashLen(n) == IF n = 0 THEN 1 ELSE hash + MAX_COLLISION_PACK_DISTANCE
DataLen == IF hash_disabled THEN hash ELSE DataHashLen(data_slots)

\* The slots after the home slot that set() and delete() look at.
Window(home, len) ==
  home + 1 .. Min({home + MAX_COLLISION_PACK_DISTANCE, len}) - 1

-----------------------------------------------------------------------------
(* rehash_data *)

\* The home slot of id with h for the hash.
HomeIn(id, h) == id % h

\* A loop over the indices S in increasing order.
Loop(step(_, _), init, S) ==
  MapThenFoldSet(LAMBDA i, acc : step(acc, i), init, LAMBDA i : i, LAMBDA T : Max(T), S)

NextPrime(h, least) ==
  LET step == Min({Max({h \div 10, 1}), 200})
      found == {p \in PRIME_U16 : p >= h + step /\ p >= least}
  IN IF found = {} THEN h + 1 ELSE Min(found)

\* One turn of 'collect_collision_info: id takes its home slot if that is free, or
\* if its occupant is packed there or must give way to an id below the hash;
\* who is left takes the next free slot in reach.  retry is the hash to start
\* anew from.
Collect(info, h, id) ==
  LET home == HomeIn(id, h)
      free == home \notin DOMAIN info
      evicts == ~free /\ (id < h \/ HomeIn(info[home], h) # home)
      packed == IF evicts THEN info[home] ELSE id
      settled == IF free \/ evicts THEN Put(info, home, id) ELSE info
      pack == HomeIn(packed, h)
      reach == pack + 1 .. pack + MAX_COLLISION_PACK_DISTANCE - 1
      holes == reach \ DOMAIN settled
  IN IF home = 0 THEN [info |-> info, retry |-> h]
     ELSE IF free THEN [info |-> settled, retry |-> 0]
     ELSE IF holes = {}
          THEN [info |-> info, retry |-> h + MAX_COLLISION_PACK_DISTANCE]
     ELSE [info |-> Put(settled, Min(holes), packed), retry |-> 0]

\* The loop 'collect_collision_info over the entries at the indices I.
Collected(a, h, id) == IF a.retry = 0 THEN Collect(a.info, h, id) ELSE a
CollectAll(d, I, h) ==
  Loop(LAMBDA a, i : Collected(a, h, d[i].id), [info |-> <<>>, retry |-> 0], I)

\* One turn of the loop 'hash_lookup, for the prime that follows n.
Attempt(d, I, n, least) ==
  LET prime == NextPrime(n, least)
      disabled == prime > MAX_HASH
      h == IF disabled THEN Max({d[i].id : i \in I} \cup {MAX_HASH}) + 1 ELSE prime
      all == CollectAll(d, I, h)
  IN [hash |-> h, disabled |-> disabled, info |-> all.info, retry |-> all.retry]

\* The loop 'hash_lookup: the first prime for which all entries at I find a place.
Layout(d, I, from, least) ==
  LET try[n \in Nat] ==
        LET lay == Attempt(d, I, n, least)
        IN IF lay.retry = 0 \/ lay.disabled THEN lay ELSE try[lay.retry]
  IN try[from]

\* Where the loop 'swap_index wants the entry of id that it finds at i.
Target(lay, id, i) ==
  LET home == HomeIn(id, lay.hash)
      at == {p \in home .. home + MAX_COLLISION_PACK_DISTANCE - 1 :
               p \in DOMAIN lay.info /\ lay.info[p] = id}
  IN IF id < lay.hash /\ i \in at THEN i ELSE Min(at)

SwapSlots(d, i, j) ==
  LET other(k) == IF k = i THEN j ELSE IF k = j THEN i ELSE k
  IN [k \in {other(l) : l \in DOMAIN d} |-> d[other(k)]]

Settled(lay, d, i) == i \notin DOMAIN d \/ Target(lay, d[i].id, i) = i

\* The loop for one i; each turn puts one entry in its place, so more turns than
\* entries never end.
Turn(lay, d, i) ==
  IF Settled(lay, d, i) THEN d ELSE SwapSlots(d, i, Target(lay, d[i].id, i))
Settle(lay, d, i) ==
  Loop(LAMBDA e, n : Turn(lay, e, i), d, 1 .. Cardinality(DOMAIN d))

Visit(lay, a, i) ==
  LET e == Settle(lay, a.data, i)
  IN IF a.stuck THEN a ELSE [data |-> e, stuck |-> ~Settled(lay, e, i)]
VisitAll(lay, d, I) ==
  Loop(LAMBDA a, i : Visit(lay, a, i), [data |-> d, stuck |-> FALSE], I)

Twice(d, I) == \E i, j \in I : i # j /\ d[i].id = d[j].id

\* rehash_data(from, d) for d of length len and capacity cap, and the hash old.  Two
\* entries of one id make the swaps go on for ever; with ids as indices the second is
\* packed past its own index, in the end past the array.
Rehash(d, len, cap, end, from, old) ==
  LET I == {i \in DOMAIN d : i < end}
      lay == Layout(d, I, from, IF from < old THEN 0 ELSE end)
      newlen == lay.hash + IF lay.disabled THEN 0 ELSE MAX_COLLISION_PACK_DISTANCE
      all == VisitAll(lay, d, I)
  IN IF lay.disabled /\ Twice(d, I) THEN [fate |-> "undefined"]
     ELSE IF all.stuck THEN [fate |-> "hang"]
     ELSE [fate |-> "ok",
           data |-> all.data,
           hash |-> lay.hash,
           hash_disabled |-> lay.disabled,
           data_slots_end |-> Max(DOMAIN all.data \cup {1}) + 1,
           data_capacity |-> ResizeCapacity(cap, len, newlen)]

\* The fields a call leaves behind in place of those of the record r.
Become(r) ==
  /\ fate' = r.fate
  /\ IF r.fate = "ok"
     THEN /\ data' = r.data
          /\ hash' = r.hash
          /\ hash_disabled' = r.hash_disabled
          /\ data_slots_end' = r.data_slots_end
          /\ data_capacity' = r.data_capacity
     ELSE UNCHANGED <<data, hash, hash_disabled, data_slots_end, data_capacity>>

-----------------------------------------------------------------------------
(* set *)

Init ==
  /\ hash = 1 /\ hash_disabled = FALSE
  /\ data = <<>> /\ data_capacity = 1
  /\ data_slots = 0 /\ data_slots_end = 1
  /\ data_slots_min = 0 /\ data_slots_max = 0
  /\ bits = {} /\ bits_capacity = 1
  /\ fate = "ok" /\ sound = TRUE

\* bits!(@set)
SetBit(id) ==
  LET words == id \div BITS_SIZE + 1
  IN /\ bits' = bits \cup {id}
     /\ bits_capacity' = IF words <= bits_capacity THEN bits_capacity
                         ELSE ResizeCapacity(bits_capacity, bits_capacity, Capacity(words))
     /\ data_slots_max' = Max({data_slots_max, id})
     /\ data_slots_min' =
          IF data_slots_min = 0 THEN id ELSE Min({data_slots_min, id})

\* The slots of a call of set(): home slot, the slots it may be packed to.
Home(id) == HomeIn(id, hash)
Reach(id) == Window(Home(id), DataHashLen(data_slots))
AtHome(id) == IdAt(data, Home(id)) = id
Packed(id) == {i \in Reach(id) : IdAt(data, i) = id}
Holes(id) == Reach(id) \ DOMAIN data
HomeFree(id) == Home(id) # 0 /\ Home(id) \notin DOMAIN data

Entries == [id : Ids, val : Vals]
Entry(id, val) == [id |-> id, val |-> val]

UpdateFast(id, val) ==
  /\ AtHome(id)
  /\ data' = [data EXCEPT ![Home(id)] = Entry(id, val)]
  /\ UNCHANGED <<hash, hash_disabled, data_capacity, data_slots, data_slots_end,
                 bounds, fate>>

\* Indexed by id; the array grows to twice the power of two above the id.
UpsertHashDisabled(id, val) ==
  /\ ~AtHome(id) /\ hash_disabled
  /\ LET grown == Min({2 * Capacity(id), U16_MAX})
     IN IF id >= hash
        THEN /\ hash' = grown
             /\ data_capacity' = ResizeCapacity(data_capacity, hash, grown)
        ELSE UNCHANGED <<hash, data_capacity>>
  /\ data_slots_end' = Max({data_slots_end, id + 1})
  /\ IF id \in DOMAIN data
     THEN UNCHANGED <<data_slots, bounds>>
     ELSE data_slots' = data_slots + 1 /\ SetBit(id)
  /\ data' = Put(data, id, Entry(id, val))
  /\ UNCHANGED <<hash_disabled, fate>>

Insert(id, val) ==
  /\ ~hash_disabled /\ HomeFree(id)
  /\ data' = Put(data, Home(id), Entry(id, val))
  /\ data_slots_end' = Max({data_slots_end, Home(id) + 1})
  /\ data_slots' = data_slots + 1
  /\ SetBit(id)
  /\ UNCHANGED <<hash, hash_disabled, data_capacity, fate>>

UpdatePacked(id, val) ==
  /\ ~hash_disabled /\ ~AtHome(id) /\ ~HomeFree(id)
  /\ Packed(id) # {}
  /\ data' = [data EXCEPT ![Min(Packed(id))] = Entry(id, val)]
  /\ UNCHANGED <<hash, hash_disabled, data_capacity, data_slots, data_slots_end,
                 bounds, fate>>

\* Every new id takes the free slot.
InsertPacked_Behind(id, val) ==
  /\ ~hash_disabled /\ ~AtHome(id) /\ ~HomeFree(id)
  /\ Packed(id) = {} /\ Holes(id) # {}
  /\ data' = Put(data, Min(Holes(id)), Entry(id, val))
  /\ data_slots_end' = Max({data_slots_end, Min(Holes(id)) + 1})
  /\ data_slots' = data_slots + 1
  /\ SetBit(id)
  /\ UNCHANGED <<hash, hash_disabled, data_capacity, fate>>

\* An id below the hash takes its home slot and its occupant the free one.
InsertPacked(id, val) ==
  /\ ~hash_disabled /\ ~AtHome(id) /\ ~HomeFree(id)
  /\ Packed(id) = {} /\ Holes(id) # {}
  /\ LET hole == Min(Holes(id))
     IN /\ data' = IF id < hash
                   THEN Put(Put(data, hole, data[id]), id, Entry(id, val))
                   ELSE Put(data, hole, Entry(id, val))
        /\ data_slots_end' = Max({data_slots_end, hole + 1})
  /\ data_slots' = data_slots + 1
  /\ SetBit(id)
  /\ UNCHANGED <<hash, hash_disabled, data_capacity, fate>>

NoRoom(id) ==
  /\ ~hash_disabled /\ ~AtHome(id) /\ ~HomeFree(id)
  /\ Packed(id) = {} /\ Holes(id) = {}

\* The assertion is made also where the slot at data_slots_end is used.
PushPanics_NotPushed ==
  LET len == DataHashLen(data_slots) + 1
  IN len <= data_capacity /\ Capacity(Max({len, 2})) # data_capacity

\* RawVecU16::push asserts that the capacity is the least power of two.
PushPanics ==
  LET len == DataHashLen(data_slots) + 1
      expected == Capacity(Max({len, 2}))
  IN data_slots_end = len - 1 /\ len <= data_capacity /\ expected # data_capacity

\* The new entry is put behind the others and all are laid out anew.
InsertRehash(id, val) ==
  /\ NoRoom(id) /\ ~PushPanics
  /\ LET len == DataHashLen(data_slots)
         vec == Put(data, data_slots_end, Entry(id, val))
         pushed == IF data_slots_end < len THEN len ELSE len + 1
         cap == IF pushed = len THEN data_capacity ELSE PushCapacity(data_capacity, len)
     IN Become(Rehash(vec, pushed, cap, data_slots_end + 1, hash, hash))
  /\ data_slots' = data_slots + 1
  /\ SetBit(id)

InsertPanic(id) ==
  /\ NoRoom(id) /\ PushPanics
  /\ fate' = "panic"
  /\ UNCHANGED <<slots, bounds>>

-----------------------------------------------------------------------------
(* delete, lookup, drop *)

\* The search is one slot short.
DeleteIndex_Short(id) ==
  LET near == Home(id) .. Home(id) + MAX_COLLISION_PACK_DISTANCE - 2
      at == {i \in near : IdAt(data, i) = id}
  IN IF Home(id) \notin DOMAIN data \/ at = {} THEN Nowhere ELSE Min(at)

\* Where delete(id) finds the entry.
DeleteIndex(id) ==
  LET at == {i \in {Home(id)} \cup Reach(id) : IdAt(data, i) = id}
  IN IF Home(id) \notin DOMAIN data \/ at = {} THEN Nowhere ELSE Min(at)

\* Indexed by id, the search for an id that is not there looks at slots behind the
\* last: what it reads and may take out is not defined.
DeletePastEnd(id) ==
  /\ hash_disabled /\ Home(id) \in DOMAIN data
  /\ DeleteIndex(id) = Nowhere
  /\ ~(Reach(id) \subseteq 0 .. hash - 1)
  /\ fate' = "undefined"
  /\ UNCHANGED <<slots, bounds>>

\* The least id is not looked for again.
DeleteBit_KeepMin(id, n) ==
  LET left == bits \ {id}
  IN /\ bits' = left
     /\ data_slots_max' = IF n = 0 THEN 0 ELSE Max(left \cup {0})
     /\ data_slots_min' = IF n = 0 THEN 0 ELSE data_slots_min
     /\ UNCHANGED bits_capacity

\* The ids of left in the words of the bit set from that of lo to that of hi.
Between(left, lo, hi) ==
  {b \in left : b \div BITS_SIZE \in lo \div BITS_SIZE .. hi \div BITS_SIZE}

MaxAfter(left, id, lo, hi) ==
  LET top == Between(left, lo, hi)
  IN IF id = hi /\ top # {} THEN Max(top) ELSE hi
MinAfter(left, id, lo, hi) ==
  LET low == Between(left, lo, hi)
  IN IF id = lo /\ low # {} THEN Min(low) ELSE lo

\* delete_bit() with data_slots already counted down to n.
DeleteBit(id, n) ==
  LET left == bits \ {id}
      max == MaxAfter(left, id, data_slots_min, data_slots_max)
  IN /\ bits' = left
     /\ data_slots_max' = IF n = 0 THEN 0 ELSE max
     /\ data_slots_min' = IF n = 0 THEN 0 ELSE MinAfter(left, id, data_slots_min, max)
     /\ UNCHANGED bits_capacity

\* The index of the last entry for the one after it.
EndAfter_Last(d, i, n) ==
  LET below == {j \in DOMAIN d : j < data_slots_end - 1}
  IN IF n # 0 /\ i = data_slots_end - 1 /\ below # {} THEN Max(below)
     ELSE data_slots_end

\* An emptied array ends at 0.
EndAfter_Zero(d, i, n) == IF n = 0 THEN 0 ELSE data_slots_end

\* data_slots_end once the entry at i is gone from d.
EndAfter(d, i, n) ==
  LET below == {j \in DOMAIN d : j < data_slots_end - 1}
  IN IF n = 0 THEN 1
     ELSE IF i = data_slots_end - 1 /\ below # {} THEN Max(below) + 1
     ELSE data_slots_end

\* The next entry is moved whatever its home is.
PullHome_Next(d, home, n) ==
  LET next == Window(home, DataHashLen(n)) \cap DOMAIN d
  IN IF hash_disabled \/ next = {} THEN d ELSE SwapSlots(d, home, Min(next))

\* The first slot behind the freed home slot whose id has that home is moved there.
\* The id of an empty slot is INVALID_SLOT_ID, which can have that home too.
PullHome(d, home, n) ==
  LET same == {i \in Window(home, DataHashLen(n)) : Home(IdAt(d, i)) = home}
  IN IF hash_disabled \/ same = {} \/ Min(same) \notin DOMAIN d THEN d
     ELSE SwapSlots(d, home, Min(same))

\* try_shrink(): too few entries for the hash.
Shrinks(n) ==
  /\ n # 0
  /\ (hash > 150 /\ hash > 4 * n) \/ (hash > 50 /\ hash > 10 * n)
  /\ 2 * n < MAX_HASH

\* The slots once id is taken out and another entry was moved to its home slot.
Without(id) == Restrict(data, DOMAIN data \ {DeleteIndex(id)})
Moved(id) ==
  IF DeleteIndex(id) = Home(id) THEN PullHome(Without(id), Home(id), data_slots - 1)
  ELSE Without(id)

Delete(id) ==
  /\ DeleteIndex(id) # Nowhere
  /\ LET n == data_slots - 1
         moved == Moved(id)
         end == EndAfter(Without(id), DeleteIndex(id), n)
         len == IF hash_disabled THEN hash ELSE DataHashLen(n)
     IN /\ data_slots' = n
        /\ DeleteBit(id, n)
        /\ IF Shrinks(n)
           THEN Become(Rehash(moved, len, data_capacity, end, 2 * n, hash))
           ELSE /\ data' = moved
                /\ data_slots_end' = end
                /\ UNCHANGED <<hash, hash_disabled, data_capacity, fate>>

\* The array is dropped and a new one made.
Drop ==
  /\ hash' = 1 /\ hash_disabled' = FALSE
  /\ data' = <<>> /\ data_capacity' = 1
  /\ data_slots' = 0 /\ data_slots_end' = 1
  /\ data_slots_min' = 0 /\ data_slots_max' = 0
  /\ bits' = {} /\ bits_capacity' = 1
  /\ UNCHANGED fate

\* get_(id): the index of the slot it returns.  Indexed by id, a search for an absent
\* id may read behind the last slot; it is taken to find nothing there.
Get(id) ==
  LET at == {i \in {Home(id)} \cup Reach(id) :
               i < DataHashLen(data_slots) /\ IdAt(data, i) = id}
  IN IF id < hash THEN id ELSE IF at = {} THEN 0 ELSE Min(at)

\* set(id) moves the occupant of slot id out of reach of its own home slot.
Displaces(id) ==
  /\ ~hash_disabled /\ ~AtHome(id) /\ ~HomeFree(id)
  /\ Packed(id) = {} /\ Holes(id) # {} /\ id < hash
  /\ Min(Holes(id)) >= Home(data[id].id) + MAX_COLLISION_PACK_DISTANCE

\* delete(id) empties the home slot of an entry that it leaves where it is: id was
\* packed there, or the entry that is moved to the freed home slot was, or an empty
\* slot was moved there.
Orphans(id) ==
  /\ DeleteIndex(id) # Nowhere /\ ~Shrinks(data_slots - 1)
  /\ LET left == DOMAIN Moved(id)
     IN \E j \in left \ {DeleteIndex(id)} : Home(data[j].id) \in DOMAIN data \ left

Set(id, val) ==
  \/ UpdateFast(id, val) \/ UpsertHashDisabled(id, val)
  \/ Insert(id, val) \/ UpdatePacked(id, val)
  \/ InsertPacked(id, val) \/ InsertRehash(id, val) \/ InsertPanic(id)

Next ==
  /\ fate = "ok"
  /\ \/ \E id \in Ids :
          \/ /\ \E val \in Vals : Set(id, val)
             /\ sound' = (sound /\ fate' = "ok" /\ ~Displaces(id))
          \/ /\ Delete(id) \/ DeletePastEnd(id)
             /\ sound' = (sound /\ fate' = "ok" /\ ~Orphans(id))
     \/ Drop /\ sound' = TRUE

Spec == Init /\ [][Next]_vars

-----------------------------------------------------------------------------
(* Properties *)

TypeOK ==
  /\ hash \in 1 .. U16_MAX /\ hash_disabled \in BOOLEAN
  /\ \A i \in DOMAIN data : data[i] \in Entries
  /\ data_capacity \in Capacities
  /\ data_slots \in 0 .. U16_MAX - 1 /\ data_slots_end \in 1 .. U16_MAX
  /\ {data_slots_min, data_slots_max} \subseteq Ids \cup {0}
  /\ bits \subseteq Ids /\ bits_capacity \in {2 ^ k : k \in 0 .. 10}
  /\ fate \in {"ok", "panic", "hang", "undefined"} /\ sound \in BOOLEAN

\* Unless a call misplaced one, every entry is in reach of its home slot, which is
\* slot 0 or occupied, and one with an id below the hash is at home: then set() finds
\* it, and so do first_() and get_(), which look for such an id in no other slot.
Probeable == sound =>
  \A i \in DOMAIN data :
    LET home == Home(data[i].id)
    IN /\ i \in home .. home + MAX_COLLISION_PACK_DISTANCE - 1
       /\ home = 0 \/ home \in DOMAIN data
       /\ data[i].id < hash => i = home

\* The bit set, the count and the least and greatest id agree with the slots: no
\* id has two.
CountsAgree == sound =>
  LET ids == {data[i].id : i \in DOMAIN data}
  IN /\ bits = ids
     /\ data_slots = Cardinality(DOMAIN data) /\ data_slots = Cardinality(ids)
     /\ data_slots_min = IF ids = {} THEN 0 ELSE Min(ids)
     /\ data_slots_max = IF ids = {} THEN 0 ELSE Max(ids)
     /\ data_slots_max \div BITS_SIZE < bits_capacity

\* The entries are below data_slots_end, so that a rehash moves and Drop drops all
\* of them, and these are within the allocation.
Covered == sound =>
  /\ DOMAIN data \subseteq 1 .. data_slots_end - 1
  /\ data_slots_end <= DataLen /\ DataLen <= data_capacity

\* The ids a lookup finds.
Stored == {id \in Ids : IdAt(data, Get(id)) = id}

\* What stops a call of a sound array: a rehash ends unless an id was stored twice,
\* push() fails its assertion only on an array emptied by delete(), and slots behind
\* the last are searched only with ids as indices, by a delete() of an id not stored.
StopCauses == [][
  /\ fate' = "hang" => ~sound
  /\ fate' = "panic" /\ sound => data = <<>>
  /\ fate' = "undefined" /\ sound => \E id \in Ids \ Stored : DeletePastEnd(id)]_vars

\* While sound, set, delete and get_ are those of a map from ids to values.
Map == INSTANCE IdMap WITH
  contents <- [id \in Stored |-> data[Get(id)].val]
ImplementsIdMap == Map!Spec

\* delete() finds every id of a sound array but the multiples of the hash: their home,
\* slot 0, is always empty, and delete() gives up at an empty home slot.
DeleteFinds == sound =>
  \A id \in Stored : DeleteIndex(id) # Nowhere \/ Home(id) = 0
=============================================================================
