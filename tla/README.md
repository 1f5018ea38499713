# A TLA+ model of rust-ivec

`rust-ivec` is a small library of data structures made for a game engine: four
that are shared by threads without a global lock (`SyncVec`, `SyncSlotMap`,
`IVec`, `SyncMap`) and two that belong to one thread (`SparseArray` over
`RawVecU16`), with iterators that walk several vectors together. This directory
models the shared ones access by access and the sparse array call by call, checks
them with TLC on small instances and proves, with TLAPS for every instance,
what they promise.

## The system

| Component | Source | State | Operations | Module |
| --- | --- | --- | --- | --- |
| `SyncVec` | `sync_vec.rs` | linked chunks with `raw_len` (claimed), `len` (written), cells; `entries_size` of the root | `push`, `get`, `get_unchecked(_ptr)`, `chunks`, `reset`, `Drop` | `SyncVec`, `TicketVec`; `SyncVecProofs` |
| `ZipRangeIterator`, `ChunksIterator` | `sync_vec.rs` | a range of indices of several vectors, cut at chunk borders; a chunk and a count of entries for each | `add`, `next`, `progress`, `complete` | `ZipRange`, inside `SlotMap`; `ZipRangeProofs` |
| `SyncSlotMap` | `sync_slot.rs` | slots in a `SyncVec`, two `SyncVec`s of free keys, which of them is loaded from, two counters each | `push`, `delete`, `get_free_key` | `SlotMap`, `KeyedStore`; `SlotMapProofs` |
| `IVec` | `sync_ivec.rs` | `root` of a chain of immutable sorted snapshots, `need_disposing` | `get`, `get_or_insert`, `clear_prev_snapshots`, `dispose`, `Drop` | `IVec`; `IVecProofs`, `ExtremaProofs` |
| `SameValIter` | `sync_ivec.rs` | cursors into the snapshots of several `IVec`s, the range of ids left to try | `add`, `next`, `progress`, `complete_is_valid` | `SameValIter`; `SameValIterProofs`, `ExtremaProofs` |
| `SyncMap` | `sync_map.rs` | `read` and `write` hash maps, a state byte per key of `read`, `need_disposing` | `get`, `set`, `delete`, `apply_updates`, `dispose` | `SyncMap`, `AtomicMap`; `SyncMapProofs` |
| `FrameDisposable` | `disposable.rs` | a list (`SyncVec<DisposeItem>`) of what to dispose at the end of a frame | `dispose` | in `IVec`, `SyncMap` |
| `SparseArray` | `sparse_array.rs` | open-addressing array with a prime modulus, bit set of ids, least and greatest id | `set`, `delete`, `get_`, `rehash_data`, `try_shrink`, `Drop` | `SparseArray`, `IdMap`; `SparseArrayProofs`, `ExtremaProofs` |
| `RawVecU16` | `raw_vec_u16.rs` | pointer with 16-bit length and 8-bit capacity exponent | `push`, `resize_with`, `from_vec` | inside `SparseArray` |
| `primes_u16` | `primes_u16.rs` | a table | none | a set in `SparseArray` |

How they interact. `SyncSlotMap` keeps its slots and its free keys in `SyncVec`s
and walks them with `ZipRangeIterator`, which callers also use to walk several vectors
at once, as they do with `SameValIter` for `IVec`s. `IVec` and `SyncMap` push themselves to
a `SyncVec<DisposeItem>` the first time they change in a frame; whoever runs
the frame calls `dispose()` on every entry when no other thread uses the
structures, and resets the list. Nothing is persisted and nothing is sent: the
hard behaviours are interleavings of single atomic accesses, values that are
stale when used, counters updated apart from what they count, and ownership of
memory across lost `compare_exchange`s.

What makes each correct:

* `SyncVec`: a cell belongs to one push; a cell below `size()` that is not
  written is about to be, so that once all pushes returned the items are a prefix
  without a hole; `get` of a settled index follows no null pointer and finds an item,
  its own (which the code misses, see below); `Drop` runs exactly the destructors due.
* `ZipRangeIterator`: all vectors are looked at in the same indices, none of the
  range is left out, and the chunk of each is there.
* `SyncSlotMap`: a key is held by one caller at a time, reused only after its
  item was taken out, and not lost; `delete` returns the item of its key.
* `IVec`: no insert is lost, an item never changes once published, every
  snapshot is freed and every object dropped once; a thread starts over only
  when another got ahead.
* `SameValIter`: exactly the ids the snapshots have in common, and it ends.
* `SyncMap`: gets and sets are atomic; no change misses the end of its frame.
* `SparseArray`: an id that was set is found by `get_`, `set` and `delete`, and has one
  slot; count, end, bit set, least and greatest id agree with the slots.

## Modules and the code

Each action is one access to shared memory (one atomic instruction, or one
critical section of the `RwLock`), named for the step of the function it is; a
thread's `pc` says which access it makes next and its locals are kept in
functions of the thread. Memory orders are not modelled: the model is
sequentially consistent. The code pairs its counters with Acquire and Release;
whether each pair is strong enough is not answered here. Operations whose
contract is exclusive access (`reset`, `clear_prev_snapshots`, `dispose`,
`apply_updates`, `delete` of `SyncMap`, destructors) are one action, enabled
when no thread is inside a call.

**SyncVec.** Chunks are numbered by their place in the list. `push` is
`PushStart`, `LoadRaw`, then `NextChunk`, `MissChunk`, `LinkChunk` while the
loaded `raw_len` says the chunk is full, then `Claim` (the `fetch_add`), and
either `Undo` (the `fetch_sub`) and again, or `Write`, `PublishLen`,
`PublishSize`. `get` is `GetStart` (the check against `size()`), `RootLen`,
`GetNext`, `GetFound`, `Read`. `IterSet` is what `chunks()` walks, `DropSet` what
`Drop` drops. The history variables `settled` and `sure` record which indices
were readable when no push was in flight.

**TicketVec** is the abstract `SyncVec`: positions are taken in order, filled
once, announced when filled. `ImplementsTickets` is the refinement.

**ZipRange.** The vectors grow meanwhile by what `TicketVec` says of them: `Claim`
and `Announce`. `Add` narrows the range by one load of the size, `Chunks` is the
second load in `chunks()`; the caller gives any minimum and maximum. `NextCut` is
`next` of the iterator, `NextChunk` one call of `ChunksIterator::next`, of which
`progress` makes several for the first cut. It follows the `next` pointer loaded with the
chunk before, which may have been null then: `NextChunk` has that outcome (`null`),
and the `unwrap` of an iterator at its end (`panic`). `Visit` is the caller's use of the
indices `Complete` names.

**SlotMap.** The free vectors are used through what `TicketVec` says of them: claim a
position, write it, announce it (`Append`, `AppendWrite`, `AppendAnnounce`). The vector
of slots is also read by index, and `get_unchecked_ptr` finds the chunk of an index by a
walk that other pushes can mislead. So its `push` is there access by access, as in
`SyncVec` (`LoadSlots`, `ClaimSlot`, `UndoSlot`, `FillSlot`, `CountSlot`, `AnnounceSlot`), and
so is the walk: `Reach` is one load of `len` or `raw_len` (`Loaded`) with what the loop
condition makes of it (`Beyond`), until a cell is reached (`at`), for a reused key in
`ReachReused` and for a deleted one in `ReachDeleted`. `Reuse` and `Disable` work on the
cell reached, whosever it is. Chunks are claimed in order, as there are at least as many
cells in one as threads (see Bounds), so one counter of the claims and the threads about to take
one back (`Undoing`) give the `raw_len` of each; linking the next chunk is part of
`LoadSlots`. `KS` is the chunk size of the slots (1024).

The loop of `get_free_key` is `LoadKey` ... `Advance`, with `Swap`, `ResetLoad` and
`ResetStore` as three steps because the code makes them three; `delete` is
`DeleteStart` ... `CountKey`. `K` is the chunk size, the reach of the inner
`break`. Two loads in a row are one action in `RangeHi`, `CheckStore` and
`DRange`; everything else is one access. Callers hold keys in `held` and give a
key up when they delete it, as the type `SyncSlot` makes them. `KeySpace` is the
number of values of a `SyncSlot<N>`: the key of a slot behind it is cut to its low
bytes.

**KeyedStore** is the abstract `SyncSlotMap` for one caller: a store that chooses a
key nothing is stored under. It promises nothing once there are as many slots as
keys.

**IVec.** A snapshot is a function from ids to objects, so sorting is implicit;
what is returned by index is modelled by index (`Last`). `Build` is private work
and one action, `Switch` is the `compare_exchange` with both outcomes. Freed names
are reused at once, so an ABA on the root would be found.

**SameValIter.** The vectors are sets of ids to which `Insert` adds at any moment; `Add`
takes one's current snapshot. A cursor is the set of ids at and behind it, which is all
that the linear and the binary search of `progress` depend on. The vectors are asked in any
order (`Progress`), and once one lacks the id the others only skip (`ProgressSkip`). `Break` is
the caller's, `Reuse` a second round with the same iterator, whose bounds the code
resets only if the last round set `finished`.

**SyncMap.** `readVal` and `readState` are the read map, `write` the write map
with `None` for a recorded deletion. **AtomicMap** is the map it implements:
each call takes effect at once between its start and its return, and the end of
a frame changes nothing a caller sees.

**SparseArray.** One thread owns the array, so an action is a call: `set` is the
disjunction of its seven ways out (`UpdateFast`, `UpsertHashDisabled`, `Insert`,
`UpdatePacked`, `InsertPacked`, `InsertRehash`, `InsertPanic`), `delete` is `Delete` with
`DeleteBit`, `EndAfter`, `PullHome` and the shrink. `data` has the occupied slots only.
`Rehash` is `rehash_data`: `Layout` looks for the prime for which `Collect` places every
id (`Attempt` is one prime), `VisitAll`, `Settle` and `Turn` are the loop over the
indices, the swap loop for one of them and one turn of it. Loops are folds over sets of
indices (`Loop`) and a recursive function (`Layout`). The words of the bit set are the set of ids in
them. `PushCapacity` and `ResizeCapacity` are the capacities `RawVecU16` leaves, a
power of two or 65535. A call can stop the program, which `fate` records: `panic` is the failed
assertion of `RawVecU16::push`, `hang` the swap loop given one id twice,
`undefined` a search that reads slots behind the array while hashing is
disabled. `get_` past the end only reads, and is taken to find nothing there.

Legal calls can misplace an entry, so that it is no longer found, and a later
`set` stores its id a second time. The history variable `sound` says that this did
not happen since the array was made. Exactly two things clear it besides the
end of the program, and the invariants, stated for sound arrays, show that
there is no third:

* `Displaces`: `set` of an id below the hash takes its home slot and moves the
  occupant to the free slot in its own reach, which may be out of the occupant's.
* `Orphans`: `delete` leaves the home slot of another entry empty, because the
  deleted entry was packed there, because the empty slot behind it was moved
  there (the id of an empty slot is 65535, and 65535 modulo the hash can be the home), or
  because the entry moved to the freed home slot was itself packed in the home
  slot of a third.

The last of these is a result of the proof: it did not go through with the first two
alone, and the state it got stuck in is real. After `set` 4, 1 and 5 on a new array the
hash is 3 and slots 1 to 3 hold 1, 4 and 5: 4 was evicted from its home slot to that of 5.
`delete` 1 then pulls 4 back to slot 1, slot 2 is empty, and 5 in slot 3 is not found
by `delete` any more and stored a second time by `set`.

**IdMap** is the map from ids to values a sound array implements. It promises
nothing of an unsound one until it is dropped.

The operators with a suffix (`Claim_StaleLoad`, `Switch_Leak`, ...) are
defective variants of the action after the underscore. No specification uses
them: each shows that a property would notice that mistake.

## Runs

`tlc -workers 2 -config X.cfg MCxxx.tla`

| Config | Module | Question | Expected |
| --- | --- | --- | --- |
| `syncvec` | `MCSyncVec` | `SyncVec`'s safety, that `raw_len` never wraps, its refinement and that calls return, 2 threads, 4 chunks of 2 | pass |
| `syncvec_get` | `MCSyncVec` | `get(i)` returns item `i` | violated |
| `ziprange` | `MCZipRange` | zipped walks of growing vectors: same indices, none left out, no chunk missing, the walk ends | pass |
| `slotmap` | `MCSlotMap` | two threads: keys unique, live items not overwritten while the slots are in one chunk | pass |
| `slotmap_walk` | `MCSlotMap` | `delete` takes no item of a key somebody else holds, slots of several chunks | violated |
| `slotmap_seq` | `MCSlotMap` | one thread: no key lost, a keyed store, calls return, past the last key too | pass |
| `slotmap_chunks` | `MCSlotMap` | a key is handed out once, many chunks | violated |
| `slotmap_fresh` | `MCSlotMap` | `delete` returns the item of the key, two threads | violated |
| `ivec` | `MCIVec` | snapshots, objects and inserts accounted for, what calls return, no retry in vain, 3 threads, cleared, disposed or dropped | pass |
| `sameval` | `MCSameValIter` | walks of 3 vectors that grow: the ids in common, early ends, reused iterators | pass |
| `syncmap` | `MCSyncMap` | atomic gets and sets, no forgotten change, when `delete` takes effect, 3 threads | pass |
| `sparse` | `MCSparseArray` | a sound array is a map, its counters agree, what `delete` finds, what stops a call | pass |

The violated ones are disagreements between the code and what its own comments
and tests say; `PROJECT.json` quotes each under `findings`:

* `get` of an index in the third or a later chunk, while a push has over-claimed the
  chunk before it, stops one chunk early and returns item `i - N`: the walk compares
  the index with a sum of `raw_len`s, which that push is about to lower again.
* The same walk in a slot map with a second chunk of slots stops in the root as long as the
  push of the last root slot has not counted it in `len`: `delete` then takes the item of
  another key, which its owner still holds. The slot a `push` writes for a reused key is reached by
  the same walk.
* Two first-time pushes to a slot map can swap keys.
* With more than one chunk of free keys, `delete` stores its key once per chunk.

Met on the way. The first three are the exact exceptions of a property that
otherwise holds:

* `get_or_insert` returns the item at index `root.len` of the snapshot it has sorted
  (`sync_ivec.rs:216`): the greatest one, which is the inserted one only if the new id is
  the greatest (`ReturnsItem`). It takes no second thread: inserting 2 and then 1 returns item 2.
* `delete`, `set`, `delete` of a key of a `SyncMap` in one frame leaves the value: the
  state stays `Deleted` (`DeleteTakesEffect`).
* An id that is a multiple of the hash of a `SparseArray` is packed in slot 1 to 4,
  since slot 0 is never used, and `delete` gives up at its empty home slot: it can
  be read and updated but not deleted (`DeleteFinds`).
* `get(i)` of a `SyncVec` with `i < size()` can reach a cell another push claimed but
  has not written, since `size` counts finished pushes. `HolesOwned` says that this
  push writes it next.
* A push to a slot map stalled between the swap of the free vectors and the reset
  of the counter makes every key freed meanwhile unfindable, while
  `sync_slot.rs:217` speaks of one.
* A slot map with as many slots as keys goes on: the next slot gets the invalid
  key 0 and later ones the keys of others. `KeyUnique`, `NoKeyLost` and `KeyedStore` end there.
* Two first sets of a frame at once register a `SyncMap` twice, although
  `sync_map.rs:224` says "request disposing once". It is harmless, the second drain
  is empty; `TypeOK` bounds the entries by the number of threads. `IVec` does the
  same.
* A `SameValIter` used again keeps the bounds of a round that was left by `break` or
  went past its greatest id, and may then yield too little; `fresh` marks the
  rounds without such a rest. An empty vector next to one that is not makes `progress` panic.
* What clears `sound` in `SparseArray`, and its consequence, a rehash that never ends.
* A `SparseArray` emptied by `delete` keeps its allocation, and the next `set` that has to
  rehash fails the assertion of `push` (`StopCauses` shows that nothing else does).

`NoKeyLost` and `ImplementsKeyedStore` hold for one thread only, and are proved for that. `KeyUnique` holds for
two, with the free vectors within one chunk (512 keys). `WritesDisabledSlot` holds for two
while the slots are in the root chunk (1024), where `get_unchecked_ptr` needs no walk (`InRoot`).

### Bounds

Every bound is a constant. `MaxChunks` 4 and `MaxPushes` 7 in `syncvec` fill three
chunks and reach the fourth, so a walk passes chunks that are full, over-claimed or new.
`N` = 2 is the number of threads; a smaller chunk is a case of its own, in which a
push that reads an overshot `raw_len` skips whole chunks and positions are not given
out in order. `N` is 64 to 1024 in the code. `HolesOwned`, `StableGet` and
`ImplementsTickets` are stated for chunks of at least as many cells as threads;
cells are exclusive and drops exact for all, which the proofs show. The number of values of the `u16` counters is the constant
`U16`: 5 in `syncvec`, the least that `ConstAssumption` allows for two cells and two threads, so
that one over-claim too many would wrap, and 65536 in `syncvec_get`. In the slot map `MaxItems` 4 and `MaxSwaps` 6 let each of
the two free vectors be filled, drained, swapped and refilled while a thread
sleeps at any access; three
slots in a chunk let the last of the four be in the second one, two in `slotmap_seq` and `slotmap_walk`
let walks leave the root; a key space of 256 is not exhausted there, that of 4 in
`slotmap_seq` is, by its fifth item. `slotmap_chunks`
takes one cell per chunk and one thread, so several chunks appear after three
deletes. In `IVec` two ids and
three threads give every combination of winners and losers and a chain of old
snapshots; a vector's life makes at most ids times threads objects, and `Drop` is
bounded so that they fit: 7 objects allow one dropped vector and a second life,
and no call is ever stopped by a bound. In `SameValIter` three vectors are the
fewest of which one can lack an id between two that have it, and three ids give a
first, a middle and a last one; 1, 3 and 5 leave gaps, so that an id nobody has
would be noticed. Rounds and reuses are not bounded. `ziprange` has up to three
chunks of two cells, so that a range can start and end inside, at and behind a border, and
its first cut may need any number of calls of `ChunksIterator::next`. In `SyncMap` 4 sets over
two keys by three threads make overlapping sets on a stable, an updated and a
deleted key, with any number of frames. Two deletes of a key in a frame (`MaxDeletes`) are the
fewest between which it can be set again.

`SparseArray` has no bound but its ids: every sequence of calls on them is
explored. `sparse` takes 6 for `MAX_HASH` (5000 in the code), so that the primes are 2, 3 and 5
and the next one disables hashing, and five ids reach what thousands do in the code:
packed slots, an evicted occupant, several primes in a row without a layout, hashing
disabled, growth by id to 256 slots, and the shrink back to a hash. 30 and 90
are multiples of all three primes, so they are packed without a home slot, and 90 is
in another word of the bit set; 1 and 4 collide modulo 3 and 5 is packed
behind them. A shrink from one prime to another
needs a hash above 50 and is not reached.

Deadlock is checked in every run but `sparse`, where a call that panics or does
not return ends the program: a thread that has used up a bound can still look
something up or delete an invalid key.

### Fairness

`CallsReturn` is checked under `FairSpec` in `syncvec` and `slotmap_seq`: weak fairness of the steps *inside* a call, one
condition per thread, which is what an operating system's scheduler gives.
Nothing makes a thread start a call, and no fairness is asked of `reset`,
`dispose` or `Drop`. Calls are finite because their number is bounded, so the
lock-free retries (`Undo`, `Swap`) cannot be starved by an endless stream
of other calls: the runs show that no thread spins by itself or with others
that spin, not that the structures are wait-free. How long `get_or_insert` of `IVec` can
be kept is said without fairness by `LossMeansProgress`: every loss is another's insert,
and ids are finite.

`RoundEnds` and `WalkEnds` assume that the caller's loop over an iterator goes on until
`None`, and nothing of the threads that push or insert meanwhile: `Break` and a new
round are not fair.

## Proofs

Every theorem holds for all values of the constants that satisfy the module's
assumption: any finite set of threads, vectors, keys or ids, any chunk size and
any bound. Each proof module states an inductive invariant as a conjunction of
named parts, has a lemma per action or kind of action, and derives the
properties from the invariant. TLC checked each of these invariants on the
runs' instances before it was proved.

**SyncVecProofs** (`ConstAssumption`: `N + Cardinality(Threads) < U16`, so the claims in
flight fit the `AtomicU16`) has three invariants, each built on the one before.

* `SlotInv` (`Invariance`), of which `TypeOK` is the first conjunct, gives `TypeCorrect`,
  `NeverWraps` (`NoWrap`: the actions compute modulo `U16`, but no claim reaches it and no
  undo is below 0) and `ExclusiveWrites` (`SlotExclusive`). `SlotExclusive` needs to know that a
  `fetch_add` below `N` returns an index nobody has, in spite of other threads'
  `fetch_sub`s. The argument is `Overshoot`: `raw_len` of a chunk is above `N` only
  by the claims still to be taken back, so a `fetch_sub` never brings it below
  `N`, and below `N` it only grows. As each thread owes at most one, it never reaches
  `U16`. With `FilledClaimed` and `OwnedClaimed` the next
  claim is a new cell; `Reachable` keeps `chunk_idx` inside the list.
* `ItemInv` (`ItemInvariance`) counts: every claimed cell is written or about to be
  (`ClaimsWritten`), `len` of a chunk plus the pushes about to count is the number of
  its items (`LenCounts`), `entries_size` likewise (`SizeCounts`). It gives `DropsExactly`
  (`DropExact`) and `NextNotNull`: the loop of `get_unchecked_ptr` never follows a null
  pointer, for any number of threads and any chunk size.
* `OrderInv` (`OrderInvariance`) says that chunks fill up one after the other
  (`InOrder`) and what a walk relies on (`WalkOf`, `GetOf`). It gives `NoHoles`
  (`HolesOwned`), `GetsAnItem` (`StableGet`) and `Refinement` (`ImplementsTickets`, every step
  is a step of `TicketVec` or a stutter). These assume `FewThreads`, chunks of at least as
  many cells as threads: then an over-claimed `raw_len` is below `2 * N`, so that it
  never says that the next chunk is full too. With more threads than cells, pushes
  skip chunks and the three do not hold. The code's chunks have 64 to 1024 cells.

**SlotMapProofs** (`Threads` finite and no more than the slots of a chunk) has three invariants as well, and one for a single
caller.

* `IInv` (`Invariance`): with `Fits` a swap only follows a load of the vector behind, so
  `idx` grows. With `Budget` each slot and each cell of a free vector that is claimed is
  paid for by a push of its own: a push still looking, a key held or a call that carries one
  is what a claim uses up. This bounds every vector by the number of items ever
  pushed, and gives `TypeCorrect`.
* `KeyInvariant` (`KeyInvariance`): a key is at most in one place, a pair held, a call or
  a cell, and is that of an announced slot (`Sole`). `LookupKeys`, `PushKeys` and
  `DeleteKeys` say of each step that no key gets anywhere new (`KeysStay`), one moves
  (`MovesKey`) or the next one is added (`AddsKey`). The `compare_exchange`s make the moves
  into a call and out of it: the key that was seen is the key that is taken. It gives
  `KeysUnique` (`KeyUnique`).
* `SlotInvariant` (`SlotInvariance`): the slot of a `Loose` key, in a free cell or carried by
  a call past `enabled`, is disabled and nobody is about to fill it (`Freed`), and
  new slots are filled once (`Fills`). A delete that finds its slot enabled knows that
  nobody is about to fill it: the slot of such a push is disabled. All of this needs
  calls to work on the slot of their key (`Exact`), which no counter can spoil while the slots are
  in the root chunk: `AtHome` says that no walk leaves it. What is inductive is therefore
  `RootInvariant`, that both hold while `InRoot` does, and slots that are in the root were there
  before. It gives `SlotsNotOverwritten` (`WritesDisabledSlot`), which says nothing of a
  map that has got more than 1024 slots: `slotmap_walk` shows why.
* `OneInvariant` is for one caller (`OneCaller`). `Vectors` says where the keys are: those of
  the vector loaded from are the cells from `load_iter` to `store_iter`, those of the other its
  first `store_iter` cells, give or take the one a call has moved and not counted
  (`Taken`, `Stored`), and a swap exchanges the two. `Looks` and `Puts` say that the numbers a
  call has read are still true: a lookup takes the first cell it looks at and a delete fills
  the first it scans or appends, so the branches for keys or cells lost to others (`skip`,
  `dsame`, `dskip`) are never entered. With that, keys held, free and in hand are as many as
  slots (`Accounted`), where a delete must not find its slot disabled, as it would drop the
  key. The walk of a single caller is exact in any number of chunks, because no other push has
  claimed and not counted (`Walks`: `len` of the root is what has been claimed of it, and
  `raw_len` of later chunks never above `KS`); so the slot of a key that is held has its item (`Stores`). It gives `NoKeyIsLost`
  (`NoKeyLost`) and `Refinement` (`ImplementsKeyedStore`): an item appears in the store when its
  slot is written, at `Reuse` or `FillSlot`, and goes when `enabled` is cleared.

`KeyInvariance` is proved from `[]OneChunk`, the free vectors have at most `K` cells, which
is where a delete that found a cell must stop (`Scans`). Beyond it the `break` leaves
a key in two cells, as `slotmap_chunks` shows. `SlotInvariance` needs `[]Nameable`, too:
after that keys repeat by construction, and `OneInvariant` says less: `Accounted` and `Stores`
hold while `Nameable` does, and so does `Walks`, and the store promises nothing after it. These are about the states passed
through, not about the constants: a map may hold any number of items as long as
neither free vector has got more than 512 cells, `SlotsNotOverwritten` apart.

**SyncMapProofs** (`Threads` finite and not empty): `IInv` says who may be between the
check of `need_disposing` and the registration (`RegisteredOnce`: entries plus those
about to register never exceed the threads), that whatever a frame changes was
requested first (`Requested`), how state byte and maps go together (`Entries`), and that
a key that is still `Stable` in spite of a new value has a set about to mark it
(`InTransit`). It gives `TypeCorrect`, `NothingForgotten` (`NoUpdateForgotten`), `DeleteEffective`
(`DeleteTakesEffect`) and `Refinement` (`ImplementsAtomicMap`). The linearization point of
a set is where its value becomes visible: at the insert or, if the key is still
`Stable` then, where some set marks the key, with which all sets waiting for the mark
take effect (`SetsTakeEffect`, `CallRefines`).

**IVecProofs** (room for the snapshots and objects of calls in flight, see Bounds): in
`IInv`, `SnapshotsAccounted` says where every snapshot is, `Ordered` that the published
ones have each its own number of ids, the root the most, so none can come back as
an old pointer (no ABA), `Copies` what a private copy is made of, `Owned` where each
object is, `Registering` who is about to register. `Budget` is why `MaxObjects`
is enough: a thread makes at most one object per number of ids. `Chain`, the
snapshots behind a root, is the least set closed under `prev`; `BehindClosed`,
`BehindLeast` and `BehindNew` are the facts about it that replace an induction. It
gives `TypeCorrect`, `NoSnapshotLost` (`SnapshotsAccounted`), `ObjectsDroppedOnce`
(`DroppedOnce`), `StaleRegistered` (`StaleIsRegistered`), and the action properties
`LossIsProgress` (`LossMeansProgress`) and `InsertedStay` (`InsertedForever`).
`ReturnsAnItem` (`ReturnsItem`) has an invariant on top, `ReturnInv`: the published snapshots
have the items of the root (`Agree`), so an item found in an old one is that of the root,
and stays it while others switch the root (`ResultKept`).

**ZipRangeProofs** (`N` > 0): `IInv` relates each `ChunksIterator` to the chunks it has given
(`Iterators`) and the cut to what was visited (`Walk`). It gives `TypeCorrect`, `NoPanic`
(neither the `unwrap` nor a null `next` is reached), `AlignedWalk` (`Aligned`) and
`WalkedInvariance` (`WalkedSoFar`). It rests on non-linear facts about chunk borders
(`ChunkOf`, `BorderNext`, `EndIsBorder`).

**SameValIterProofs** (ids are numbers): `Between` and `Within` say which common ids have
been yielded and that no cursor has passed one that has not, while the vectors
grow. It gives `TypeCorrect`, `YieldsInOrder` (`YieldedSoFar`) and `RoundsComplete`
(`RoundComplete`). **ExtremaProofs** has the least and greatest of finite sets
of numbers for it, for `IVec` and for `SparseArray`.

**SparseArrayProofs** (`SparseAssumption`: ids are non-zero and below 65535, a greatest
hash of at least 2 leaves room for five more slots below 65535, as 5000 does; the primes go
up to twice that hash) proves every property of `sparse`, for any ids, values and
greatest hash. Besides `TypeOK`, `IInv` has two parts. `ShapeIs` is what every call keeps, sound or not: no entry in
slot 0 or behind `data_slots_end`, the count is the number of entries, with ids as indices each
entry is at its own, and how end, hash and capacity go together. While `sound`, `SoundOf` says
that no id has two slots (`Twice`), every entry is in reach of its home (`Near`), whose slot
is taken, and at home below the hash (`Probes`); and `BoundsAgree` that the bit set and
the least and greatest id are those of the entries. What the calls do to the entries, as a
set, is `Sets` and `Drops`; `SetStep` and `DeleteStep` say it of every call along with the
invariant, and so the refinement needs no argument of its own. It gives `TypesOK` (`TypeOK`),
`AlwaysProbeable` (`Probeable`), `AlwaysCounted` (`CountsAgree`), `AlwaysCovered` (`Covered`),
`DeleteAlwaysFinds` (`DeleteFinds`), `StopsExplained` (`StopCauses`) and `Refinement` (`ImplementsIdMap`).

The hard step is the rehash. Each of its loops is a fold over a set of indices, which
`CollectRuns`, `VisitRuns` and `SettleRuns` turn into a run, a function `f` with `f[n + 1]` made
of `f[n]`, so that an induction over how far the loop has come is one over numbers: `Climb`
of `ExtremaProofs` (a set of numbers that has 0 and the successor of each member has all), which
takes a set and no operator. `CollectsAll`: a collection that asks for no other hash
has every id once, in reach of its home. `LayoutIs`: the hash grows until one is
found or hashing is disabled, where every id finds its own slot. `SettleIs`: a swap puts one
more entry where it belongs and moves none that is there, so there are at most as many
turns as entries; `VisitAllIs`: in the end every entry is there. Only an id stored twice
stops that, for its two entries have one target (`RehashIs`, whose exceptions are those of
`StopCauses`).

Only model-checked:

* `CallsReturn`, `RoundEnds`, `WalkEnds`: liveness under fairness is beyond the prover.

## Not modelled

* Memory orders weaker than sequential consistency; poisoned locks; running out of
  memory.
* Panics of the caller's code: `init_data` of `get_or_insert`, which would leak the copy
  made, and destructors. `apply_updates` panics while an `Arc` from `get` lives and
  loses the rest of the drained map; that no `Arc` lives is its contract here.
* The exclusive-access contracts are assumed, not enforced: `reset` during a
  `push` is the caller's fault by the comments of the code.
* The layout of an `IVec` snapshot, computed in `f32` and so rounded above 2^24
  bytes: objects have no size here.
* A frame with several structures: each module carries its own entries of the list
  of the frame, `dispose` of one does not touch another, and the list itself is a
  `SyncVec` whose `push` and `reset` are modelled.
* `get_mut_` and `first_` of `SparseArray`, which read the slots `get_` reads
  (`Probeable` is what `first_` relies on).
* `chunks_size`, `root_values`, `memory_info`, `prefetch_read` are
  accessors without a state of their own.
* What two calls that work on one slot at once leave in it, where `slotmap_walk` lets that happen:
  the writes of `mem::replace` are single steps here. Linking a chunk of slots is part of
  `LoadSlots`; `SyncVec` has its races.
* The searches of `SameValIter::progress` are modelled by their result.

## Plan

Written, in this order: `SyncVec` with `TicketVec`, `SlotMap`, `IVec`, `SyncMap` with
`AtomicMap`, `SparseArray` with `IdMap`, then `ZipRange`, `SameValIter` and `KeyedStore`;
proved: `SyncVec`, `SyncMap`, `ZipRange`, `SameValIter`, `IVec`, `SlotMap`, `SparseArray`: every safety
property and every refinement the passing runs check. Liveness is left to TLC.
