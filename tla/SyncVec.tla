------------------------------ MODULE SyncVec ------------------------------
(***************************************************************************)
(* SyncVec<T, N>: a push-only vector kept as a linked list of chunks of N  *)
(* cells.  push() claims a cell with fetch_add on the chunk's raw_len,     *)
(* writes it, and only then counts it in the chunk's len and in the root's *)
(* entries_size.  get() and chunks() trust entries_size.  One action is    *)
(* one access to shared memory.                                            *)
(*                                                                         *)
(* Chunks are named by their position in the list: `linked` of them hang   *)
(* off the root through `next`, and an unlinked one is as freshly zeroed.  *)
(***************************************************************************)
EXTENDS Integers, FiniteSets

CONSTANTS
  Threads,    \* threads that push and read
  N,          \* cells of a chunk (const generic N)
  U16,        \* number of values of the AtomicU16 counters, 65536
  MaxChunks,  \* bound: chunks the allocator can provide
  MaxPushes   \* bound: items of the vector between two resets

ASSUME ConstAssumption ==
  /\ IsFiniteSet(Threads)
  /\ N \in Nat \ {0}
  /\ MaxChunks \in Nat \ {0}
  /\ MaxPushes \in Nat
  /\ U16 \in Nat
  /\ N + Cardinality(Threads) < U16

VARIABLES
  rawLen,       \* chunk -> claimed cells plus claims about to be taken back
  len,          \* chunk -> cells whose item is written
  linked,       \* chunks 0 .. linked-1 are reachable from the root
  entriesSize,  \* root_chunk.entries_size
  filled,       \* cells <<chunk, slot>> that hold an item
  pc,           \* thread -> the shared access it makes next
  ci,           \* thread -> chunk_idx of push and get
  raw,          \* thread -> raw_len of push, len of get
  slot,         \* thread -> free_index of push
  target,       \* thread -> index asked of get
  settled,      \* history: entries_size when no push was last in flight
  sure          \* history: the index asked of get was below settled then

shared == <<rawLen, len, linked, entriesSize, filled>>
locals == <<ci, raw, slot, target>>
history == <<settled, sure>>
vars == <<shared, pc, locals, history>>

Chunks == 0 .. MaxChunks - 1
Slots == 0 .. N - 1

PushPC == {"load", "walk", "link", "undo", "write", "len", "size"}
GetPC == {"rootlen", "getwalk", "read"}

\* Threads inside push().
Pushing == {t \in Threads : pc[t] \in PushPC}
\* Threads whose fetch_add found chunk c full and that still owe the fetch_sub.
Undoing(c) == {t \in Threads : pc[t] = "undo" /\ ci[t] = c}
\* No push is in flight.
Quiescent == Pushing = {}

Goto(t, from, to) ==
  /\ pc[t] = from
  /\ pc' = [pc EXCEPT ![t] = to]

\* The call returns: its locals are dead.
Return(t, from) ==
  /\ Goto(t, from, "idle")
  /\ ci' = [ci EXCEPT ![t] = 0]
  /\ raw' = [raw EXCEPT ![t] = 0]
  /\ slot' = [slot EXCEPT ![t] = 0]
  /\ target' = [target EXCEPT ![t] = 0]

Init ==
  /\ rawLen = [c \in Chunks |-> 0]
  /\ len = [c \in Chunks |-> 0]
  /\ linked = 1
  /\ entriesSize = 0
  /\ filled = {}
  /\ pc = [t \in Threads |-> "idle"]
  /\ ci = [t \in Threads |-> 0]
  /\ raw = [t \in Threads |-> 0]
  /\ slot = [t \in Threads |-> 0]
  /\ target = [t \in Threads |-> 0]
  /\ settled = 0
  /\ sure = [t \in Threads |-> FALSE]

-----------------------------------------------------------------------------
(* push *)

PushStart(t) ==
  /\ entriesSize + Cardinality(Pushing) < MaxPushes
  /\ Goto(t, "idle", "load")
  /\ UNCHANGED <<shared, locals, history>>

LoadRaw(t) ==
  /\ Goto(t, "load", "walk")
  /\ raw' = [raw EXCEPT ![t] = N * ci[t] + rawLen[ci[t]]]
  /\ UNCHANGED <<shared, ci, slot, target, history>>

\* Off by one: a chunk with one free cell counts as full.
Full_OffByOne(t) == raw[t] + 1 >= N * (ci[t] + 1)

\* The while condition of push; `raw` is not reloaded while it walks.
Full(t) == raw[t] >= N * (ci[t] + 1)

\* next is not null: step to it.
NextChunk(t) ==
  /\ Full(t)
  /\ ci[t] + 1 < linked
  /\ Goto(t, "walk", "walk")
  /\ ci' = [ci EXCEPT ![t] = @ + 1]
  /\ UNCHANGED <<shared, raw, slot, target, history>>

\* next is null: allocate a chunk for it.
MissChunk(t) ==
  /\ Full(t)
  /\ ci[t] + 1 = linked
  /\ Goto(t, "walk", "link")
  /\ UNCHANGED <<shared, locals, history>>

\* A plain store where the code has a compare_exchange: the winner's chunk is lost.
LinkChunk_Store(t) ==
  /\ Goto(t, "link", "walk")
  /\ linked < MaxChunks \/ ci[t] + 1 < linked
  /\ linked' = IF ci[t] + 1 = linked THEN linked + 1 ELSE linked
  /\ rawLen' = [rawLen EXCEPT ![ci[t] + 1] = 0]
  /\ len' = [len EXCEPT ![ci[t] + 1] = 0]
  /\ filled' = {e \in filled : e[1] # ci[t] + 1}
  /\ ci' = [ci EXCEPT ![t] = @ + 1]
  /\ UNCHANGED <<entriesSize, raw, slot, target, history>>

\* The compare_exchange of try_init_next_chunk: the loser frees its own chunk
\* and takes the winner's.
LinkChunk(t) ==
  /\ Goto(t, "link", "walk")
  /\ \/ /\ ci[t] + 1 = linked
        /\ linked < MaxChunks
        /\ linked' = linked + 1
     \/ /\ ci[t] + 1 < linked
        /\ UNCHANGED linked
  /\ ci' = [ci EXCEPT ![t] = @ + 1]
  /\ UNCHANGED <<rawLen, len, entriesSize, filled, raw, slot, target, history>>

\* A claim from the value loaded before, instead of from the fetch_add.
Claim_StaleLoad(t) ==
  /\ ~Full(t)
  /\ Goto(t, "walk", "write")
  /\ slot' = [slot EXCEPT ![t] = raw[t] - N * ci[t]]
  /\ rawLen' = [rawLen EXCEPT ![ci[t]] = raw[t] - N * ci[t] + 1]
  /\ UNCHANGED <<len, linked, entriesSize, filled, ci, raw, target, history>>

\* raw_len.fetch_add(1): the cell is this thread's unless the chunk filled up
\* since raw_len was loaded.
Claim(t) ==
  /\ ~Full(t)
  /\ rawLen' = [rawLen EXCEPT ![ci[t]] = (@ + 1) % U16]
  /\ \/ rawLen[ci[t]] + 1 > N /\ Goto(t, "walk", "undo") /\ UNCHANGED slot
     \/ /\ rawLen[ci[t]] + 1 <= N
        /\ Goto(t, "walk", "write")
        /\ slot' = [slot EXCEPT ![t] = rawLen[ci[t]]]
  /\ UNCHANGED <<len, linked, entriesSize, filled, ci, raw, target, history>>

\* The retry keeps the value loaded before: the same full chunk is tried again.
Undo_NoReload(t) ==
  /\ Goto(t, "undo", "walk")
  /\ rawLen' = [rawLen EXCEPT ![ci[t]] = (@ - 1) % U16]
  /\ UNCHANGED <<len, linked, entriesSize, filled, locals, history>>

\* The claim is made again at once, and the one before is not taken back.
Undo_Again(t) ==
  /\ Goto(t, "undo", "walk")
  /\ UNCHANGED <<shared, locals, history>>

\* raw_len.fetch_sub(1), then again from the same chunk.
Undo(t) ==
  /\ Goto(t, "undo", "load")
  /\ rawLen' = [rawLen EXCEPT ![ci[t]] = (@ - 1) % U16]
  /\ UNCHANGED <<len, linked, entriesSize, filled, locals, history>>

Write(t) ==
  /\ Goto(t, "write", "len")
  /\ filled' = filled \cup {<<ci[t], slot[t]>>}
  /\ UNCHANGED <<rawLen, len, linked, entriesSize, locals, history>>

\* The item is counted in the root chunk whatever chunk holds it.
PublishLen_Root(t) ==
  /\ Goto(t, "len", "size")
  /\ len' = [len EXCEPT ![0] = @ + 1]
  /\ UNCHANGED <<rawLen, linked, entriesSize, filled, locals, history>>

PublishLen(t) ==
  /\ Goto(t, "len", "size")
  /\ len' = [len EXCEPT ![ci[t]] = @ + 1]
  /\ UNCHANGED <<rawLen, linked, entriesSize, filled, locals, history>>

PublishSize(t) ==
  /\ Return(t, "size")
  /\ entriesSize' = entriesSize + 1
  /\ settled' = IF Pushing = {t} THEN entriesSize + 1 ELSE settled
  /\ UNCHANGED <<rawLen, len, linked, filled, sure>>

-----------------------------------------------------------------------------
(* get, and get_unchecked_ptr below it *)

\* index < size(); the root chunk is addressed directly.
GetStart(t) ==
  \E i \in 0 .. entriesSize - 1 :
    /\ Goto(t, "idle", IF i < N THEN "read" ELSE "rootlen")
    /\ target' = [target EXCEPT ![t] = i]
    /\ sure' = [sure EXCEPT ![t] = i < settled]
    /\ UNCHANGED <<shared, ci, raw, slot, settled>>

\* The root contributes its len, every later chunk its raw_len.
RootLen(t) ==
  /\ Goto(t, "rootlen", "getwalk")
  /\ raw' = [raw EXCEPT ![t] = len[0]]
  /\ UNCHANGED <<shared, ci, slot, target, history>>

\* One chunk short for the first index of a chunk.
Beyond_Strict(t) == raw[t] >= N /\ target[t] > raw[t] + N * ci[t]

\* The while condition of get_unchecked_ptr.
Beyond(t) == raw[t] >= N /\ target[t] >= raw[t] + N * ci[t]

GetNext(t) ==
  /\ Beyond(t)
  /\ ci[t] + 1 < linked
  /\ Goto(t, "getwalk", "getwalk")
  /\ ci' = [ci EXCEPT ![t] = @ + 1]
  /\ raw' = [raw EXCEPT ![t] = rawLen[ci[t] + 1]]
  /\ UNCHANGED <<shared, slot, target, history>>

GetFound(t) ==
  /\ ~Beyond(t)
  /\ Goto(t, "getwalk", "read")
  /\ UNCHANGED <<shared, locals, history>>

\* The reference is dereferenced.
Read(t) ==
  /\ Return(t, "read")
  /\ sure' = [sure EXCEPT ![t] = FALSE]
  /\ UNCHANGED <<shared, settled>>

\* reset(): its contract is that nobody uses the vector meanwhile.  The chunks
\* stay linked, the items are forgotten without being dropped.
Reset ==
  /\ \A t \in Threads : pc[t] = "idle"
  /\ rawLen' = [c \in Chunks |-> 0]
  /\ len' = [c \in Chunks |-> 0]
  /\ entriesSize' = 0
  /\ filled' = {}
  /\ settled' = 0
  /\ UNCHANGED <<linked, pc, locals, sure>>

Push(t) ==
  \/ LoadRaw(t) \/ NextChunk(t) \/ MissChunk(t) \/ LinkChunk(t) \/ Claim(t)
  \/ Undo(t) \/ Write(t) \/ PublishLen(t) \/ PublishSize(t)
Get(t) == RootLen(t) \/ GetNext(t) \/ GetFound(t) \/ Read(t)

Next ==
  \/ \E t \in Threads : PushStart(t) \/ GetStart(t) \/ Push(t) \/ Get(t)
  \/ Reset

Spec == Init /\ [][Next]_vars

\* A thread inside a call is scheduled again and again; calling is its choice.
FairSpec == Spec /\ \A t \in Threads : WF_vars(Push(t) \/ Get(t))

-----------------------------------------------------------------------------
(* Readers of the whole vector *)

\* The cells chunks() walks for a size of n: full chunks, then the rest.
IterSet(n) == {e \in Chunks \X Slots : e[1] * N + e[2] < n}

\* The cells whose item Drop runs: the first `len` of every reachable chunk.
DropSet == {e \in Chunks \X Slots : e[1] < linked /\ e[2] < len[e[1]]}

-----------------------------------------------------------------------------
(* Properties *)

\* Every variable has its type; the index of a claimed cell is one of its chunk's.
\* raw_len has the range of an AtomicU16 whatever is added to it: see NoWrap.
TypeOK ==
  /\ rawLen \in [Chunks -> 0 .. U16 - 1]
  /\ len \in [Chunks -> Nat]
  /\ linked \in 1 .. MaxChunks
  /\ entriesSize \in Nat
  /\ filled \subseteq Chunks \X Slots
  /\ pc \in [Threads -> {"idle"} \cup PushPC \cup GetPC]
  /\ ci \in [Threads -> Chunks]
  /\ raw \in [Threads -> Nat]
  /\ slot \in [Threads -> Slots]
  /\ target \in [Threads -> Nat]
  /\ settled \in Nat
  /\ sure \in [Threads -> BOOLEAN]

-----------------------------------------------------------------------------
(* The inductive invariant behind TypeOK and SlotExclusive *)

\* Nobody walks beyond the linked chunks.
Reachable == \A t \in Threads : ci[t] < linked

\* A claim is owed back only from a full chunk, and raw_len overshoots N by
\* exactly the claims owed.
Overshoot == \A c \in Chunks :
  \/ rawLen[c] < N /\ Undoing(c) = {}
  \/ rawLen[c] = N + Cardinality(Undoing(c))

\* Items live in claimed cells.
FilledClaimed == \A c \in Chunks, s \in Slots :
  <<c, s>> \in filled => s < rawLen[c]

\* The cells about to be written are claimed.
OwnedClaimed == \A t \in Threads : pc[t] = "write" => slot[t] < rawLen[ci[t]]

\* The cell push() is about to write: the fetch_add gave it to this thread only,
\* nothing lives in it, and no other push is about to write it, whatever
\* the other threads claim and take back meanwhile.
SlotExclusive ==
  \A t \in Threads : pc[t] = "write" =>
    /\ slot[t] \in Slots
    /\ <<ci[t], slot[t]>> \notin filled
    /\ \A u \in Threads \ {t} :
         pc[u] = "write" => <<ci[u], slot[u]>> # <<ci[t], slot[t]>>

\* The u16 counter wraps in neither direction: the fetch_add a push may make next finds
\* room, although pushes add to a full chunk before they look, and the fetch_sub
\* takes back a claim that is still counted.
NoWrap == \A t \in Threads :
  /\ pc[t] = "walk" => rawLen[ci[t]] + 1 < U16
  /\ pc[t] = "undo" => rawLen[ci[t]] > 0

\* SlotExclusive with what makes it inductive.
SlotInv ==
  /\ TypeOK /\ Reachable /\ Overshoot /\ FilledClaimed /\ OwnedClaimed
  /\ SlotExclusive

\* size() counts the items written, but for those about to be counted.
SizeCounts == Cardinality(filled) =
  entriesSize + Cardinality({t \in Threads : pc[t] \in {"len", "size"}})
\* The indices get() and chunks() trust that are not written.
Unwritten == IterSet(entriesSize) \ filled

\* A push that finishes early makes the cell of an earlier one readable: every index
\* below size() is written, or a push in flight has claimed it and writes it next.
\* Once every push returned, chunks() therefore walks exactly the items: no hole and
\* nothing beyond, in spite of over-claimed chunks and stale loads.
HolesOwned == SizeCounts /\
  \A e \in Unwritten : \E t \in Pushing : pc[t] = "write" /\ <<ci[t], slot[t]>> = e

\* Once every push returned, dropping the vector runs the destructor of
\* exactly the items in it: none is leaked, no unwritten cell is dropped.
DropExact == Quiescent => DropSet = filled

\* get_unchecked_ptr follows `next` without a null check: there is a next chunk
\* whenever its loop goes on.
NextThere == \A t \in Threads :
  pc[t] = "getwalk" /\ Beyond(t) => ci[t] + 1 < linked

\* Neither is missing: the chunk the loop goes on to, nor, for an index that was below
\* the size when no push was in flight, an item where get() dereferences.  In the first
\* two chunks it is the item of the index.
StableGet == NextThere /\ \A t \in Threads : pc[t] = "read" /\ sure[t] =>
  /\ <<ci[t], target[t] % N>> \in filled
  /\ target[t] < 2 * N => ci[t] = target[t] \div N

\* The test sync_vec.rs:463-472 pushes the numbers below 500 in chunks of 64 and collects
\* *sync_vec.get(i).unwrap() of every i: they are expected to be those numbers in order.
GetsItsIndex == \A t \in Threads :
  pc[t] = "read" /\ sure[t] => ci[t] = target[t] \div N

\* A call once made returns.
CallsReturn == \A t \in Threads : pc[t] # "idle" ~> pc[t] = "idle"

\* Positions are handed out in order, each written by one push only.
Tickets == INSTANCE TicketVec WITH
  next <- Cardinality({e \in Chunks \X Slots : e[2] < rawLen[e[1]]}),
  cells <- {e[1] * N + e[2] : e \in filled},
  size <- entriesSize
ImplementsTickets == Tickets!Spec

=============================================================================
