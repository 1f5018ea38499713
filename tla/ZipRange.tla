------------------------------ MODULE ZipRange ------------------------------
(***************************************************************************)
(* ZipRangeIterator<N>: one thread walks the same range of indices of      *)
(* several SyncVecs, chunk by chunk, while other threads push.  add()      *)
(* narrows the range by the size of a vector and gives a ChunksIterator    *)
(* for it; next() cuts the range at chunk borders; progress() moves a      *)
(* ChunksIterator to the chunk of the cut; complete() is the cut within    *)
(* that chunk.                                                             *)
(*                                                                         *)
(* The vectors are what SyncVec implements, see TicketVec: positions are   *)
(* claimed in order, in chunks that were linked before, and counted by the *)
(* size later.                                                             *)
(***************************************************************************)
EXTENDS Integers, FiniteSets, FiniteSetsExt

CONSTANTS
  Vecs,    \* the vectors that are walked together
  N,       \* cells of a chunk
  MaxLen   \* bound: items of a vector

ASSUME ZipRangeAssumption ==
  /\ IsFiniteSet(Vecs)
  /\ N \in Nat \ {0}
  /\ MaxLen \in Nat

VARIABLES
  taken,              \* vector -> positions claimed
  size,               \* vector -> entries_size
  first, idx, maxIdx, \* ZipRangeIterator
  iters,              \* vector added -> its ChunksIterator
  cut,                \* the ZipRangeChunk in hand
  calls,              \* vector -> calls of its ChunksIterator due in this cut
  at,                 \* vector -> the chunk progress() returned
  pc,                 \* where the caller's loop is
  from,               \* history: first index of the range
  visited             \* history: indices the caller looked at

vectors == <<taken, size>>
range == <<first, idx, maxIdx>>
walk == <<iters, cut, calls, at>>
history == <<from, visited>>
vars == <<vectors, range, walk, pc, history>>

Null == -1
NoCut == [first |-> FALSE, start |-> 0, end |-> 0]
Infinite == MaxLen + 1  \* usize::MAX: more than any size
Added == DOMAIN iters

\* Chunks of v linked for sure by now, the root included.
Linked(v) == IF taken[v] = 0 THEN 1 ELSE (taken[v] + N - 1) \div N

Init ==
  /\ taken = [v \in Vecs |-> 0]
  /\ size = [v \in Vecs |-> 0]
  /\ first = TRUE /\ idx = 0 /\ maxIdx = Infinite
  /\ iters = <<>>
  /\ cut = NoCut
  /\ calls = [v \in Vecs |-> 0]
  /\ at = [v \in Vecs |-> Null]
  /\ pc = "add"
  /\ from = 0 /\ visited = {}

\* push() of other threads: the claim, and the count after the write.
Claim(v) ==
  /\ taken[v] < MaxLen
  /\ taken' = [taken EXCEPT ![v] = @ + 1]
  /\ UNCHANGED <<size, range, walk, pc, history>>

Announce(v) ==
  /\ size[v] < taken[v]
  /\ size' = [size EXCEPT ![v] = @ + 1]
  /\ UNCHANGED <<taken, range, walk, pc, history>>

-----------------------------------------------------------------------------
(* add *)

\* Each add() ends with its Chunks before the next begins.
Adding == \E v \in Added : iters[v].iterations = Null

\* The size is not asked.
Add_NoSize(v) ==
  /\ pc = "add" /\ v \notin Added /\ ~Adding
  /\ \E min \in 0 .. MaxLen, max \in 0 .. Infinite :
       /\ maxIdx' = Min({maxIdx, max})
       /\ idx' = Max({idx, min})
  /\ iters' = [w \in Added \cup {v} |->
       IF w = v THEN [chunk |-> 0, iterations |-> Null] ELSE iters[w]]
  /\ UNCHANGED <<vectors, first, cut, calls, at, pc, history>>

\* The range is narrowed by the size and by the caller's min and max.
Add(v) ==
  /\ pc = "add" /\ v \notin Added /\ ~Adding
  /\ \E min \in 0 .. MaxLen, max \in 0 .. Infinite :
       /\ maxIdx' = Min({maxIdx, size[v], max})
       /\ idx' = Max({idx, min})
  /\ iters' = [w \in Added \cup {v} |->
       IF w = v THEN [chunk |-> 0, iterations |-> Null] ELSE iters[w]]
  /\ UNCHANGED <<vectors, first, cut, calls, at, pc, history>>

\* chunks() loads the size a second time.
Chunks(v) ==
  /\ pc = "add" /\ v \in Added
  /\ iters[v].iterations = Null
  /\ iters' = [iters EXCEPT ![v].iterations = size[v]]
  /\ UNCHANGED <<vectors, range, cut, calls, at, pc, history>>

Start ==
  /\ pc = "add" /\ Added # {} /\ ~Adding
  /\ pc' = "next"
  /\ from' = idx
  /\ UNCHANGED <<vectors, range, walk, visited>>

-----------------------------------------------------------------------------
(* The loop: next, progress for every vector, the indices of complete *)

\* A first cut of a whole chunk's length.
FirstEnd_Unaligned == idx + N

\* The first cut ends at the border of its chunk.
FirstEnd == Min({idx + N, (idx \div N) * N + N})

End == IF first THEN FirstEnd ELSE idx + N

\* A cut may end behind the range.
CutEnd_Uncapped == End

CutEnd == Min({End, maxIdx})

\* The first cut is counted as a whole chunk.
NextIdx_Whole == idx + N

NextIdx == End

\* The calls of a ChunksIterator progress() makes for a cut.
Advances(c) == 1 + IF c.first /\ c.start \div N # 0 THEN c.start \div N ELSE 0

NextCut ==
  LET c == [first |-> first, start |-> idx, end |-> CutEnd]
  IN /\ pc = "next" /\ idx < maxIdx
     /\ cut' = c
     /\ idx' = NextIdx
     /\ first' = FALSE
     /\ calls' = [v \in Vecs |-> IF v \in Added THEN Advances(c) ELSE 0]
     /\ at' = [v \in Vecs |-> Null]
     /\ pc' = "progress"
     /\ UNCHANGED <<vectors, maxIdx, iters, history>>

Exhausted ==
  /\ pc = "next" /\ idx >= maxIdx
  /\ pc' = "done"
  /\ UNCHANGED <<vectors, range, walk, history>>

\* ChunksIterator::next(): the `next` of the chunk is loaded along with it.  What
\* the last call of progress() returns is unwrapped.
NextChunk(v) ==
  LET it == iters[v]
      follow == IF it.chunk + 1 < Linked(v) THEN it.chunk + 1 ELSE Null
  IN /\ pc = "progress" /\ v \in Added
     /\ calls[v] > 0
     /\ calls' = [calls EXCEPT ![v] = @ - 1]
     /\ \/ /\ it.iterations = 0
           /\ IF calls[v] = 1 THEN pc' = "panic" ELSE UNCHANGED pc
           /\ UNCHANGED <<iters, at>>
        \/ /\ it.iterations > 0 /\ it.chunk = Null
           /\ pc' = "null"
           /\ UNCHANGED <<iters, at>>
        \/ /\ it.iterations > 0 /\ it.chunk # Null
           /\ at' = [at EXCEPT ![v] = it.chunk]
           /\ iters' = [iters EXCEPT ![v] =
                [chunk |-> follow, iterations |-> Max({it.iterations - N, 0})]]
           /\ UNCHANGED pc
     /\ UNCHANGED <<vectors, range, cut, history>>

\* The cells complete() names, in the chunk progress() returned for v.
Complete == cut.start % N .. cut.end - (cut.start \div N) * N - 1
Cells(v) == {at[v] * N + i : i \in Complete}

\* The caller looks at the cut in every vector.
Visit ==
  /\ pc = "progress"
  /\ \A v \in Added : calls[v] = 0
  /\ visited' = visited \cup {(cut.start \div N) * N + i : i \in Complete}
  /\ pc' = "next"
  /\ UNCHANGED <<vectors, range, walk, from>>

\* Another iterator for another range.
Restart ==
  /\ pc = "done"
  /\ first' = TRUE /\ idx' = 0 /\ maxIdx' = Infinite
  /\ iters' = <<>>
  /\ cut' = NoCut
  /\ calls' = [v \in Vecs |-> 0]
  /\ at' = [v \in Vecs |-> Null]
  /\ pc' = "add"
  /\ from' = 0 /\ visited' = {}
  /\ UNCHANGED vectors

Loop == NextCut \/ Exhausted \/ Visit \/ \E v \in Vecs : NextChunk(v)

Next ==
  \/ Loop \/ Start \/ Restart
  \/ \E v \in Vecs : Claim(v) \/ Announce(v) \/ Add(v) \/ Chunks(v)

Spec == Init /\ [][Next]_vars

\* The caller's loop goes on until next() returns None.
FairSpec == Spec /\ WF_vars(Loop)

-----------------------------------------------------------------------------
(* Properties *)

TypeOK ==
  /\ taken \in [Vecs -> 0 .. MaxLen] /\ size \in [Vecs -> 0 .. MaxLen]
  /\ first \in BOOLEAN /\ idx \in 0 .. MaxLen + N /\ maxIdx \in 0 .. Infinite
  /\ Added \subseteq Vecs
  /\ \A v \in Added :
       iters[v] \in [chunk : Null .. MaxLen, iterations : Null .. MaxLen]
  /\ cut \in [first : BOOLEAN, start : 0 .. MaxLen, end : 0 .. MaxLen]
  /\ calls \in [Vecs -> 0 .. MaxLen + 1]
  /\ at \in [Vecs -> Null .. MaxLen]
  /\ pc \in {"add", "next", "progress", "done", "panic", "null"}
  /\ from \in 0 .. MaxLen /\ visited \subseteq 0 .. MaxLen - 1

\* All vectors are looked at in the same indices, those of the cut, each announced
\* by its vector and within the chunk that progress() returned.
Aligned == pc = "progress" => \A v \in Added : calls[v] = 0 =>
  /\ Complete \subseteq 0 .. N - 1
  /\ Cells(v) = cut.start .. cut.end - 1
  /\ Cells(v) \subseteq 0 .. size[v] - 1

\* The range is walked without a gap: so far every index from its start up to the next
\* cut was looked at, and in the end all of it.
WalkedSoFar == pc \in {"next", "done"} =>
  visited = from .. Min({idx, maxIdx}) - 1

\* A walk comes to its end: progress() finds a chunk for every cut, so that its unwrap()
\* does not panic, and no null pointer is followed although `next` was loaded before
\* it was needed.
WalkEnds == pc = "next" ~> pc = "done"
=============================================================================
