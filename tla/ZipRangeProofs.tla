--------------------------- MODULE ZipRangeProofs ---------------------------
(***************************************************************************)
(* Proofs about ZipRange, for every set of vectors, every length of a      *)
(* chunk and of a vector.                                                  *)
(***************************************************************************)
EXTENDS ZipRange, TLAPS

-----------------------------------------------------------------------------
(* The inductive invariant *)

\* The border of the chunk i is in.
Border(i) == (i \div N) * N + N

\* The chunks the ChunksIterator of v has given so far.
Consumed(v) ==
  IF pc = "progress" THEN (cut.start \div N) + 1 - calls[v]
  ELSE IF first THEN 0 ELSE idx \div N

\* No vector counts an item nobody claimed, and the range is announced everywhere.
Bounds ==
  /\ \A v \in Vecs : size[v] <= taken[v]
  /\ \A v \in Added : maxIdx <= size[v]

\* What a ChunksIterator has left covers the range and is announced; its next chunk is
\* the one behind those it gave, if it has one left.
Iterators == \A v \in Added :
  /\ pc = "add" => iters[v].chunk = 0
  /\ pc # "add" => iters[v].iterations # Null
  /\ iters[v].iterations # Null =>
       /\ iters[v].iterations >= maxIdx - N * Consumed(v)
       /\ iters[v].iterations > 0 => iters[v].iterations + N * Consumed(v) <= size[v]
       /\ \/ iters[v].chunk = Consumed(v)
          \/ iters[v].chunk = Null /\ iters[v].iterations = 0

\* The next cut begins where what was looked at ends, at a border unless it is the first.
Walked ==
  /\ visited = from .. Min({idx, maxIdx}) - 1
  /\ from <= idx
  /\ first => from = idx
  /\ ~first => idx % N = 0

\* The cut begins there too, and ends at the border of its chunk or with the range.
Cutting ==
  /\ ~first
  /\ visited = from .. cut.start - 1
  /\ from <= cut.start /\ cut.start < maxIdx
  /\ idx = Border(cut.start)
  /\ cut.end = Min({idx, maxIdx})
  /\ \A v \in Added : /\ calls[v] <= (cut.start \div N) + 1
                      /\ calls[v] = 0 => at[v] = cut.start \div N

\* progress() neither panics nor follows a null pointer.
Safe == pc \notin {"panic", "null"}

Walk ==
  /\ pc = "add" => first /\ idx <= MaxLen /\ visited = {} /\ from = 0
  /\ pc # "add" => Added # {}
  /\ pc \in {"next", "done"} => Walked
  /\ pc = "progress" => Cutting

IInv == TypeOK /\ Bounds /\ Iterators /\ Walk /\ Safe

-----------------------------------------------------------------------------
(* Arithmetic *)

\* Chunks are in the order of their indices.
LEMMA Monotone == \A a, b \in Int : a <= b => N * a <= N * b
  BY ZipRangeAssumption

\* Chunks before the chunk c, and with it.
LEMMA Product ==
  ASSUME NEW c \in Int
  PROVE  /\ N * c \in Int /\ c * N = N * c /\ N * (c + 1) = N * c + N
         /\ c \in Nat => N * c \in Nat /\ c <= N * c
  BY ZipRangeAssumption

\* An index is the cell r of its chunk q.
LEMMA Division ==
  ASSUME NEW a \in Nat
  PROVE  /\ a \div N \in Nat /\ a % N \in 0 .. N - 1
         /\ a = N * (a \div N) + (a % N)
         /\ (a \div N) * N = N * (a \div N)
  BY ZipRangeAssumption

\* The first index of a chunk is none behind those in it.
LEMMA ChunkOf ==
  ASSUME NEW a \in Nat
  PROVE  /\ a \div N \in Nat /\ N * (a \div N) \in Nat
         /\ N * (a \div N) <= a /\ a \div N <= a
  <1> DEFINE q == a \div N
             r == a % N
  <1>1. q \in Nat /\ a = N * q + r /\ r \in 0 .. N - 1
    BY Division
  <1>2. N * q \in Nat /\ q <= N * q
    BY <1>1, Product
  <1> HIDE DEF q, r
  <1>3. q \in Nat /\ N * q \in Nat /\ N * q <= a /\ q <= a
    BY <1>1, <1>2, ZipRangeAssumption
  <1> QED
    BY <1>3 DEF q

\* The cell r of the chunk q.
LEMMA Quotient ==
  ASSUME NEW q \in Nat, NEW r \in 0 .. N - 1
  PROVE  /\ (N * q + r) \div N = q
         /\ (N * q + r) % N = r
  BY ZipRangeAssumption

\* The least of two numbers.
LEMMA MinTwo == \A a, b \in Int : Min({a, b}) = IF a <= b THEN a ELSE b
  BY DEF Min

\* The largest of two numbers.
LEMMA MaxTwo == \A a, b \in Int : Max({a, b}) = IF a <= b THEN b ELSE a
  BY DEF Max

\* The least of three numbers is one of them.
LEMMA MinThree ==
  \A a, b, c \in Int : /\ Min({a, b, c}) \in {a, b, c}
                       /\ Min({a, b, c}) <= a /\ Min({a, b, c}) <= b
  BY DEF Min

\* The border of a chunk is the first index of the next one.
LEMMA BorderNext ==
  ASSUME NEW i \in Nat
  PROVE  /\ Border(i) \in Nat
         /\ i < Border(i) /\ Border(i) <= i + N
         /\ Border(i) = N * ((i \div N) + 1)
         /\ Border(i) % N = 0
         /\ Border(i) \div N = (i \div N) + 1
  <1> DEFINE q == i \div N
  <1>1. q \in Nat /\ i % N \in 0 .. N - 1 /\ i = N * q + (i % N) /\ q * N = N * q
    BY Division
  <1>2. N * (q + 1) = N * q + N /\ N * (q + 1) = N * (q + 1) + 0
    BY <1>1, ZipRangeAssumption
  <1>3. 0 \in 0 .. N - 1 /\ N \in Nat /\ N * q \in Nat
    BY <1>1, ZipRangeAssumption
  <1>4. (N * (q + 1) + 0) \div N = q + 1 /\ (N * (q + 1) + 0) % N = 0
    BY <1>1, <1>3, Quotient
  <1>5. Border(i) = N * q + N
    BY <1>1 DEF Border
  <1> HIDE DEF q
  <1> QED
    BY <1>1, <1>2, <1>3, <1>4, <1>5 DEF q

\* Every cut ends at the border of its chunk: the first is shortened to it, the others
\* begin at a border.
LEMMA EndIsBorder ==
  ASSUME idx \in Nat, first \in BOOLEAN, ~first => idx % N = 0
  PROVE  End = Border(idx)
  <1>1. CASE first
    <2>1. FirstEnd = Border(idx)
      BY BorderNext, MinTwo, ZipRangeAssumption DEF FirstEnd, Border
    <2> QED
      BY <1>1, <2>1 DEF End
  <1>2. CASE ~first
    <2>1. idx = N * (idx \div N) + 0 /\ (idx \div N) * N = N * (idx \div N)
      BY <1>2, Division, ZipRangeAssumption
    <2> QED
      BY <1>2, <2>1, ZipRangeAssumption DEF End, Border
  <1> QED
    BY <1>1, <1>2

\* A chunk behind the root is linked once a position in it is claimed, and the claimed
\* positions are in linked chunks.
LEMMA LinkedChunks ==
  ASSUME NEW v, taken[v] \in 0 .. MaxLen, NEW c \in Nat
  PROVE  /\ Linked(v) \in Nat
         /\ c < Linked(v) => c <= MaxLen
         /\ c >= Linked(v) => taken[v] <= N * c
  <1> DEFINE a == taken[v] + N - 1
             q == a \div N
             r == a % N
  <1>0. N \in Nat \ {0} /\ MaxLen \in Nat
    BY ZipRangeAssumption
  <1>1. CASE taken[v] = 0
    BY <1>0, <1>1 DEF Linked
  <1>2. CASE taken[v] # 0
    <2>1. a \in Nat
      BY <1>0, <1>2
    <2>2. q \in Nat /\ a = N * q + r /\ r \in 0 .. N - 1
      BY <2>1, Division
    <2>3. Linked(v) = q
      BY <1>2 DEF Linked
    <2>4. taken[v] <= MaxLen /\ taken[v] \in Nat
      BY <1>0
    <2> HIDE DEF q, r
    <2>5. c < q => c <= MaxLen
      <3>1. SUFFICES ASSUME c < q PROVE c <= MaxLen
        OBVIOUS
      <3>2. N * (c + 1) <= N * q
        BY <3>1, <2>2, Monotone
      <3>3. c <= N * c /\ N * c \in Nat /\ N * (c + 1) = N * c + N /\ N * q \in Int
        BY <2>2, Product
      <3> QED
        BY <3>2, <3>3, <2>2, <2>4, <1>0
    <2>6. c >= q => taken[v] <= N * c
      <3>1. SUFFICES ASSUME c >= q PROVE taken[v] <= N * c
        OBVIOUS
      <3>2. N * q <= N * c
        BY <3>1, <2>2, Monotone
      <3>3. N * q \in Nat /\ N * c \in Nat
        BY <2>2, Product
      <3> QED
        BY <3>2, <3>3, <2>2, <2>4, <1>0
    <2> QED
      BY <2>2, <2>3, <2>5, <2>6
  <1> QED
    BY <1>1, <1>2

-----------------------------------------------------------------------------
(* The steps *)

\* Before the first vector there is nothing to say of the range.
LEMMA NoVectorYet == DOMAIN <<>> = {}
  OBVIOUS

\* Nothing is walked in the beginning.
LEMMA InitInv == Init => IInv
  BY NoVectorYet, ZipRangeAssumption
  DEF Init, IInv, TypeOK, Bounds, Iterators, Walk, Safe, Added, Infinite, Null, NoCut

\* Other threads' pushes only announce more.
LEMMA PushStep ==
  ASSUME IInv, NEW v \in Vecs, Claim(v) \/ Announce(v)
  PROVE  IInv'
  <1> USE ZipRangeAssumption DEF IInv, TypeOK, Bounds, Added, Claim, Announce, range, walk,
        history, vectors
  <1>1. UNCHANGED <<range, walk, pc, history>>
    OBVIOUS
  <1>2. \A w \in Vecs : size[w] <= size'[w] /\ size'[w] <= taken'[w]
    OBVIOUS
  <1>3. TypeOK'
    <2>1. taken' \in [Vecs -> 0 .. MaxLen]
      OBVIOUS
    <2>2. size' \in [Vecs -> 0 .. MaxLen]
      OBVIOUS
    <2> QED
      BY <1>1, <2>1, <2>2
  <1>4. Bounds'
    BY <1>1, <1>2
  <1>5. \A w \in Vecs : Consumed(w)' = Consumed(w)
    BY <1>1 DEF Consumed
  <1>6. \A w \in Added : Consumed(w) \in Int
    BY Division, ZipRangeAssumption DEF Consumed
  <1>7. Iterators'
    BY <1>1, <1>2, <1>3, <1>5, <1>6, Product DEF Iterators
  <1>8. Walk' /\ Safe'
    BY <1>1 DEF Walk, Safe, Walked, Cutting
  <1> QED
    BY <1>3, <1>4, <1>7, <1>8

\* add() narrows the range by the size of the vector.
LEMMA AddStep ==
  ASSUME IInv, NEW v \in Vecs, Add(v)
  PROVE  IInv'
  <1>1. /\ taken \in [Vecs -> 0 .. MaxLen] /\ size \in [Vecs -> 0 .. MaxLen]
        /\ maxIdx \in 0 .. Infinite /\ idx \in 0 .. MaxLen
        /\ pc = "add" /\ first = TRUE /\ UNCHANGED <<taken, size, first, pc, from, visited>>
    BY DEF IInv, TypeOK, Walk, Add, vectors, history
  <1>2. maxIdx' \in 0 .. Infinite /\ maxIdx' <= maxIdx /\ maxIdx' <= size[v]
    <2>1. PICK max \in 0 .. Infinite : maxIdx' = Min({maxIdx, size[v], max})
      BY DEF Add
    <2> DEFINE n == size[v]
    <2>2. maxIdx \in Int /\ n \in Int /\ max \in Int /\ {maxIdx, n, max} \subseteq 0 .. Infinite
      BY <1>1, ZipRangeAssumption DEF Infinite
    <2> HIDE DEF n
    <2>3. maxIdx' \in {maxIdx, n, max} /\ maxIdx' <= maxIdx /\ maxIdx' <= n
      BY <2>1, <2>2, MinThree DEF n
    <2> QED
      BY <2>2, <2>3 DEF n
  <1>3. idx' \in 0 .. MaxLen
    <2>1. PICK min \in 0 .. MaxLen : idx' = Max({idx, min})
      BY DEF Add
    <2>2. idx \in Int /\ min \in Int
      BY <1>1, ZipRangeAssumption
    <2> QED
      BY <1>1, <2>1, <2>2, MaxTwo
  <1> USE ZipRangeAssumption DEF IInv, TypeOK, Bounds, Added, Add, Infinite, vectors, history
  <1>4. /\ DOMAIN iters' = Added \cup {v}
        /\ iters'[v] = [chunk |-> 0, iterations |-> Null]
        /\ \A w \in Added : w # v /\ iters'[w] = iters[w] /\ iters[w].iterations # Null
    BY DEF Adding
  <1>5. TypeOK'
    BY <1>1, <1>2, <1>3, <1>4 DEF Null
  <1>6. Bounds'
    BY <1>2, <1>4
  <1>7. \A w : Consumed(w) = 0 /\ Consumed(w)' = 0
    BY DEF Consumed, Walk
  <1>8. Iterators'
    BY <1>2, <1>4, <1>7, Product DEF Iterators
  <1>9. Walk' /\ Safe'
    BY <1>3 DEF Walk, Safe
  <1> QED
    BY <1>5, <1>6, <1>8, <1>9

\* chunks() loads a size that is at least the one the range was narrowed to.
LEMMA ChunksStep ==
  ASSUME IInv, NEW v \in Vecs, Chunks(v)
  PROVE  IInv'
  <1> USE ZipRangeAssumption DEF IInv, TypeOK, Bounds, Added, Chunks, vectors, range, history
  <1>1. /\ DOMAIN iters' = Added
        /\ iters'[v].chunk = iters[v].chunk /\ iters'[v].iterations = size[v]
        /\ \A w \in Added : w # v => iters'[w] = iters[w]
    OBVIOUS
  <1>2. TypeOK' /\ Bounds'
    BY <1>1 DEF Null
  <1>3. \A w : Consumed(w) = 0 /\ Consumed(w)' = 0
    BY DEF Consumed, Walk
  <1>4. Iterators'
    BY <1>1, <1>2, <1>3, Product DEF Iterators
  <1>5. Walk' /\ Safe'
    BY DEF Walk, Safe
  <1> QED
    BY <1>2, <1>4, <1>5

\* The walk begins at the first index of the range.
LEMMA StartStep == IInv /\ Start => IInv'
  <1> SUFFICES ASSUME IInv, Start PROVE IInv'
    OBVIOUS
  <1> USE ZipRangeAssumption DEF IInv, TypeOK, Start, vectors, range, walk, Added
  <1>1. maxIdx \in 0 .. MaxLen
    BY DEF Bounds
  <1>2. TypeOK' /\ Bounds' /\ Safe'
    BY DEF Bounds, Safe, Walk
  <1>3. \A v : Consumed(v) = 0 /\ Consumed(v)' = 0
    BY DEF Consumed, Walk
  <1>4. Iterators'
    BY <1>3, Product DEF Iterators, Adding
  <1>5. Walk'
    <2>1. idx \in Int /\ maxIdx \in Int
      BY <1>1
    <2>2. Min({idx, maxIdx}) \in Int /\ Min({idx, maxIdx}) <= idx
      BY <2>1, MinTwo
    <2>3. idx .. Min({idx, maxIdx}) - 1 = {}
      BY <2>1, <2>2
    <2>4. pc' = "next" /\ Added' # {}
      OBVIOUS
    <2>5. /\ idx' = idx /\ maxIdx' = maxIdx /\ from' = idx
          /\ first' = first /\ visited' = visited /\ visited = {} /\ first
      BY DEF Walk
    <2> HIDE DEF IInv, TypeOK, Start
    <2>6. Walked'
      BY <2>1, <2>3, <2>5 DEF Walked
    <2> QED
      BY <2>4, <2>5, <2>6 DEF Walk
  <1> QED
    BY <1>2, <1>4, <1>5

\* A cut is not empty, within the range and within a chunk.
LEMMA CutStep == IInv /\ NextCut => IInv'
  <1> SUFFICES ASSUME IInv, NextCut PROVE IInv'
    OBVIOUS
  <1> DEFINE q == idx \div N
  <1> USE ZipRangeAssumption DEF Added
  <1>1. /\ UNCHANGED <<taken, size, maxIdx, iters, from, visited>>
        /\ pc = "next" /\ pc' = "progress" /\ idx < maxIdx /\ first' = FALSE
        /\ cut' = [first |-> first, start |-> idx, end |-> CutEnd]
        /\ idx' = End
        /\ at' = [v \in Vecs |-> Null]
        /\ calls' = [v \in Vecs |-> IF v \in Added
             THEN 1 + (IF first /\ q # 0 THEN q ELSE 0) ELSE 0]
    BY DEF NextCut, NextIdx, vectors, history, Advances
  <1>2. /\ idx \in Nat /\ maxIdx \in 0 .. MaxLen /\ first \in BOOLEAN /\ from \in Nat
        /\ Added \subseteq Vecs /\ Walked
    BY <1>1 DEF IInv, TypeOK, Bounds, Walk
  <1>3. End = Border(idx)
    BY <1>1, <1>2, EndIsBorder DEF Walked
  <1>4. End \in 0 .. MaxLen + N /\ idx < End
    BY <1>1, <1>2, <1>3, BorderNext
  <1>5. CutEnd = Min({End, maxIdx}) /\ CutEnd \in 0 .. MaxLen
    BY <1>2, <1>4, MinTwo DEF CutEnd
  <1>6. q \in Nat /\ q <= idx
    BY <1>2, ChunkOf
  <1> HIDE DEF q
  <1>7. /\ calls' \in [Vecs -> 0 .. MaxLen + 1]
        /\ \A v \in Added : /\ calls'[v] \in 1 .. q + 1
                            /\ calls'[v] = IF first THEN q + 1 ELSE 1
    BY <1>1, <1>2, <1>6
  <1>8. TypeOK'
    <2>1. cut' \in [first : BOOLEAN, start : 0 .. MaxLen, end : 0 .. MaxLen]
      BY <1>1, <1>2, <1>5
    <2>2. at' \in [Vecs -> Null .. MaxLen]
      BY <1>1 DEF Null
    <2> QED
      BY <1>1, <1>2, <1>4, <1>7, <2>1, <2>2 DEF IInv, TypeOK
  <1>9. Bounds' /\ Safe'
    BY <1>1 DEF IInv, Bounds, Safe
  <1>10. \A v \in Added : Consumed(v)' = Consumed(v)
    BY <1>1, <1>2, <1>6, <1>7 DEF Consumed, q
  <1>11. Iterators'
    BY <1>1, <1>10 DEF IInv, Iterators
  <1>12. Cutting'
    BY <1>1, <1>2, <1>3, <1>4, <1>5, <1>7, MinTwo DEF Cutting, Walked, q
  <1>13. Walk'
    BY <1>1, <1>12 DEF IInv, Walk
  <1> QED
    BY <1>8, <1>9, <1>11, <1>13 DEF IInv

\* The range is exhausted.
LEMMA ExhaustedStep == IInv /\ Exhausted => IInv'
  <1> SUFFICES ASSUME IInv, Exhausted PROVE IInv'
    OBVIOUS
  <1> USE DEF IInv, TypeOK, Exhausted, vectors, range, walk, history, Added
  <1>1. TypeOK' /\ Bounds' /\ Safe'
    BY DEF Bounds, Safe
  <1>2. \A v : Consumed(v)' = Consumed(v)
    BY DEF Consumed
  <1>3. Iterators'
    BY <1>2 DEF Iterators
  <1>4. Walk'
    BY DEF Walk, Walked
  <1> QED
    BY <1>1, <1>3, <1>4

\* A ChunksIterator that is called has a chunk left, and its next chunk is linked if it
\* is called again.
LEMMA ChunkStep ==
  ASSUME IInv, NEW v \in Vecs, NextChunk(v)
  PROVE  IInv'
  <1> DEFINE it == iters[v]
             q == cut.start \div N
             c == Consumed(v)
             follow == IF it.chunk + 1 < Linked(v) THEN it.chunk + 1 ELSE Null
             left == Max({it.iterations - N, 0})
  <1> USE ZipRangeAssumption DEF Added
  <1>1. /\ pc = "progress" /\ v \in Added /\ calls[v] > 0
        /\ calls' = [calls EXCEPT ![v] = @ - 1]
        /\ UNCHANGED <<taken, size, first, idx, maxIdx, cut, from, visited>>
    BY DEF NextChunk, vectors, range, history
  <1>2. /\ calls \in [Vecs -> 0 .. MaxLen + 1] /\ at \in [Vecs -> Null .. MaxLen]
        /\ taken[v] \in 0 .. MaxLen /\ size[v] \in 0 .. MaxLen
        /\ cut.start \in Nat /\ idx \in Nat /\ maxIdx \in 0 .. MaxLen
        /\ iters[v] \in [chunk : Null .. MaxLen, iterations : Null .. MaxLen]
        /\ Cutting
    BY <1>1 DEF IInv, TypeOK, Bounds, Walk
  <1>3. /\ q \in Nat /\ N * q \in Nat /\ N * q <= cut.start
        /\ c = q + 1 - calls[v] /\ c \in 0 .. q
        /\ N * c \in Nat /\ N * c <= N * q /\ N * (c + 1) = N * c + N
    <2>1. q \in Nat /\ N * q \in Nat /\ N * q <= cut.start
      BY <1>2, ChunkOf
    <2>2. c = q + 1 - calls[v] /\ calls[v] <= q + 1
      BY <1>1, <1>2 DEF Consumed, Cutting
    <2> HIDE DEF c, q
    <2>3. c \in 0 .. q
      BY <1>1, <1>2, <2>1, <2>2
    <2> HIDE DEF q, c
    <2> QED
      BY <2>1, <2>2, <2>3, Product, Monotone
  <1> HIDE DEF c, q
  <1>4. /\ it.iterations \in 0 .. MaxLen /\ it.chunk \in Null .. MaxLen
        /\ it.iterations >= maxIdx - N * c
        /\ it.iterations > 0 => it.iterations + N * c <= size[v]
        /\ it.chunk = c \/ (it.chunk = Null /\ it.iterations = 0)
    BY <1>1, <1>2 DEF IInv, Iterators, Null, c
  <1>5. it.iterations > 0 /\ it.chunk = c
    <2>1. cut.start < maxIdx
      BY <1>2 DEF Cutting
    <2> QED
      BY <2>1, <1>2, <1>3, <1>4
  <1>6. /\ at' = [at EXCEPT ![v] = it.chunk]
        /\ iters' = [iters EXCEPT ![v] = [chunk |-> follow, iterations |-> left]]
        /\ UNCHANGED pc
    BY <1>3, <1>5 DEF NextChunk, Null
  <1>7. left = IF it.iterations > N THEN it.iterations - N ELSE 0
    <2> DEFINE d == it.iterations - N
    <2>1. d \in Int
      BY <1>4
    <2> HIDE DEF d
    <2>2. Max({d, 0}) = IF d <= 0 THEN 0 ELSE d
      BY <2>1, MaxTwo
    <2> QED
      BY <1>4, <2>2 DEF d
  <1>8. /\ follow \in Null .. MaxLen
        /\ follow = c + 1 \/ (follow = Null /\ left = 0)
    <2>1. CASE c + 1 < Linked(v)
      BY <2>1, <1>2, <1>3, <1>5, LinkedChunks DEF Null
    <2>2. CASE ~(c + 1 < Linked(v))
      <3>1. follow = Null
        BY <2>2, <1>5
      <3>2. taken[v] <= N * (c + 1)
        BY <2>2, <1>2, <1>3, LinkedChunks
      <3>3. it.iterations + N * c <= taken[v]
        BY <1>2, <1>4, <1>5 DEF IInv, Bounds
      <3> HIDE DEF it, follow, left
      <3> QED
        BY <3>1, <3>2, <3>3, <1>2, <1>3, <1>4, <1>7 DEF Null
    <2> QED
      BY <2>1, <2>2
  <1> HIDE DEF follow, left
  <1>9. /\ DOMAIN iters' = Added
        /\ iters'[v] = [chunk |-> follow, iterations |-> left]
        /\ \A w \in Added : w # v => iters'[w] = iters[w]
    BY <1>1, <1>6
  <1>10. TypeOK'
    <2>1. iters'[v] \in [chunk : Null .. MaxLen, iterations : Null .. MaxLen]
      BY <1>4, <1>7, <1>8, <1>9 DEF Null
    <2>2. calls' \in [Vecs -> 0 .. MaxLen + 1] /\ at' \in [Vecs -> Null .. MaxLen]
      BY <1>1, <1>2, <1>4, <1>6
    <2> QED
      BY <1>1, <1>6, <1>9, <2>1, <2>2 DEF IInv, TypeOK, Infinite
  <1>11. Bounds' /\ Safe'
    BY <1>1, <1>6, <1>9 DEF IInv, Bounds, Safe
  <1>12. /\ Consumed(v)' = c + 1
         /\ \A w \in Added : w # v => Consumed(w)' = Consumed(w)
    BY <1>1, <1>2, <1>3, <1>6 DEF Consumed, q
  <1>13. Iterators'
    <2>1. /\ left >= maxIdx - N * (c + 1)
          /\ left > 0 => left + N * (c + 1) <= size[v]
          /\ left # Null
      BY <1>2, <1>3, <1>4, <1>5, <1>7 DEF Null
    <2> QED
      BY <1>1, <1>6, <1>8, <1>9, <1>12, <2>1 DEF IInv, Iterators
  <1>14. Cutting'
    <2>1. \A w \in Added : /\ calls'[w] <= q + 1
                          /\ calls'[w] = 0 => at'[w] = q
      <3>1. calls'[v] <= q + 1 /\ (calls'[v] = 0 => at'[v] = q)
        BY <1>1, <1>2, <1>3, <1>5, <1>6
      <3>2. \A w \in Added : w # v =>
               calls'[w] = calls[w] /\ at'[w] = at[w]
        BY <1>1, <1>2, <1>6
      <3>3. \A w \in Added : calls[w] <= q + 1 /\ (calls[w] = 0 => at[w] = q)
        BY <1>2 DEF Cutting, q
      <3> QED
        BY <3>1, <3>2, <3>3
    <2> QED
      BY <1>1, <1>2, <1>9, <2>1, SMTT(60) DEF Cutting, q
  <1>15. Walk'
    BY <1>1, <1>6, <1>9, <1>14 DEF IInv, Walk
  <1> QED
    BY <1>10, <1>11, <1>13, <1>15 DEF IInv

\* The cells complete() names are those of the cut.
LEMMA CutCells ==
  ASSUME IInv, pc = "progress"
  PROVE  /\ Complete \subseteq 0 .. N - 1
         /\ {(cut.start \div N) * N + i : i \in Complete} = cut.start .. cut.end - 1
         /\ cut.end <= maxIdx /\ cut.start < cut.end
         /\ idx = cut.end \/ (maxIdx = cut.end /\ cut.end < idx)
  <1> DEFINE q == cut.start \div N
             b == q * N
             r == cut.start % N
             e == cut.end
             s == cut.start
  <1>1. Cutting /\ s \in Nat /\ e \in Nat /\ idx \in Nat /\ maxIdx \in Nat
        /\ N \in Nat \ {0}
    BY ZipRangeAssumption DEF IInv, Walk, TypeOK, Infinite
  <1>2. b \in Nat /\ r \in 0 .. N - 1 /\ s = b + r
    <2>1. q \in Nat /\ r \in 0 .. N - 1 /\ s = N * q + r /\ q * N = N * q
      BY <1>1, Division
    <2>2. N * q \in Nat
      BY <2>1, Product
    <2> HIDE DEF q, r
    <2> QED
      BY <2>1, <2>2
  <1>3. /\ idx = b + N /\ s < maxIdx
        /\ e = IF idx <= maxIdx THEN idx ELSE maxIdx
    <2>1. idx = b + N /\ s < maxIdx /\ e = Min({idx, maxIdx})
      BY <1>1 DEF Cutting, Border
    <2> QED
      BY <1>1, <2>1, MinTwo
  <1>4. Complete = r .. e - b - 1
    BY DEF Complete
  <1> HIDE DEF b, r, e, s
  <1>5. e <= maxIdx /\ s < e /\ (idx = e \/ (maxIdx = e /\ e < idx))
    BY <1>1, <1>2, <1>3
  <1>6. Complete \subseteq 0 .. N - 1
    BY <1>1, <1>2, <1>3, <1>4
  <1>7. {b + i : i \in Complete} = s .. e - 1
    <2>1. ASSUME NEW i \in Complete PROVE b + i \in s .. e - 1
      BY <1>1, <1>2, <1>4
    <2>2. ASSUME NEW j \in s .. e - 1 PROVE j - b \in Complete /\ j = b + (j - b)
      BY <1>1, <1>2, <1>4
    <2> QED
      BY <2>1, <2>2
  <1> QED
    BY <1>5, <1>6, <1>7 DEF b, e, s

\* What is looked at continues what was looked at.
LEMMA VisitStep == IInv /\ Visit => IInv'
  <1> SUFFICES ASSUME IInv, Visit PROVE IInv'
    OBVIOUS
  <1>1. /\ pc = "progress" /\ pc' = "next"
        /\ UNCHANGED <<taken, size, first, idx, maxIdx, iters, cut, calls, at, from>>
        /\ \A v \in Added : calls[v] = 0
    BY DEF Visit, vectors, range, walk
  <1>2. /\ Cutting /\ cut.start \in Nat /\ cut.end \in Nat /\ idx \in Nat
        /\ maxIdx \in 0 .. MaxLen /\ from \in Nat
    BY <1>1, ZipRangeAssumption DEF IInv, TypeOK, Walk, Bounds, Added
  <1>3. /\ cut.end <= maxIdx /\ cut.start < cut.end
        /\ idx = cut.end \/ (maxIdx = cut.end /\ cut.end < idx)
    BY <1>1, CutCells
  <1>4. visited' = from .. cut.end - 1
    <2>1. visited' = visited \cup (cut.start .. cut.end - 1)
      BY <1>1, CutCells DEF Visit
    <2>2. visited = from .. cut.start - 1 /\ from <= cut.start
      BY <1>2 DEF Cutting
    <2> QED
      BY <1>2, <1>3, <2>1, <2>2
  <1>5. Min({idx, maxIdx}) = cut.end
    BY <1>2, <1>3, MinTwo
  <1>6. idx % N = 0 /\ idx \div N = (cut.start \div N) + 1 /\ from <= idx
    <2>1. idx = Border(cut.start) /\ from <= cut.start
      BY <1>2 DEF Cutting
    <2>2. Border(cut.start) % N = 0 /\ Border(cut.start) \div N = (cut.start \div N) + 1
      BY <1>2, BorderNext
    <2> QED
      BY <1>2, <1>3, <2>1, <2>2
  <1>7. TypeOK'
    <2>1. visited' \subseteq 0 .. MaxLen - 1
      BY <1>2, <1>3, <1>4, ZipRangeAssumption
    <2> QED
      BY <1>1, <2>1 DEF IInv, TypeOK, Added
  <1>8. Bounds' /\ Safe'
    BY <1>1 DEF IInv, Bounds, Added, Safe
  <1>9. \A v \in Added : Consumed(v)' = Consumed(v)
    BY <1>1, <1>2, <1>6 DEF Consumed, Cutting
  <1>10. Iterators'
    BY <1>1, <1>9 DEF IInv, Iterators, Added
  <1>11. Walked'
    BY <1>1, <1>2, <1>4, <1>5, <1>6 DEF Walked, Cutting
  <1>12. Walk'
    BY <1>1, <1>11 DEF IInv, Walk, Added
  <1> QED
    BY <1>7, <1>8, <1>10, <1>12 DEF IInv

\* Another iterator begins like the first.
LEMMA RestartStep == IInv /\ Restart => IInv'
  BY NoVectorYet, ZipRangeAssumption
  DEF Restart, vectors, IInv, TypeOK, Bounds, Iterators, Walk, Safe, Added, Infinite, Null, NoCut

\* Every step keeps the invariant.
LEMMA StepInv == IInv /\ [Next]_vars => IInv'
  <1> SUFFICES ASSUME IInv, [Next]_vars PROVE IInv'
    OBVIOUS
  <1>1. CASE Loop
    BY <1>1, CutStep, ExhaustedStep, VisitStep, ChunkStep DEF Loop
  <1>2. CASE Start \/ Restart
    BY <1>2, StartStep, RestartStep
  <1>3. CASE \E v \in Vecs : Claim(v) \/ Announce(v) \/ Add(v) \/ Chunks(v)
    BY <1>3, PushStep, AddStep, ChunksStep
  <1>4. CASE UNCHANGED vars
    BY <1>4 DEF vars, vectors, range, walk, history, IInv, TypeOK, Bounds, Iterators, Walk,
       Safe, Added, Consumed, Walked, Cutting
  <1> QED
    BY <1>1, <1>2, <1>3, <1>4 DEF Next

-----------------------------------------------------------------------------
(* Theorems *)

\* The invariant holds in every reachable state.
THEOREM Invariance == Spec => []IInv
  BY InitInv, StepInv, PTL DEF Spec

\* Every variable keeps its type: no cut and no call count leaves its bounds.
THEOREM TypeCorrect == Spec => []TypeOK
  <1>1. IInv => TypeOK
    BY DEF IInv
  <1> QED
    BY <1>1, Invariance, PTL

\* progress() always finds the chunk of its cut: its unwrap() does not panic, and the
\* `next` pointer that was loaded with a chunk before is not null when it is followed.
THEOREM NoPanic == Spec => []Safe
  <1>1. IInv => Safe
    BY DEF IInv
  <1> QED
    BY <1>1, Invariance, PTL

\* All vectors are looked at in the indices of the cut, which each of them announced and
\* which are in the chunk progress() returned.
THEOREM AlignedWalk == Spec => []Aligned
  <1>1. IInv => Aligned
    <2> SUFFICES ASSUME IInv, pc = "progress", NEW v \in Added, calls[v] = 0
                 PROVE  /\ Complete \subseteq 0 .. N - 1
                        /\ Cells(v) = cut.start .. cut.end - 1
                        /\ Cells(v) \subseteq 0 .. size[v] - 1
      BY DEF Aligned
    <2>1. at[v] = cut.start \div N
      BY DEF IInv, Walk, Cutting
    <2>2. Cells(v) = {(cut.start \div N) * N + i : i \in Complete}
      BY <2>1 DEF Cells
    <2>3. /\ Complete \subseteq 0 .. N - 1
          /\ Cells(v) = cut.start .. cut.end - 1
          /\ cut.end <= maxIdx
      BY <2>2, CutCells
    <2>4. /\ maxIdx <= size[v] /\ maxIdx \in Nat /\ size[v] \in Nat
          /\ cut.start \in Nat /\ cut.end \in Nat
      BY ZipRangeAssumption DEF IInv, TypeOK, Bounds, Infinite, Added
    <2> QED
      BY <2>3, <2>4
  <1> QED
    BY <1>1, Invariance, PTL

\* The range is walked without a gap and to its end.
THEOREM WalkedInvariance == Spec => []WalkedSoFar
  <1>1. IInv => WalkedSoFar
    BY DEF IInv, Walk, Walked, WalkedSoFar
  <1> QED
    BY <1>1, Invariance, PTL
=============================================================================
