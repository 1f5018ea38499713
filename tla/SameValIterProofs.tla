-------------------------- MODULE SameValIterProofs --------------------------
(***************************************************************************)
(* Proofs about SameValIter, for every set of vectors and of ids.          *)
(***************************************************************************)
EXTENDS SameValIter, ExtremaProofs, TLAPS

-----------------------------------------------------------------------------
(* The inductive invariant *)

\* A snapshot that is not empty has a last id.  Ids are only added to a vector; what an
\* iterator took of it, and has left of that, is a part of it.
Snapshots ==
  /\ \A v \in Vecs : contents[v] # {} =>
       \E last \in contents[v] : \A id \in contents[v] : id <= last
  /\ \A v \in Vecs : rest[v] \subseteq data[v] /\ data[v] \subseteq contents[v]
  /\ \A v \in Vecs : since \subseteq contents[v]
  /\ \A v \in used : since \subseteq data[v]

\* Fresh or not, what was yielded is in every vector.
Yields == \A v \in used : yielded \subseteq data[v]

\* The cursor of v has not passed an id from i on.
Reach(v, i) == {id \in data[v] : id >= i} \subseteq rest[v]

\* All common ids lie in the range that add() narrows.
Adding ==
  /\ yielded = {} /\ todo = {}
  /\ \A v \in used : rest[v] = data[v]
  /\ fresh /\ finished => \A v \in used : data[v] = {}
  /\ fresh /\ ~finished =>
       /\ \E v \in used : data[v] # {}
       /\ \A id \in Common : entryId <= id /\ id <= entryMaxId

\* Between two entries.
Between ==
  /\ used # {} /\ todo = {}
  /\ fresh =>
       /\ yielded = IF finished \/ entryId > entryMaxId THEN Common
                    ELSE {id \in Common : id < entryId}
       /\ ~finished =>
            /\ \A v \in used : Reach(v, entryId)
            /\ \E v \in used : data[v] # {}
            /\ \A id \in Common : id <= entryMaxId

\* An entry is valid as long as the vectors asked have its id.  The common ids behind
\* it are not before the next one it proposes, and if it proposes none, there are none.
Within ==
  /\ used # {} /\ ~finished
  /\ entry.valid => \A v \in used \ todo : entry.id \in data[v]
  /\ todo = used => entry.valid
  /\ fresh =>
       /\ yielded = {id \in Common : id < entry.id}
       /\ ~entry.valid => entry.id \notin Common
       /\ \E v \in used : data[v] # {}
       /\ \A id \in Common : id <= entryMaxId
       /\ entry.id <= entry.next
       /\ todo # used => entry.finished \/ entry.id < entry.next
       /\ \A v \in todo : Reach(v, entry.id)
       /\ ~entry.finished => \A v \in used \ todo : Reach(v, entry.next)
       /\ \A id \in Common : id > entry.id => ~entry.finished /\ id >= entry.next

Ended ==
  /\ pc = "done" => used # {} /\ (fresh => yielded = Common)
  /\ pc = "panic" => /\ \E v \in used : data[v] = {}
                     /\ fresh => \E v \in used : data[v] # {}

Round ==
  /\ pc = "add" => Adding
  /\ pc = "next" => Between
  /\ pc = "progress" => Within
  /\ Ended

IInv == TypeOK /\ Snapshots /\ Yields /\ Round

-----------------------------------------------------------------------------
(* Least and greatest ids *)

\* Some ids have a least one.
LEMMA LeastId ==
  ASSUME NEW S \in SUBSET Ids, S # {}
  PROVE  Min(S) \in S /\ \A id \in S : Min(S) <= id
  BY LeastOf, SameValAssumption

\* A snapshot that has a last id has a greatest one.
LEMMA LastId ==
  ASSUME NEW S \in SUBSET Ids, \E last \in S : \A id \in S : id <= last
  PROVE  Max(S) \in S /\ \A id \in S : id <= Max(S)
  <1>1. PICK last \in S : \A id \in S : last >= id
    BY SameValAssumption
  <1>2. Max(S) \in S /\ \A id \in S : Max(S) >= id
    BY <1>1 DEF Max
  <1> QED
    BY <1>2, SameValAssumption

\* Ids are numbers.
LEMMA Numbers ==
  ASSUME IInv
  PROVE  /\ finished \in BOOLEAN /\ entryId \in Nat /\ entryMaxId \in Nat
         /\ Common \subseteq Ids /\ Common \subseteq Nat /\ Ids \subseteq Nat
         /\ \A v \in Vecs : data[v] \subseteq Nat /\ rest[v] \subseteq Nat
         /\ entry.id \in Nat /\ entry.next \in Nat
  <1>1. Ids \subseteq Nat
    BY SameValAssumption
  <1>2. finished \in BOOLEAN /\ entryId \in Ids \cup {0} /\ entryMaxId \in Ids \cup {0}
    BY DEF IInv, TypeOK
  <1>3. Common \subseteq Ids
    BY DEF Common
  <1>4. \A v \in Vecs : data[v] \subseteq Ids /\ rest[v] \subseteq Ids
    BY DEF IInv, TypeOK
  <1>5. entry.id \in Ids \cup {0} /\ entry.next \in Ids \cup {0}
    BY DEF IInv, TypeOK
  <1>6. /\ entryId \in Nat /\ entryMaxId \in Nat
        /\ entry.id \in Nat /\ entry.next \in Nat
    <2>1. \A x \in Ids \cup {0} : x \in Nat
      BY <1>1
    <2> QED
      BY <1>2, <1>5, <2>1, Zenon
  <1>7. \A S \in SUBSET Ids : S \subseteq Nat
    BY <1>1
  <1> QED
    BY <1>1, <1>2, <1>3, <1>4, <1>6, <1>7, Zenon

\* What progress() changes of an entry.
LEMMA Updated ==
  ASSUME NEW S, NEW e \in [id : S, next : S, valid : BOOLEAN, finished : BOOLEAN],
         NEW f, NEW valid \in BOOLEAN, NEW finish \in BOOLEAN, NEW next \in S,
         f = [e EXCEPT !.valid = valid, !.finished = finish, !.next = next]
  PROVE  /\ f \in [id : S, next : S, valid : BOOLEAN, finished : BOOLEAN]
         /\ f.id = e.id /\ f.next = next /\ f.valid = valid /\ f.finished = finish
  OBVIOUS

-----------------------------------------------------------------------------
(* The steps *)

\* Nothing was taken of a vector and nothing yielded in the beginning.
LEMMA InitInv == Init => IInv
  BY DEF Init, IInv, TypeOK, Snapshots, Yields, Round, Adding, Ended, NoEntry, Common

\* An id inserted by another thread changes no snapshot that was taken.
LEMMA InsertStep ==
  ASSUME IInv, NEW v \in Vecs, NEW id \in Ids, Insert(v, id)
  PROVE  IInv'
  <1>1. /\ UNCHANGED <<inner, states, entry, todo, pc, yielded, history>>
        /\ contents' = [contents EXCEPT ![v] = @ \cup {id}]
        /\ contents \in [Vecs -> SUBSET Ids]
    BY DEF Insert, IInv, TypeOK
  <1>2. /\ contents' \in [Vecs -> SUBSET Ids]
        /\ \A w \in Vecs : contents[w] \subseteq contents'[w]
        /\ \A w \in Vecs : w # v => contents'[w] = contents[w]
        /\ contents'[v] = contents[v] \cup {id}
    BY <1>1
  <1>3. TypeOK'
    BY <1>1, <1>2 DEF inner, states, history, IInv, TypeOK
  <1>4. \A w \in Vecs : contents'[w] # {} =>
          \E last \in contents'[w] : \A i \in contents'[w] : i <= last
    <2>1. \E last \in contents'[v] : \A i \in contents'[v] : i <= last
      <3>1. CASE contents[v] = {}
        BY <1>2, <3>1, SameValAssumption
      <3>2. CASE contents[v] # {}
        <4>1. PICK last \in contents[v] : \A i \in contents[v] : i <= last
          BY <3>2 DEF IInv, Snapshots
        <4>2. contents[v] \subseteq Nat /\ id \in Nat
          BY <1>1, SameValAssumption
        <4>3. CASE id <= last
          BY <1>2, <4>1, <4>3
        <4>4. CASE ~(id <= last)
          <5>1. \A i \in contents'[v] : i <= id
            BY <1>2, <4>1, <4>2, <4>4
          <5> QED
            BY <1>2, <5>1
        <4> QED
          BY <4>3, <4>4
      <3> QED
        BY <3>1, <3>2
    <2> QED
      BY <1>2, <2>1 DEF IInv, Snapshots
  <1>5. Snapshots'
    BY <1>1, <1>2, <1>4 DEF IInv, TypeOK, Snapshots, states, history
  <1>6. Yields' /\ Round'
    BY <1>1 DEF IInv, Yields, Round, Adding, Between, Within, Ended, Reach, Common,
       inner, states, history
  <1> QED
    BY <1>3, <1>5, <1>6 DEF IInv

\* add() narrows the range to the ids between the first and the last of the vector.
LEMMA AddStep ==
  ASSUME IInv, NEW v \in Vecs, Add(v)
  PROVE  IInv'
  <1> DEFINE S == contents[v]
  <1>1. /\ pc = "add" /\ v \notin used /\ Adding
        /\ used' = used \cup {v}
        /\ data' = [data EXCEPT ![v] = S]
        /\ rest' = [rest EXCEPT ![v] = S]
        /\ UNCHANGED <<contents, entry, todo, pc, yielded, fresh>>
    BY DEF Add, IInv, Round
  <1>2. /\ contents \in [Vecs -> SUBSET Ids] /\ finished \in BOOLEAN
        /\ data \in [Vecs -> SUBSET Ids] /\ rest \in [Vecs -> SUBSET Ids]
        /\ {entryId, entryMaxId} \subseteq Ids \cup {0} /\ Ids \subseteq Nat
        /\ used \subseteq Vecs /\ todo \subseteq used /\ since \subseteq Ids
    BY SameValAssumption DEF IInv, TypeOK
  <1>3. /\ data' \in [Vecs -> SUBSET Ids] /\ rest' \in [Vecs -> SUBSET Ids]
        /\ data'[v] = S /\ rest'[v] = S
        /\ \A w \in Vecs : w # v => data'[w] = data[w] /\ rest'[w] = rest[w]
    BY <1>1, <1>2
  <1>4. S = {} => UNCHANGED inner
    BY DEF Add
  <1>5. S # {} => /\ finished' = FALSE
                  /\ entryId' = IF finished THEN Min(S) ELSE Larger(entryId, Min(S))
                  /\ entryMaxId' = IF finished THEN Max(S) ELSE Smaller(entryMaxId, Max(S))
    BY DEF Add
  <1>6. S # {} => /\ Min(S) \in S /\ \A id \in S : Min(S) <= id
                  /\ Max(S) \in S /\ \A id \in S : id <= Max(S)
    BY <1>2, LeastId, LastId DEF IInv, Snapshots
  <1>7. since' = IF used = {} THEN {id \in Ids : \A w \in Vecs : id \in contents[w]} ELSE since
    BY DEF Add
  <1> DEFINE mn == Min(S)
             mx == Max(S)
  <1> HIDE DEF mn, mx
  <1>8. TypeOK'
    <2>1. finished' \in BOOLEAN /\ {entryId', entryMaxId'} \subseteq Ids \cup {0}
      <3>1. CASE S = {}
        BY <1>2, <1>4, <3>1 DEF inner
      <3>2. CASE S # {}
        BY <1>2, <1>5, <1>6, <3>2 DEF Larger, Smaller
      <3> QED
        BY <3>1, <3>2
    <2>2. since' \subseteq Ids /\ used' \subseteq Vecs /\ todo' \subseteq used'
      BY <1>1, <1>2, <1>7
    <2> QED
      BY <1>1, <1>3, <2>1, <2>2 DEF IInv, TypeOK
  <1>9. Snapshots'
    <2>1. \A w \in Vecs : rest'[w] \subseteq data'[w] /\ data'[w] \subseteq contents'[w]
      BY <1>1, <1>3 DEF IInv, Snapshots
    <2>2. \A w \in Vecs : since' \subseteq contents'[w]
      BY <1>1, <1>7 DEF IInv, Snapshots
    <2>3. \A w \in used' : since' \subseteq data'[w]
      <3>1. since' \subseteq data'[v]
        BY <1>1, <1>3, <2>2
      <3>2. \A w \in used : since' = since /\ since \subseteq data[w] /\ data'[w] = data[w]
        BY <1>1, <1>2, <1>3, <1>7 DEF IInv, Snapshots
      <3> QED
        BY <1>1, <3>1, <3>2
    <2> QED
      BY <1>1, <2>1, <2>2, <2>3 DEF IInv, Snapshots
  <1>10. Yields'
    BY <1>1 DEF Yields, Adding
  <1>11. \A w \in used : data'[w] = data[w] /\ rest'[w] = rest[w]
    BY <1>1, <1>2, <1>3
  <1>12. \A id \in Common' : id \in Common /\ id \in S
    BY <1>1, <1>3, <1>11 DEF Common
  <1>13. Common' \subseteq Nat
    BY <1>2 DEF Common
  <1>14. Adding'
    <2>1. yielded' = {} /\ todo' = {} /\ \A w \in used' : rest'[w] = data'[w]
      BY <1>1, <1>3, <1>11 DEF Adding
    <2>2. ASSUME fresh, finished' PROVE \A w \in used' : data'[w] = {}
      BY <1>1, <1>3, <1>4, <1>5, <1>11, <2>2 DEF Adding, inner
    <2>3. ASSUME fresh, ~finished' PROVE \E w \in used' : data'[w] # {}
      BY <1>1, <1>3, <1>4, <1>11, <2>3 DEF Adding, inner
    <2>4. ASSUME fresh, ~finished', NEW id \in Common' PROVE entryId' <= id /\ id <= entryMaxId'
      <3>1. S # {} /\ Min(S) <= id /\ id <= Max(S) /\ Min(S) \in Nat /\ Max(S) \in Nat
        BY <1>2, <1>6, <1>12
      <3>2. CASE finished
        BY <1>5, <3>1, <3>2
      <3>3. CASE ~finished
        <4>1. entryId <= id /\ id <= entryMaxId
          BY <1>1, <1>12, <2>4, <3>3 DEF Adding
        <4> QED
          BY <1>5, <3>1, <3>3, <4>1 DEF Larger, Smaller
      <3> QED
        BY <3>2, <3>3
    <2> QED
      BY <1>1, <2>1, <2>2, <2>3, <2>4 DEF Adding
  <1>15. Round'
    BY <1>1, <1>14 DEF Round, Ended
  <1> QED
    BY <1>8, <1>9, <1>10, <1>15 DEF IInv

\* The round begins.
LEMMA StartStep == IInv /\ Start => IInv'
  <1> SUFFICES ASSUME IInv, Start PROVE IInv'
    OBVIOUS
  <1>1. /\ pc = "add" /\ pc' = "next" /\ used # {} /\ Adding
        /\ UNCHANGED <<contents, inner, states, entry, todo, yielded, history>>
    BY DEF Start, IInv, Round
  <1>2. entryId \in Nat /\ entryMaxId \in Nat /\ Common \subseteq Nat
    BY Numbers
  <1>3. TypeOK' /\ Snapshots' /\ Yields'
    BY <1>1 DEF IInv, TypeOK, Snapshots, Yields, inner, states, history
  <1>4. Between
    <2>1. fresh => yielded = IF finished \/ entryId > entryMaxId THEN Common
                             ELSE {id \in Common : id < entryId}
      <3> SUFFICES ASSUME fresh
                   PROVE  yielded = IF finished \/ entryId > entryMaxId THEN Common
                                    ELSE {id \in Common : id < entryId}
        OBVIOUS
      <3>1. yielded = {}
        BY <1>1 DEF Adding
      <3>2. CASE finished
        <4>1. Common = {}
          BY <1>1, <3>2 DEF Adding, Common
        <4> QED
          BY <3>1, <3>2, <4>1
      <3>3. CASE ~finished
        <4>1. \A id \in Common : entryId <= id /\ id <= entryMaxId
          BY <1>1, <3>3 DEF Adding
        <4>2. entryId > entryMaxId => Common = {}
          BY <1>2, <4>1
        <4>3. \A id \in Common : ~(id < entryId)
          BY <1>2, <4>1
        <4> QED
          BY <3>1, <3>3, <4>2, <4>3
      <3> QED
        BY <3>2, <3>3
    <2>2. fresh /\ ~finished => /\ \A v \in used : Reach(v, entryId)
                               /\ \E v \in used : data[v] # {}
                               /\ \A id \in Common : id <= entryMaxId
      BY <1>1 DEF Adding, Reach
    <2> QED
      BY <1>1, <2>1, <2>2 DEF Adding, Between
  <1>5. Round'
    BY <1>1, <1>4 DEF Round, Between, Ended, Reach, Common, inner, states, history
  <1> QED
    BY <1>3, <1>5 DEF IInv

\* next() proposes the id that was tried for next.
LEMMA NextEntryStep == IInv /\ NextEntry => IInv'
  <1> SUFFICES ASSUME IInv, NextEntry PROVE IInv'
    OBVIOUS
  <1>1. /\ pc = "next" /\ pc' = "progress" /\ Between
        /\ ~finished /\ entryId <= entryMaxId
        /\ entry' = [id |-> entryId, next |-> entryId, valid |-> TRUE, finished |-> FALSE]
        /\ todo' = used
        /\ UNCHANGED <<contents, inner, states, yielded, history>>
    BY DEF NextEntry, IInv, Round
  <1>2. entryId \in Nat /\ entryMaxId \in Nat /\ Common \subseteq Nat
    BY Numbers
  <1>3. TypeOK' /\ Snapshots' /\ Yields'
    BY <1>1 DEF IInv, TypeOK, Snapshots, Yields, inner, states, history
  <1>4. Common' = Common /\ \A v, i : Reach(v, i)' = Reach(v, i)'
    BY <1>1 DEF Common, states
  <1>5. Within'
    BY <1>1, <1>2, <1>4 DEF Within, Between, Reach, inner, states, history
  <1> QED
    BY <1>1, <1>3, <1>5 DEF IInv, Round, Ended

\* next() returns None: all common ids were yielded.
LEMMA ExhaustedStep == IInv /\ Exhausted => IInv'
  <1> SUFFICES ASSUME IInv, Exhausted PROVE IInv'
    OBVIOUS
  <1>1. /\ pc = "next" /\ pc' = "done" /\ Between
        /\ finished \/ entryId > entryMaxId
        /\ UNCHANGED <<contents, inner, states, entry, todo, yielded, history>>
    BY DEF Exhausted, IInv, Round
  <1>2. TypeOK' /\ Snapshots' /\ Yields'
    BY <1>1 DEF IInv, TypeOK, Snapshots, Yields, inner, states, history
  <1>3. Common' = Common
    BY <1>1 DEF Common, states
  <1>4. Round'
    BY <1>1, <1>3 DEF Round, Between, Ended, states, history
  <1> QED
    BY <1>2, <1>4 DEF IInv

\* A vector that was empty.
LEMMA PanicStep ==
  ASSUME IInv, NEW v \in Vecs, ProgressPanic(v)
  PROVE  IInv'
  <1>1. /\ pc = "progress" /\ pc' = "panic" /\ Within
        /\ v \in todo /\ data[v] = {}
        /\ UNCHANGED <<contents, inner, states, entry, todo, yielded, history>>
    BY DEF ProgressPanic, IInv, Round
  <1>2. TypeOK' /\ Snapshots' /\ Yields'
    BY <1>1 DEF IInv, TypeOK, Snapshots, Yields, inner, states, history
  <1>3. v \in used
    BY <1>1 DEF IInv, TypeOK
  <1>4. Round'
    BY <1>1, <1>3 DEF Round, Within, Ended, states, history
  <1> QED
    BY <1>2, <1>4 DEF IInv

\* A vector that is not asked keeps its cursor at the id.
LEMMA SkipStep ==
  ASSUME IInv, NEW v \in Vecs, ProgressSkip(v)
  PROVE  IInv'
  <1>1. /\ pc = "progress" /\ Within
        /\ v \in todo /\ ~entry.valid /\ todo' = todo \ {v}
        /\ UNCHANGED <<contents, inner, states, entry, pc, yielded, history>>
    BY DEF ProgressSkip, IInv, Round
  <1>2. TypeOK' /\ Snapshots' /\ Yields'
    BY <1>1 DEF IInv, TypeOK, Snapshots, Yields, inner, states, history
  <1>3. /\ todo \subseteq used /\ todo # used /\ todo' # used
        /\ used \ todo' = (used \ todo) \cup {v}
    BY <1>1 DEF Within, IInv, TypeOK
  <1>4. Common' = Common
    BY <1>1 DEF Common, states
  <1>5. entry.id \in Nat /\ entry.next \in Nat /\ data[v] \subseteq Nat
    BY <1>1, <1>3, Numbers DEF IInv, TypeOK
  <1>6. fresh => Reach(v, entry.next)
    BY <1>1, <1>5 DEF Within, Reach
  <1>7. Within'
    BY <1>1, <1>3, <1>4, <1>6 DEF Within, Reach, inner, states, history
  <1> QED
    BY <1>1, <1>2, <1>7 DEF IInv, Round, Ended

\* A vector that is asked moves its cursor behind the id and proposes its own next one.
LEMMA ProgressStep ==
  ASSUME IInv, NEW v \in Vecs, Progress(v)
  PROVE  IInv'
  <1> DEFINE i == entry.id
             n == entry.next
             after == {id \in rest[v] : id > i}
             valid == i \in rest[v]
             finish == entry.finished \/ after = {}
             next == IF after = {} THEN n ELSE Larger(n, Min(after))
  <1>1. /\ pc = "progress" /\ Within
        /\ v \in todo /\ entry.valid /\ todo' = todo \ {v}
        /\ UNCHANGED <<contents, inner, used, data, pc, yielded, history>>
        /\ rest' = [rest EXCEPT ![v] = after]
        /\ entry' = [entry EXCEPT !.valid = valid, !.finished = finish, !.next = next]
    BY DEF Progress, IInv, Round
  <1>2. /\ rest \in [Vecs -> SUBSET Ids]
        /\ data[v] \subseteq Nat /\ rest[v] \subseteq Nat /\ rest[v] \subseteq data[v]
        /\ entry \in [id : Ids \cup {0}, next : Ids \cup {0}, valid : BOOLEAN,
                      finished : BOOLEAN]
        /\ i \in Nat /\ n \in Ids \cup {0} /\ n \in Nat /\ entry.finished \in BOOLEAN
        /\ todo \subseteq used /\ used \subseteq Vecs
    <2>1. rest \in [Vecs -> SUBSET Ids] /\ todo \subseteq used /\ used \subseteq Vecs
      BY DEF IInv, TypeOK
    <2>2. entry \in [id : Ids \cup {0}, next : Ids \cup {0}, valid : BOOLEAN,
                    finished : BOOLEAN]
      BY DEF IInv, TypeOK
    <2>3. rest[v] \subseteq data[v]
      BY DEF IInv, Snapshots
    <2> QED
      BY <2>1, <2>2, <2>3, Numbers
  <1>3. after # {} => Min(after) \in after /\ \A id \in after : Min(after) <= id
    BY <1>2, LeastId
  <1>4. /\ next \in Ids \cup {0} /\ next \in Nat /\ n <= next
        /\ \A id \in after : i < id /\ i < next
        /\ after # {} => Min(after) <= next /\ i < next
        /\ \A id \in after : id >= n => id >= next
    BY <1>2, <1>3 DEF Larger
  <1>5. /\ rest'[v] = after /\ rest' \in [Vecs -> SUBSET Ids]
        /\ \A w \in Vecs : w # v => rest'[w] = rest[w]
    BY <1>1, <1>2
  <1> HIDE DEF valid, finish, next
  <1>6. /\ entry' \in [id : Ids \cup {0}, next : Ids \cup {0}, valid : BOOLEAN,
                       finished : BOOLEAN]
        /\ entry'.id = i /\ entry'.next = next
        /\ entry'.valid = valid /\ entry'.finished = finish
    <2>1. valid \in BOOLEAN /\ finish \in BOOLEAN
      BY DEF valid, finish
    <2> QED
      BY <1>1, <1>2, <1>4, <2>1, Updated
  <1>7. TypeOK'
    BY <1>1, <1>2, <1>5, <1>6 DEF IInv, TypeOK, inner, history
  <1>8. Snapshots' /\ Yields'
    BY <1>1, <1>5 DEF IInv, Snapshots, Yields, history
  <1>9. Common' = Common /\ \A id \in Common : id \in data[v] /\ id \in Nat
    BY <1>1, <1>2, Numbers DEF Common
  <1>10. used \ todo' = (used \ todo) \cup {v} /\ todo' # used
    BY <1>1, <1>2
  <1>11. entry'.valid => \A w \in used \ todo' : i \in data[w]
    BY <1>1, <1>2, <1>6, <1>10 DEF Within, valid
  <1>12. ASSUME fresh
         PROVE  /\ yielded = {id \in Common : id < i}
                /\ ~entry'.valid => i \notin Common
                /\ i <= next
                /\ entry'.finished \/ i < next
                /\ \A w \in todo' : {id \in data[w] : id >= i} \subseteq rest'[w]
                /\ ~entry'.finished =>
                     \A w \in used \ todo' : {id \in data[w] : id >= next} \subseteq rest'[w]
                /\ \A id \in Common : id > i => ~entry'.finished /\ id >= next
    <2>1. yielded = {id \in Common : id < i} /\ i <= n
      BY <1>1, <1>12 DEF Within
    <2>2. \A id \in data[v] : id >= i => id \in rest[v]
      BY <1>1, <1>12 DEF Within, Reach
    <2>3. ~entry'.valid => i \notin Common
      BY <1>2, <1>6, <1>9, <2>2 DEF valid
    <2>4. i <= next
      BY <1>2, <1>4, <2>1
    <2>5. entry'.finished \/ i < next
      BY <1>4, <1>6 DEF finish
    <2>6. \A w \in todo' : {id \in data[w] : id >= i} \subseteq rest'[w]
      BY <1>1, <1>2, <1>5, <1>12 DEF Within, Reach
    <2>7. ASSUME ~entry'.finished, NEW w \in used \ todo'
          PROVE  {id \in data[w] : id >= next} \subseteq rest'[w]
      <3>1. CASE w = v
        <4>1. \A id \in data[v] : id >= next => id \in after
          BY <1>2, <1>4, <1>6, <2>2, <2>5, <2>7
        <4> QED
          BY <1>5, <3>1, <4>1
      <3>2. CASE w # v
        <4>1. w \in used \ todo /\ ~entry.finished
          BY <1>6, <1>10, <2>7, <3>2 DEF finish
        <4>2. \A id \in data[w] : id >= n => id \in rest[w]
          BY <1>1, <1>12, <4>1 DEF Within, Reach
        <4>3. \A id \in data[w] : id >= next => id >= n
          BY <1>2, <1>4, <4>1, SameValAssumption DEF IInv, TypeOK
        <4> QED
          BY <1>2, <1>5, <3>2, <4>2, <4>3
      <3> QED
        BY <3>1, <3>2
    <2>8. ASSUME NEW id \in Common, id > i PROVE ~entry'.finished /\ id >= next
      <3>1. id \in after
        BY <1>2, <1>9, <2>2, <2>8
      <3>2. ~entry.finished /\ id >= n
        BY <1>1, <1>12, <2>8 DEF Within
      <3> QED
        BY <1>4, <1>6, <3>1, <3>2 DEF finish
    <2> QED
      BY <2>1, <2>3, <2>4, <2>5, <2>6, <2>7, <2>8
  <1>13. Within'
    BY <1>1, <1>6, <1>9, <1>10, <1>11, <1>12 DEF Within, Reach, inner, history
  <1> QED
    BY <1>1, <1>7, <1>8, <1>13 DEF IInv, Round, Ended

\* complete_is_valid(): a valid entry is common; the ids up to the next one are done with.
LEMMA CompleteStep == IInv /\ Complete => IInv'
  <1> SUFFICES ASSUME IInv, Complete PROVE IInv'
    OBVIOUS
  <1> DEFINE i == entry.id
             n == entry.next
  <1>1. /\ pc = "progress" /\ pc' = "next" /\ Within /\ todo = {}
        /\ IF entry.finished THEN finished' = TRUE /\ UNCHANGED entryId
           ELSE entryId' = n /\ UNCHANGED finished
        /\ yielded' = IF entry.valid THEN yielded \cup {i} ELSE yielded
        /\ entry' = NoEntry
        /\ UNCHANGED <<contents, entryMaxId, states, todo, history>>
    BY DEF Complete, IInv, Round
  <1>2. /\ used # {} /\ ~finished /\ todo # used
        /\ entry.valid => \A v \in used : i \in data[v]
    BY <1>1 DEF Within
  <1>3. /\ data \in [Vecs -> SUBSET Ids] /\ used \subseteq Vecs
        /\ n \in Ids \cup {0}
    BY DEF IInv, TypeOK
  <1>4. entry.valid => i \in Common
    BY <1>2, <1>3 DEF Common
  <1>5. TypeOK'
    <2>1. finished' \in BOOLEAN /\ entryId' \in Ids \cup {0}
      BY <1>1, <1>3 DEF IInv, TypeOK
    <2>2. yielded' \subseteq Ids
      BY <1>1, <1>4, Numbers DEF IInv, TypeOK
    <2>3. entry' \in [id : Ids \cup {0}, next : Ids \cup {0}, valid : BOOLEAN,
                     finished : BOOLEAN]
      BY <1>1 DEF NoEntry
    <2> QED
      BY <1>1, <2>1, <2>2, <2>3 DEF IInv, TypeOK, states, history
  <1>6. Snapshots' /\ Yields'
    BY <1>1, <1>2 DEF IInv, Snapshots, Yields, states, history
  <1>7. Common' = Common
    BY <1>1 DEF Common, states
  <1>8. ASSUME fresh
        PROVE  /\ yielded' = IF finished' \/ entryId' > entryMaxId THEN Common
                             ELSE {id \in Common : id < entryId'}
               /\ ~finished' => \A v \in used : {id \in data[v] : id >= entryId'} \subseteq rest[v]
               /\ \E v \in used : data[v] # {}
               /\ \A id \in Common : id <= entryMaxId
    <2>1. /\ yielded = {id \in Common : id < i}
          /\ ~entry.valid => i \notin Common
          /\ \E v \in used : data[v] # {}
          /\ \A id \in Common : id <= entryMaxId
          /\ entry.finished \/ i < n
          /\ \A id \in Common : id > i => ~entry.finished /\ id >= n
      BY <1>1, <1>2, <1>8 DEF Within
    <2>2. ~entry.finished => \A v \in used : {id \in data[v] : id >= n} \subseteq rest[v]
      BY <1>1, <1>8 DEF Within, Reach
    <2>3. yielded' = {id \in Common : id <= i}
      <3>1. \A id \in Common : id <= i <=> id < i \/ id = i
        BY Numbers
      <3>2. CASE entry.valid
        BY <1>1, <1>4, <2>1, <3>1, <3>2
      <3>3. CASE ~entry.valid
        BY <1>1, <2>1, <3>1, <3>3
      <3> QED
        BY <3>2, <3>3
    <2>4. CASE entry.finished
      <3>1. finished' = TRUE
        BY <1>1, <2>4
      <3>2. \A id \in Common : id <= i
        BY <2>1, <2>4, Numbers
      <3> QED
        BY <2>1, <2>3, <3>1, <3>2
    <2>5. CASE ~entry.finished
      <3>1. entryId' = n /\ ~finished' /\ i < n
        BY <1>1, <1>2, <2>1, <2>5
      <3>2. \A id \in Common : id <= i <=> id < n
        BY <2>1, <3>1, Numbers
      <3>3. n > entryMaxId => \A id \in Common : id < n
        BY <2>1, Numbers
      <3> QED
        BY <2>1, <2>2, <2>3, <2>5, <3>1, <3>2, <3>3
    <2> QED
      BY <2>4, <2>5
  <1>9. Between'
    BY <1>1, <1>2, <1>7, <1>8 DEF Between, Reach, states, history
  <1> QED
    BY <1>1, <1>5, <1>6, <1>9 DEF IInv, Round, Ended

\* The caller breaks out of its loop.
LEMMA BreakStep == IInv /\ Break => IInv'
  BY DEF Break, IInv, TypeOK, Snapshots, Yields, Round, Ended, inner, states, history

\* Another round, with the same iterator or a new one; one that was walked to its end is
\* as good as new.
LEMMA RestartStep == IInv /\ (NewIter \/ Reuse) => IInv'
  <1> SUFFICES ASSUME IInv, NewIter \/ Reuse PROVE IInv'
    OBVIOUS
  <1>1. /\ pc' = "add" /\ used' = {} /\ todo' = {} /\ yielded' = {} /\ since' = {}
        /\ data' = [v \in Vecs |-> {}] /\ rest' = [v \in Vecs |-> {}]
        /\ entry' = NoEntry /\ UNCHANGED contents
    BY DEF NewIter, Reuse, Restart
  <1>2. /\ finished' \in BOOLEAN /\ {entryId', entryMaxId'} \subseteq Ids \cup {0}
        /\ fresh' \in BOOLEAN /\ (fresh' => finished')
    <2>1. CASE NewIter
      BY <2>1 DEF NewIter
    <2>2. CASE Reuse
      BY <2>2 DEF Reuse, inner, IInv, TypeOK
    <2> QED
      BY <2>1, <2>2
  <1>3. TypeOK' /\ Snapshots' /\ Yields'
    BY <1>1, <1>2 DEF IInv, TypeOK, Snapshots, Yields, NoEntry
  <1>4. Round'
    BY <1>1, <1>2 DEF Round, Adding, Ended
  <1> QED
    BY <1>3, <1>4 DEF IInv

\* Every step keeps the invariant.
LEMMA StepInv == IInv /\ [Next]_vars => IInv'
  <1> SUFFICES ASSUME IInv, [Next]_vars PROVE IInv'
    OBVIOUS
  <1>1. CASE Loop
    BY <1>1, NextEntryStep, ExhaustedStep, CompleteStep, PanicStep, SkipStep, ProgressStep DEF Loop
  <1>2. CASE Start \/ Break \/ NewIter \/ Reuse
    BY <1>2, StartStep, BreakStep, RestartStep
  <1>3. CASE \E v \in Vecs : Add(v) \/ \E id \in Ids : Insert(v, id)
    BY <1>3, AddStep, InsertStep
  <1>4. CASE UNCHANGED vars
    BY <1>4 DEF vars, inner, states, history, IInv, TypeOK, Snapshots, Yields, Round,
       Adding, Between, Within, Ended, Reach, Common
  <1> QED
    BY <1>1, <1>2, <1>3, <1>4 DEF Next

-----------------------------------------------------------------------------
(* Theorems *)

\* The invariant holds in every reachable state.
THEOREM Invariance == Spec => []IInv
  BY InitInv, StepInv, PTL DEF Spec

\* Every variable keeps its type: what next() proposes is an id of some vector.
THEOREM TypeCorrect == Spec => []TypeOK
  <1>1. IInv => TypeOK
    BY DEF IInv
  <1> QED
    BY <1>1, Invariance, PTL

\* Between two entries of a fresh round the common ids below the next one to try were
\* yielded, no other id was, and no cursor has passed an id from there on.
THEOREM YieldsInOrder == Spec => []YieldedSoFar
  <1>1. IInv => YieldedSoFar
    BY DEF IInv, Round, Between, Reach, YieldedSoFar
  <1> QED
    BY <1>1, Invariance, PTL

\* A round that is fresh yields every id all vectors had when it began, and no round an
\* id a vector does not have; a panic means that a vector was empty, in a fresh round
\* next to one that was not.
THEOREM RoundsComplete == Spec => []RoundComplete
  <1>1. IInv => RoundComplete
    <2> SUFFICES ASSUME IInv PROVE RoundComplete
      OBVIOUS
    <2>1. ASSUME pc = "done", fresh PROVE since \subseteq yielded
      <3>1. since \subseteq Common
        BY DEF IInv, TypeOK, Snapshots, Common
      <3> QED
        BY <2>1, <3>1 DEF IInv, Round, Ended
    <2>2. \A v \in used : yielded \subseteq contents[v]
      BY DEF IInv, TypeOK, Snapshots, Yields
    <2>3. pc = "panic" => /\ \E v \in used : data[v] = {}
                          /\ fresh => \E v \in used : data[v] # {}
      BY DEF IInv, Round, Ended
    <2> QED
      BY <2>1, <2>2, <2>3 DEF RoundComplete
  <1> QED
    BY <1>1, Invariance, PTL
=============================================================================
