---------------------------- MODULE SameValIter ----------------------------
(***************************************************************************)
(* SameValIter: one thread walks the entries whose id several IVecs have   *)
(* in common, while other threads insert.  add() takes a vector's current  *)
(* snapshot; next() proposes an id; progress() moves one vector's cursor   *)
(* up to it; complete_is_valid() says whether all of them had it.          *)
(*                                                                         *)
(* A snapshot is the set of its ids, and a cursor the ids at and behind    *)
(* `idx`: the linear and the binary search of progress() both leave the    *)
(* ids above the one looked for.                                           *)
(***************************************************************************)
EXTENDS Naturals, FiniteSets, FiniteSetsExt

CONSTANTS
  Vecs,  \* the IVecs that are walked together
  Ids    \* ids of their entries, ordered

ASSUME SameValAssumption == IsFiniteSet(Vecs) /\ Ids \subseteq Nat

VARIABLES
  contents,                      \* vector -> ids in its root snapshot
  finished, entryId, entryMaxId, \* SameValIterInner
  used,                          \* the vectors added
  data, rest,                    \* vector -> SameValIterState: data, and data[idx..]
  entry,                         \* the SameValIterEntry in hand
  todo,                          \* the vectors progress() is still to be called for
  pc,                            \* where the caller's loop is
  yielded,                       \* history: ids of the valid entries of this round
  since,                         \* history: ids all of Vecs had when the round began
  fresh                          \* history: the round began with nothing left over

inner == <<finished, entryId, entryMaxId>>
states == <<used, data, rest>>
history == <<since, fresh>>
vars == <<contents, inner, states, entry, todo, pc, yielded, history>>

NoEntry == [id |-> 0, next |-> 0, valid |-> FALSE, finished |-> FALSE]
Larger(a, b) == IF a > b THEN a ELSE b
Smaller(a, b) == IF a < b THEN a ELSE b

Init ==
  /\ contents = [v \in Vecs |-> {}]
  /\ finished = TRUE /\ entryId = 0 /\ entryMaxId = 0
  /\ used = {}
  /\ data = [v \in Vecs |-> {}] /\ rest = [v \in Vecs |-> {}]
  /\ entry = NoEntry
  /\ todo = {}
  /\ pc = "add"
  /\ yielded = {}
  /\ since = {} /\ fresh = TRUE

\* get_or_insert() of another thread, at any moment: it publishes a new snapshot and
\* leaves the ones taken alone.
Insert(v, id) ==
  /\ id \notin contents[v]
  /\ contents' = [contents EXCEPT ![v] = @ \cup {id}]
  /\ UNCHANGED <<inner, states, entry, todo, pc, yielded, history>>

-----------------------------------------------------------------------------
(* SameValIter::add *)

\* as_slice() of the vector; the ids to visit lie between the greatest of the first
\* ids and the least of the last ids.
Add(v) ==
  /\ pc = "add" /\ v \notin used
  /\ used' = used \cup {v}
  /\ data' = [data EXCEPT ![v] = contents[v]]
  /\ rest' = [rest EXCEPT ![v] = contents[v]]
  /\ IF contents[v] = {} THEN UNCHANGED inner
     ELSE LET first == Min(contents[v])
              last == Max(contents[v])
          IN /\ finished' = FALSE
             /\ entryId' = IF finished THEN first ELSE Larger(entryId, first)
             /\ entryMaxId' = IF finished THEN last ELSE Smaller(entryMaxId, last)
  /\ since' = IF used = {} THEN {id \in Ids : \A w \in Vecs : id \in contents[w]}
              ELSE since
  /\ UNCHANGED <<contents, entry, todo, pc, yielded, fresh>>

\* The caller has added all it wants to walk.
Start ==
  /\ pc = "add" /\ used # {}
  /\ pc' = "next"
  /\ UNCHANGED <<contents, inner, states, entry, todo, yielded, history>>

-----------------------------------------------------------------------------
(* The loop: next, progress for every vector, complete_is_valid *)

NextEntry ==
  /\ pc = "next"
  /\ ~finished /\ entryId <= entryMaxId
  /\ entry' = [id |-> entryId, next |-> entryId, valid |-> TRUE, finished |-> FALSE]
  /\ todo' = used
  /\ pc' = "progress"
  /\ UNCHANGED <<contents, inner, states, yielded, history>>

\* The greatest id is left out.
Exhausted_AtMax ==
  /\ pc = "next"
  /\ finished \/ entryId >= entryMaxId
  /\ pc' = "done"
  /\ UNCHANGED <<contents, inner, states, entry, todo, yielded, history>>

\* next() returns None.
Exhausted ==
  /\ pc = "next"
  /\ finished \/ entryId > entryMaxId
  /\ pc' = "done"
  /\ UNCHANGED <<contents, inner, states, entry, todo, yielded, history>>

\* &state.data[0] of a vector that was empty.
ProgressPanic(v) ==
  /\ pc = "progress" /\ v \in todo
  /\ data[v] = {}
  /\ pc' = "panic"
  /\ UNCHANGED <<contents, inner, states, entry, todo, yielded, history>>

\* Another vector did not have the id: this one is left where it is.
ProgressSkip(v) ==
  /\ pc = "progress" /\ v \in todo
  /\ data[v] # {} /\ ~entry.valid
  /\ todo' = todo \ {v}
  /\ UNCHANGED <<contents, inner, states, entry, pc, yielded, history>>

\* The id after this one is proposed, whether a vector has it or not.
Progress_Successor(v) ==
  LET after == {id \in rest[v] : id > entry.id}
  IN /\ pc = "progress" /\ v \in todo
     /\ data[v] # {} /\ entry.valid
     /\ todo' = todo \ {v}
     /\ rest' = [rest EXCEPT ![v] = after]
     /\ entry' = [entry EXCEPT
          !.valid = entry.id \in rest[v],
          !.finished = @ \/ after = {},
          !.next = entry.id + 1]
     /\ UNCHANGED <<contents, inner, used, data, pc, yielded, history>>

\* The end of the vector is noticed one entry late.
Progress_LateEnd(v) ==
  LET after == {id \in rest[v] : id > entry.id}
  IN /\ pc = "progress" /\ v \in todo
     /\ data[v] # {} /\ entry.valid
     /\ todo' = todo \ {v}
     /\ rest' = [rest EXCEPT ![v] = after]
     /\ entry' = [entry EXCEPT
          !.valid = entry.id \in rest[v],
          !.finished = @ \/ rest[v] = {},
          !.next = IF after = {} THEN @ ELSE Larger(@, Min(after))]
     /\ UNCHANGED <<contents, inner, used, data, pc, yielded, history>>

\* The cursor stays on a match.
Progress_Stay(v) ==
  LET from == {id \in rest[v] : id >= entry.id}
  IN /\ pc = "progress" /\ v \in todo
     /\ data[v] # {} /\ entry.valid
     /\ todo' = todo \ {v}
     /\ rest' = [rest EXCEPT ![v] = from]
     /\ entry' = [entry EXCEPT
          !.valid = entry.id \in rest[v],
          !.finished = @ \/ from = {},
          !.next = IF from = {} THEN @ ELSE Larger(@, Min(from))]
     /\ UNCHANGED <<contents, inner, used, data, pc, yielded, history>>

\* The cursor moves behind the id, or to the first greater one.
Progress(v) ==
  LET after == {id \in rest[v] : id > entry.id}
  IN /\ pc = "progress" /\ v \in todo
     /\ data[v] # {} /\ entry.valid
     /\ todo' = todo \ {v}
     /\ rest' = [rest EXCEPT ![v] = after]
     /\ entry' = [entry EXCEPT
          !.valid = entry.id \in rest[v],
          !.finished = @ \/ after = {},
          !.next = IF after = {} THEN @ ELSE Larger(@, Min(after))]
     /\ UNCHANGED <<contents, inner, used, data, pc, yielded, history>>

\* complete_is_valid(); the caller uses the items when it returns true.
Complete ==
  /\ pc = "progress" /\ todo = {}
  /\ pc' = "next"
  /\ IF entry.finished THEN finished' = TRUE /\ UNCHANGED entryId
     ELSE entryId' = entry.next /\ UNCHANGED finished
  /\ yielded' = IF entry.valid THEN yielded \cup {entry.id} ELSE yielded
  /\ entry' = NoEntry
  /\ UNCHANGED <<contents, entryMaxId, states, todo, history>>

\* The caller breaks out of its loop.
Break ==
  /\ pc = "next"
  /\ pc' = "left"
  /\ UNCHANGED <<contents, inner, states, entry, todo, yielded, history>>

-----------------------------------------------------------------------------
(* Another round *)

Restart ==
  /\ used' = {}
  /\ data' = [v \in Vecs |-> {}] /\ rest' = [v \in Vecs |-> {}]
  /\ entry' = NoEntry
  /\ todo' = {}
  /\ pc' = "add"
  /\ yielded' = {}
  /\ since' = {}
  /\ UNCHANGED contents

\* With an iterator of its own: SameValIter::new().
NewIter ==
  /\ pc \in {"done", "left", "panic"}
  /\ Restart
  /\ finished' = TRUE /\ entryId' = 0 /\ entryMaxId' = 0
  /\ fresh' = TRUE

\* With the same one: `for entry in &mut iter` leaves it to the caller.
Reuse ==
  /\ pc \in {"done", "left"}
  /\ Restart
  /\ fresh' = finished
  /\ UNCHANGED inner

Loop ==
  \/ NextEntry \/ Exhausted \/ Complete
  \/ \E v \in Vecs : ProgressPanic(v) \/ ProgressSkip(v) \/ Progress(v)

Next ==
  \/ Loop \/ Start \/ Break \/ NewIter \/ Reuse
  \/ \E v \in Vecs : Add(v) \/ \E id \in Ids : Insert(v, id)

Spec == Init /\ [][Next]_vars

\* The caller's loop goes on until next() returns None or it breaks.
FairSpec == Spec /\ WF_vars(Loop)

-----------------------------------------------------------------------------
(* Properties *)

TypeOK ==
  /\ contents \in [Vecs -> SUBSET Ids]
  /\ finished \in BOOLEAN
  /\ {entryId, entryMaxId} \subseteq Ids \cup {0}
  /\ used \subseteq Vecs /\ todo \subseteq used
  /\ data \in [Vecs -> SUBSET Ids] /\ rest \in [Vecs -> SUBSET Ids]
  /\ entry \in [id : Ids \cup {0}, next : Ids \cup {0}, valid : BOOLEAN,
                finished : BOOLEAN]
  /\ pc \in {"add", "next", "progress", "done", "left", "panic"}
  /\ yielded \subseteq Ids /\ since \subseteq Ids
  /\ fresh \in BOOLEAN

\* The ids that all snapshots taken have.
Common == {id \in Ids : \A v \in used : id \in data[v]}

\* Between two entries the round has yielded the common ids below the next one to try,
\* and no cursor has passed an id it did not yield: an entry given up halfway leaves
\* the cursors of the other vectors behind, and the early ends are final.
YieldedSoFar == pc = "next" /\ fresh =>
  /\ yielded = IF finished \/ entryId > entryMaxId THEN Common
               ELSE {id \in Common : id < entryId}
  /\ ~finished => \A v \in used : {id \in data[v] : id >= entryId} \subseteq rest[v]

\* How a round ends: on an iterator with nothing left over it yields all ids that were
\* in all vectors when it began, and on any none that is not in all of those used; or
\* it panics, for a vector that was empty next to one that was not.
RoundComplete ==
  /\ pc = "done" => /\ fresh => since \subseteq yielded
                    /\ \A v \in used : yielded \subseteq contents[v]
  /\ pc = "panic" => /\ \E v \in used : data[v] = {}
                     /\ fresh => \E v \in used : data[v] # {}

\* A round comes to an end.
RoundEnds == pc = "next" ~> pc \in {"done", "left", "panic"}
=============================================================================
