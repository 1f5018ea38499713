------------------------------ MODULE SyncMap ------------------------------
(***************************************************************************)
(* SyncMap<Key, T>: a HashMap `read` that does not change within a frame   *)
(* and is read without a lock, and a HashMap `write` behind an RwLock that *)
(* collects what the frame changes.  A state byte per key of `read` sends  *)
(* get() to the write map once the key was changed.  At the end of a frame *)
(* dispose() drains write into read.                                       *)
(*                                                                         *)
(* One action is one access to shared memory, or one critical section of   *)
(* the RwLock.  Values are numbered; 0 stands for no value.                *)
(***************************************************************************)
EXTENDS Integers, FiniteSets

CONSTANTS
  Threads,      \* threads that call get and set
  Keys,
  MaxDeletes,   \* bound: calls of delete for one key in a frame
  MaxSets       \* bound: calls of set

ASSUME SyncMapAssumption ==
  /\ IsFiniteSet(Threads) /\ Threads # {}
  /\ MaxDeletes \in Nat
  /\ MaxSets \in Nat

VARIABLES
  readVal,        \* read: key -> value, 0 where read has no such key
  readState,      \* read: key -> SlotStateEnum, "Absent" without an entry
  write,          \* key -> value, None, or NoEntry
  needDisposing,  \* need_disposing
  registered,     \* entries of this map in the dispose list
  pc, loc,        \* thread -> next access, locals of its call
  sets,           \* history: calls of set
  deletes         \* history: key -> calls of delete in this frame

maps == <<readVal, readState, write>>
frame == <<needDisposing, registered>>
history == <<sets, deletes>>
vars == <<maps, frame, pc, loc, history>>

Values == 1 .. MaxSets
None == 0       \* the entry of a deleted key
NoEntry == -1
NoLocals == [op |-> "none", key |-> 0, val |-> 0]

Step(t, from, to) == pc[t] = from /\ pc' = [pc EXCEPT ![t] = to]
Idle == \A t \in Threads : pc[t] = "idle"

Init ==
  /\ readVal = [k \in Keys |-> 0]
  /\ readState = [k \in Keys |-> "Absent"]
  /\ write = [k \in Keys |-> NoEntry]
  /\ needDisposing = FALSE
  /\ registered = 0
  /\ pc = [t \in Threads |-> "idle"]
  /\ loc = [t \in Threads |-> NoLocals]
  /\ sets = 0
  /\ deletes = [k \in Keys |-> 0]

\* What the write map holds for k, as get() sees it.
Written(k) == IF write[k] = NoEntry THEN 0 ELSE write[k]

-----------------------------------------------------------------------------
(* get *)

GetStart(t) ==
  \E k \in Keys :
    /\ Step(t, "idle", "state")
    /\ loc' = [loc EXCEPT ![t] = [op |-> "get", key |-> k, val |-> 0]]
    /\ UNCHANGED <<maps, frame, history>>

\* A Stable key is answered from the read map, any other one sends get() to
\* the write map.
GetState(t) ==
  LET k == loc[t].key IN
    /\ loc[t].op = "get"
    /\ IF readState[k] = "Stable"
         THEN /\ Step(t, "state", "return")
              /\ loc' = [loc EXCEPT ![t].val = readVal[k]]
         ELSE Step(t, "state", "lookup") /\ UNCHANGED loc
    /\ UNCHANGED <<maps, frame, history>>

GetWritten(t) ==
  /\ Step(t, "lookup", "return")
  /\ loc' = [loc EXCEPT ![t].val = Written(loc[t].key)]
  /\ UNCHANGED <<maps, frame, history>>

-----------------------------------------------------------------------------
(* set *)

SetStart(t) ==
  \E k \in Keys :
    /\ sets < MaxSets
    /\ Step(t, "idle", "need")
    /\ sets' = sets + 1
    /\ loc' = [loc EXCEPT ![t] = [op |-> "set", key |-> k, val |-> sets + 1]]
    /\ UNCHANGED <<maps, frame, deletes>>

\* request_disposing: check, push to the list, then mark.
CheckNeed(t) ==
  /\ Step(t, "need", IF needDisposing THEN "insert" ELSE "register")
  /\ UNCHANGED <<maps, frame, loc, history>>

Register(t) ==
  /\ Step(t, "register", "mark")
  /\ registered' = registered + 1
  /\ UNCHANGED <<maps, needDisposing, loc, history>>

\* need_disposing stays unset: every set registers the map again.
Mark_Forgotten(t) ==
  /\ Step(t, "mark", "insert")
  /\ UNCHANGED <<maps, frame, loc, history>>

Mark(t) ==
  /\ Step(t, "mark", "insert")
  /\ needDisposing' = TRUE
  /\ UNCHANGED <<maps, registered, loc, history>>

\* Under the write lock.  Only a key of the read map has a state to change.
Insert(t) ==
  LET k == loc[t].key IN
    /\ Step(t, "insert", IF readState[k] = "Absent" THEN "return" ELSE "state")
    /\ write' = [write EXCEPT ![k] = loc[t].val]
    /\ UNCHANGED <<readVal, readState, frame, loc, history>>

SetState(t) ==
  /\ loc[t].op = "set"
  /\ Step(t, "state",
          IF readState[loc[t].key] = "Stable" THEN "update" ELSE "return")
  /\ UNCHANGED <<maps, frame, loc, history>>

\* The state is stored the wrong way round and the key stays Stable.
MarkUpdated_Stable(t) ==
  /\ Step(t, "update", "return")
  /\ readState' = [readState EXCEPT ![loc[t].key] = "Stable"]
  /\ UNCHANGED <<readVal, write, frame, loc, history>>

\* compare_exchange(Stable, Updated)
MarkUpdated(t) ==
  LET k == loc[t].key IN
    /\ Step(t, "update", "return")
    /\ readState' =
         IF readState[k] = "Stable" THEN [readState EXCEPT ![k] = "Updated"]
                                    ELSE readState
    /\ UNCHANGED <<readVal, write, frame, loc, history>>

Return(t) ==
  /\ Step(t, "return", "idle")
  /\ loc' = [loc EXCEPT ![t] = NoLocals]
  /\ UNCHANGED <<maps, frame, history>>

-----------------------------------------------------------------------------
(* delete, and the end of a frame: only one thread uses the map meanwhile *)

\* The entry is written, the state byte forgotten.
Delete_KeepState(k) ==
  /\ Idle
  /\ deletes[k] < MaxDeletes
  /\ needDisposing' = TRUE
  /\ registered' = IF needDisposing THEN registered ELSE registered + 1
  /\ write' = [write EXCEPT ![k] = IF readState[k] = "Absent" THEN NoEntry ELSE None]
  /\ deletes' = [deletes EXCEPT ![k] = @ + 1]
  /\ UNCHANGED <<readVal, readState, pc, loc, sets>>

\* A key of the read map that is Deleted already is left alone.
Delete(k) ==
  /\ Idle
  /\ deletes[k] < MaxDeletes
  /\ needDisposing' = TRUE
  /\ registered' = IF needDisposing THEN registered ELSE registered + 1
  /\ \/ /\ readState[k] \in {"Stable", "Updated"}
        /\ write' = [write EXCEPT ![k] = None]
        /\ readState' = [readState EXCEPT ![k] = "Deleted"]
     \/ /\ readState[k] = "Deleted"
        /\ UNCHANGED <<write, readState>>
     \/ /\ readState[k] = "Absent"
        /\ write' = [write EXCEPT ![k] = NoEntry]
        /\ UNCHANGED readState
  /\ deletes' = [deletes EXCEPT ![k] = @ + 1]
  /\ UNCHANGED <<readVal, pc, loc, sets>>

\* need_disposing is left set: the next frame does not register the map.
Apply_KeepNeed ==
  /\ Idle
  /\ registered > 0
  /\ readVal' = [k \in Keys |-> IF write[k] = NoEntry THEN readVal[k] ELSE Written(k)]
  /\ readState' = [k \in Keys |->
       IF write[k] = NoEntry THEN readState[k]
       ELSE IF write[k] = None THEN "Absent" ELSE "Stable"]
  /\ write' = [k \in Keys |-> NoEntry]
  /\ registered' = 0
  /\ deletes' = [k \in Keys |-> 0]
  /\ UNCHANGED <<needDisposing, pc, loc, sets>>

\* dispose(): every entry of the list drains write into read (the second does
\* nothing), and the list is reset.
Apply ==
  /\ Idle
  /\ registered > 0
  /\ readVal' = [k \in Keys |-> IF write[k] = NoEntry THEN readVal[k] ELSE Written(k)]
  /\ readState' = [k \in Keys |->
       IF write[k] = NoEntry THEN readState[k]
       ELSE IF write[k] = None THEN "Absent" ELSE "Stable"]
  /\ write' = [k \in Keys |-> NoEntry]
  /\ needDisposing' = FALSE
  /\ registered' = 0
  /\ deletes' = [k \in Keys |-> 0]
  /\ UNCHANGED <<pc, loc, sets>>

Call(t) ==
  \/ GetState(t) \/ GetWritten(t)
  \/ CheckNeed(t) \/ Register(t) \/ Mark(t) \/ Insert(t) \/ SetState(t)
  \/ MarkUpdated(t) \/ Return(t)

Next ==
  \/ \E t \in Threads : GetStart(t) \/ SetStart(t) \/ Call(t)
  \/ \E k \in Keys : Delete(k)
  \/ Apply

Spec == Init /\ [][Next]_vars

-----------------------------------------------------------------------------
(* Properties *)

\* Between two frames each thread registers the map at most once.
TypeOK ==
  /\ readVal \in [Keys -> Values \cup {0}]
  /\ readState \in [Keys -> {"Absent", "Deleted", "Stable", "Updated"}]
  /\ write \in [Keys -> Values \cup {None, NoEntry}]
  /\ needDisposing \in BOOLEAN
  /\ registered \in 0 .. Cardinality(Threads)
  /\ pc \in [Threads -> {"idle", "state", "lookup", "need", "register", "mark",
                         "insert", "update", "return"}]
  /\ loc \in [Threads -> [op : {"none", "get", "set"}, key : Keys \cup {0},
                          val : Values \cup {0}]]
  /\ sets \in 0 .. MaxSets
  /\ deletes \in [Keys -> 0 .. MaxDeletes]

\* A change waits for a dispose() that will come: with no call in flight the
\* map is on the list whenever its write map is not empty.
NoUpdateForgotten ==
  Idle /\ (\E k \in Keys : write[k] # NoEntry) => registered > 0

\* The value a get() that starts now returns.
Visible(k) == IF readState[k] = "Stable" THEN readVal[k] ELSE Written(k)

\* A set has taken effect once its entry is in and its key is not Stable, any call
\* when it is about to return.
Took(t) ==
  \/ pc[t] = "return"
  \/ loc[t].op = "set" /\ pc[t] \in {"state", "update"} /\ readState[loc[t].key] # "Stable"

\* The map implements one whose gets and sets are atomic: a get never returns
\* a value older than one that a finished set or get has shown, and neither
\* the end of the frame nor the two maps it moves values between are visible.
Atomic == INSTANCE AtomicMap WITH
  value <- [k \in Keys |-> Visible(k)],
  call <- [t \in Threads |->
            [op |-> loc[t].op, key |-> loc[t].key, val |-> loc[t].val, done |-> Took(t)]]
ImplementsAtomicMap == Atomic!Spec

\* After delete() the key reads as Empty, in this frame and through its end, unless it
\* was deleted and set again within the frame: its state still is Deleted, and delete()
\* leaves the new value visible.
DeleteTakesEffect == [][\A k \in Keys : Delete(k) =>
  \/ Visible(k)' = 0 /\ write'[k] \notin Values /\ (write'[k] = NoEntry => readVal[k] = 0)
  \/ readState[k] = "Deleted" /\ write[k] \in Values]_vars
=============================================================================
