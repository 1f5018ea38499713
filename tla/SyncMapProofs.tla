--------------------------- MODULE SyncMapProofs ---------------------------
(***************************************************************************)
(* Proofs about SyncMap, for every set of threads and keys and all bounds. *)
(***************************************************************************)
EXTENDS SyncMap, TLAPS, FiniteSetTheorems

-----------------------------------------------------------------------------
(* The inductive invariant *)

At(place) == {t \in Threads : pc[t] = place}

\* A set whose value is in the write map, before it has marked its key.
Marking(t) == loc[t].op = "set" /\ pc[t] \in {"state", "update"}

\* The place of a call tells what it is and which locals it has.
LocalsOK == \A t \in Threads :
  /\ pc[t] = "idle" => loc[t] = NoLocals
  /\ pc[t] # "idle" => loc[t].op \in {"get", "set"} /\ loc[t].key \in Keys
  /\ pc[t] = "lookup" => loc[t].op = "get"
  /\ pc[t] \in {"need", "register", "mark", "insert", "update"} => loc[t].op = "set"
  /\ loc[t].op = "set" => loc[t].val \in Values

\* Who is about to register has not registered yet, and whoever did without having
\* marked the map is about to.
RegisteredOnce ==
  /\ registered + Cardinality(At("register")) <= Cardinality(Threads)
  /\ needDisposing => registered > 0
  /\ ~needDisposing => registered = Cardinality(At("mark"))

\* What a frame changes is requested to be disposed first.
Requested ==
  /\ \A t \in Threads : pc[t] = "insert" \/ Marking(t) => needDisposing
  /\ \A k \in Keys : write[k] # NoEntry => needDisposing

\* The state byte of a key and its entries in the two maps.
Entries == \A k \in Keys :
  /\ readState[k] = "Absent" => readVal[k] = 0
  /\ readState[k] = "Deleted" => write[k] # NoEntry
  /\ write[k] = None => readState[k] = "Deleted"

\* A key that is Stable although it has a new value is about to be marked by the set
\* the value is of.
InTransit ==
  /\ \A t \in Threads :
       /\ pc[t] = "lookup" => readState[loc[t].key] # "Stable"
       /\ Marking(t) => write[loc[t].key] \in Values
  /\ \A k \in Keys : readState[k] = "Stable" /\ write[k] # NoEntry =>
       \E t \in Threads : Marking(t) /\ loc[t].key = k /\ loc[t].val = write[k]

IInv == TypeOK /\ LocalsOK /\ RegisteredOnce /\ Requested /\ Entries /\ InTransit

-----------------------------------------------------------------------------
(* Counting threads *)

\* The threads at a place are finitely many.
LEMMA AtFinite ==
  ASSUME NEW p
  PROVE  /\ IsFiniteSet(At(p)) /\ Cardinality(At(p)) \in Nat
         /\ Cardinality(At(p)) <= Cardinality(Threads)
         /\ Cardinality(At(p)) = 0 <=> At(p) = {}
  <1>1. IsFiniteSet(Threads) /\ At(p) \in SUBSET Threads
    BY SyncMapAssumption DEF SyncMapAssumption, At
  <1>2. QED
    BY <1>1, FS_Subset, FS_CardinalityType, FS_EmptySet

\* A step takes one thread from one place to another.
LEMMA AtMove ==
  ASSUME NEW t \in Threads, NEW from, NEW to, from # to, NEW p,
         TypeOK, Step(t, from, to)
  PROVE  /\ p = from => Cardinality(At(p))' = Cardinality(At(p)) - 1
         /\ p = to => Cardinality(At(p))' = Cardinality(At(p)) + 1
         /\ p \notin {from, to} => Cardinality(At(p))' = Cardinality(At(p))
  <1>1. IsFiniteSet(At(p)) /\ Cardinality(At(p)) \in Nat
    BY AtFinite
  <1>2. CASE p = from
    <2>1. At(p)' = At(p) \ {t} /\ t \in At(p)
      BY <1>2 DEF At, Step, TypeOK
    <2>2. QED
      BY <1>1, <1>2, <2>1, FS_RemoveElement
  <1>3. CASE p = to
    <2>1. At(p)' = At(p) \cup {t} /\ t \notin At(p)
      BY <1>3 DEF At, Step, TypeOK
    <2>2. QED
      BY <1>1, <1>3, <2>1, FS_AddElement
  <1>4. CASE p # from /\ p # to
    <2>1. At(p)' = At(p)
      BY <1>4 DEF At, Step, TypeOK
    <2>2. QED
      BY <1>4, <2>1
  <1>5. QED
    BY <1>2, <1>3, <1>4

-----------------------------------------------------------------------------
(* Invariance *)

\* Steps inside a call keep everything but the count of registrations.
LEMMA CallStep ==
  ASSUME NEW t \in Threads, IInv, GetStart(t) \/ SetStart(t) \/ Call(t),
         registered' \in 0 .. Cardinality(Threads)
  PROVE  TypeOK' /\ LocalsOK' /\ Requested' /\ Entries' /\ InTransit'
  <1> USE SyncMapAssumption DEF SyncMapAssumption, IInv, TypeOK, Step, maps, frame, history,
        Values, None, NoEntry, NoLocals
  <1>1. CASE GetStart(t)
    <2>1. TypeOK'
      BY <1>1 DEF GetStart, Written, LocalsOK
    <2>2. LocalsOK'
      BY <1>1 DEF GetStart, Written, LocalsOK
    <2>3. Requested'
      BY <1>1 DEF GetStart, LocalsOK, Requested, Marking
    <2>4. Entries'
      BY <1>1 DEF GetStart, LocalsOK, Entries
    <2>5. InTransit'
      BY <1>1 DEF GetStart, LocalsOK, Entries, InTransit, Marking
    <2>6. QED
      BY <2>1, <2>2, <2>3, <2>4, <2>5
  <1>2. CASE SetStart(t)
    <2>1. TypeOK'
      BY <1>2 DEF SetStart, Written, LocalsOK
    <2>2. LocalsOK'
      BY <1>2 DEF SetStart, Written, LocalsOK
    <2>3. Requested'
      BY <1>2 DEF SetStart, LocalsOK, Requested, Marking
    <2>4. Entries'
      BY <1>2 DEF SetStart, LocalsOK, Entries
    <2>5. InTransit'
      BY <1>2 DEF SetStart, LocalsOK, Entries, InTransit, Marking
    <2>6. QED
      BY <2>1, <2>2, <2>3, <2>4, <2>5
  <1>3. CASE GetState(t)
    <2>1. TypeOK'
      BY <1>3 DEF GetState, Written, LocalsOK
    <2>2. LocalsOK'
      BY <1>3 DEF GetState, Written, LocalsOK
    <2>3. Requested'
      BY <1>3 DEF GetState, LocalsOK, Requested, Marking
    <2>4. Entries'
      BY <1>3 DEF GetState, LocalsOK, Entries
    <2>5. InTransit'
      <3>1. /\ UNCHANGED <<readState, write>>
            /\ loc[t].op = "get" /\ loc'[t].op = "get" /\ loc'[t].key = loc[t].key
            /\ pc'[t] = "lookup" => readState[loc[t].key] # "Stable"
        BY <1>3 DEF GetState
      <3>2. \A u \in Threads : u # t => pc'[u] = pc[u] /\ loc'[u] = loc[u]
        BY <1>3 DEF GetState
      <3>3. \A u \in Threads : Marking(u)' <=> Marking(u)
        BY <3>1, <3>2 DEF Marking
      <3>4. QED
        BY <3>1, <3>2, <3>3 DEF InTransit, Marking
    <2>6. QED
      BY <2>1, <2>2, <2>3, <2>4, <2>5
  <1>4. CASE GetWritten(t)
    <2>1. TypeOK'
      BY <1>4 DEF GetWritten, Written, LocalsOK
    <2>2. LocalsOK'
      BY <1>4 DEF GetWritten, Written, LocalsOK
    <2>3. Requested'
      BY <1>4 DEF GetWritten, LocalsOK, Requested, Marking
    <2>4. Entries'
      BY <1>4 DEF GetWritten, LocalsOK, Entries
    <2>5. InTransit'
      BY <1>4 DEF GetWritten, LocalsOK, Entries, InTransit, Marking
    <2>6. QED
      BY <2>1, <2>2, <2>3, <2>4, <2>5
  <1>5. CASE CheckNeed(t)
    <2>1. TypeOK'
      BY <1>5 DEF CheckNeed, Written, LocalsOK
    <2>2. LocalsOK'
      BY <1>5 DEF CheckNeed, Written, LocalsOK
    <2>3. Requested'
      BY <1>5 DEF CheckNeed, LocalsOK, Requested, Marking
    <2>4. Entries'
      BY <1>5 DEF CheckNeed, LocalsOK, Entries
    <2>5. InTransit'
      BY <1>5 DEF CheckNeed, LocalsOK, Entries, InTransit, Marking
    <2>6. QED
      BY <2>1, <2>2, <2>3, <2>4, <2>5
  <1>6. CASE Register(t)
    <2>1. TypeOK'
      BY <1>6 DEF Register, Written, LocalsOK
    <2>2. LocalsOK'
      BY <1>6 DEF Register, Written, LocalsOK
    <2>3. Requested'
      BY <1>6 DEF Register, LocalsOK, Requested, Marking
    <2>4. Entries'
      BY <1>6 DEF Register, LocalsOK, Entries
    <2>5. InTransit'
      BY <1>6 DEF Register, LocalsOK, Entries, InTransit, Marking
    <2>6. QED
      BY <2>1, <2>2, <2>3, <2>4, <2>5
  <1>7. CASE Mark(t)
    <2>1. TypeOK'
      BY <1>7 DEF Mark, Written, LocalsOK
    <2>2. LocalsOK'
      BY <1>7 DEF Mark, Written, LocalsOK
    <2>3. Requested'
      BY <1>7 DEF Mark, LocalsOK, Requested, Marking
    <2>4. Entries'
      BY <1>7 DEF Mark, LocalsOK, Entries
    <2>5. InTransit'
      BY <1>7 DEF Mark, LocalsOK, Entries, InTransit, Marking
    <2>6. QED
      BY <2>1, <2>2, <2>3, <2>4, <2>5
  <1>8. CASE Insert(t)
    <2>1. TypeOK'
      BY <1>8 DEF Insert, Written, LocalsOK
    <2>2. LocalsOK'
      BY <1>8 DEF Insert, Written, LocalsOK
    <2>3. Requested'
      BY <1>8 DEF Insert, LocalsOK, Requested, Marking
    <2>4. Entries'
      BY <1>8 DEF Insert, LocalsOK, Entries
    <2>5. InTransit'
      <3>1. /\ loc' = loc /\ readState' = readState /\ loc[t].op = "set"
            /\ write'[loc[t].key] = loc[t].val /\ loc[t].val \in Values
            /\ \A k \in Keys : k # loc[t].key => write'[k] = write[k]
        BY <1>8 DEF Insert, LocalsOK
      <3>2. /\ pc'[t] \in {"return", "state"} /\ pc[t] = "insert"
            /\ \A u \in Threads : u # t => pc'[u] = pc[u]
            /\ readState[loc[t].key] = "Stable" => pc'[t] = "state"
        BY <1>8 DEF Insert, LocalsOK
      <3>3. \A u \in Threads : u # t => Marking(u)' = Marking(u)
        BY <3>1, <3>2 DEF Marking
      <3>4. ASSUME NEW u \in Threads
            PROVE  /\ pc'[u] = "lookup" => readState'[loc'[u].key] # "Stable"
                   /\ Marking(u)' => write'[loc'[u].key] \in Values
        <4>1. CASE u = t
          BY <3>1, <3>2, <4>1
        <4>2. CASE u # t /\ pc[u] \in {"lookup", "state", "update"}
          BY <3>1, <3>2, <3>3, <4>2 DEF InTransit, LocalsOK
        <4>3. QED
          BY <3>2, <4>1, <4>2 DEF Marking
      <3>5. ASSUME NEW k \in Keys, readState'[k] = "Stable", write'[k] # NoEntry
            PROVE  \E u \in Threads :
                     Marking(u)' /\ loc'[u].key = k /\ loc'[u].val = write'[k]
        <4>1. CASE k = loc[t].key
          <5>1. Marking(t)'
            BY <3>1, <3>2, <3>5, <4>1 DEF Marking
          <5>2. QED
            BY <3>1, <4>1, <5>1
        <4>2. CASE k # loc[t].key
          <5>1. PICK u \in Threads :
                  Marking(u) /\ loc[u].key = k /\ loc[u].val = write[k]
            BY <3>1, <3>5, <4>2 DEF InTransit
          <5>2. QED
            BY <3>1, <3>3, <4>2, <5>1
        <4>3. QED
          BY <4>1, <4>2
      <3>6. QED
        BY <3>4, <3>5 DEF InTransit
    <2>6. QED
      BY <2>1, <2>2, <2>3, <2>4, <2>5
  <1>9. CASE SetState(t)
    <2>1. TypeOK'
      BY <1>9 DEF SetState, Written, LocalsOK
    <2>2. LocalsOK'
      BY <1>9 DEF SetState, Written, LocalsOK
    <2>3. Requested'
      BY <1>9 DEF SetState, LocalsOK, Requested, Marking
    <2>4. Entries'
      BY <1>9 DEF SetState, LocalsOK, Entries
    <2>5. InTransit'
      BY <1>9 DEF SetState, LocalsOK, Entries, InTransit, Marking
    <2>6. QED
      BY <2>1, <2>2, <2>3, <2>4, <2>5
  <1>10. CASE MarkUpdated(t)
    <2>1. TypeOK'
      BY <1>10 DEF MarkUpdated, Written, LocalsOK
    <2>2. LocalsOK'
      BY <1>10 DEF MarkUpdated, Written, LocalsOK
    <2>3. Requested'
      BY <1>10 DEF MarkUpdated, LocalsOK, Requested, Marking
    <2>4. Entries'
      BY <1>10 DEF MarkUpdated, LocalsOK, Entries
    <2>5. InTransit'
      BY <1>10 DEF MarkUpdated, LocalsOK, Entries, InTransit, Marking
    <2>6. QED
      BY <2>1, <2>2, <2>3, <2>4, <2>5
  <1>11. CASE Return(t)
    <2>1. TypeOK'
      BY <1>11 DEF Return, Written, LocalsOK
    <2>2. LocalsOK'
      BY <1>11 DEF Return, Written, LocalsOK
    <2>3. Requested'
      BY <1>11 DEF Return, LocalsOK, Requested, Marking
    <2>4. Entries'
      BY <1>11 DEF Return, LocalsOK, Entries
    <2>5. InTransit'
      BY <1>11 DEF Return, LocalsOK, Entries, InTransit, Marking
    <2>6. QED
      BY <2>1, <2>2, <2>3, <2>4, <2>5
  <1>20. QED
    BY <1>1, <1>2, <1>3, <1>4, <1>5, <1>6, <1>7, <1>8, <1>9, <1>10, <1>11 DEF Call

\* No thread registers the map twice in a frame, and the list has an entry once the
\* map is marked.
LEMMA RegisterStep ==
  ASSUME NEW t \in Threads, IInv, GetStart(t) \/ SetStart(t) \/ Call(t)
  PROVE  RegisteredOnce' /\ registered' \in 0 .. Cardinality(Threads)
  <1> DEFINE waiting == Cardinality(At("register"))
             marking == Cardinality(At("mark"))
  <1>1. /\ waiting \in Nat /\ marking \in Nat /\ waiting' \in Nat /\ registered \in Nat
        /\ Cardinality(Threads) \in Nat
        /\ pc[t] = "mark" => marking > 0
        /\ RegisteredOnce
    <2>1. Cardinality(Threads) \in Nat
      BY SyncMapAssumption, FS_CardinalityType DEF SyncMapAssumption
    <2>2. pc[t] = "mark" => At("mark") # {}
      BY DEF At
    <2>3. waiting \in Nat /\ marking \in Nat /\ (marking = 0 <=> At("mark") = {})
      BY AtFinite
    <2>4. waiting' \in Nat
      <3>1. At("register")' \in SUBSET Threads
        BY DEF At
      <3>2. QED
        BY <3>1, SyncMapAssumption, FS_Subset, FS_CardinalityType DEF SyncMapAssumption
    <2>5. QED
      BY <2>1, <2>2, <2>3, <2>4 DEF IInv, TypeOK
  <1>2. CASE CheckNeed(t)
    <2> DEFINE to == IF needDisposing THEN "insert" ELSE "register"
    <2>1. Step(t, "need", to) /\ UNCHANGED <<needDisposing, registered>>
      BY <1>2 DEF CheckNeed, frame
    <2>2. marking' = marking
      BY <2>1, AtMove DEF IInv
    <2>3. CASE needDisposing
      <3>1. waiting' = waiting
        BY <2>1, <2>3, AtMove DEF IInv
      <3>2. QED
        BY <1>1, <2>1, <2>3, <3>1 DEF RegisteredOnce
    <2>4. CASE ~needDisposing
      <3>1. waiting' = waiting + 1
        BY <2>1, <2>4, AtMove DEF IInv
      <3>2. waiting' + marking' <= Cardinality(Threads)
        <4>1. At("register")' \cap At("mark")' = {}
          BY DEF At
        <4>2. /\ At("register")' \in SUBSET Threads /\ At("mark")' \in SUBSET Threads
              /\ At("register")' \cup At("mark")' \in SUBSET Threads
          BY DEF At
        <4>3. IsFiniteSet(Threads) /\ IsFiniteSet(At("register")') /\ IsFiniteSet(At("mark")')
          BY <4>2, SyncMapAssumption, FS_Subset DEF SyncMapAssumption
        <4>4. Cardinality(At("register")' \cup At("mark")') =
                waiting' + marking' - Cardinality(At("register")' \cap At("mark")')
          BY <4>3, FS_Union
        <4>5. Cardinality(At("register")' \cup At("mark")') <= Cardinality(Threads)
          BY <4>2, <4>3, FS_Subset
        <4>6. QED
          BY <1>1, <2>2, <4>1, <4>4, <4>5, FS_EmptySet
      <3>3. QED
        BY <1>1, <2>1, <2>2, <2>4, <3>2 DEF RegisteredOnce
    <2>5. QED
      BY <2>3, <2>4
  <1>3. CASE Register(t)
    <2>1. /\ Step(t, "register", "mark")
          /\ registered' = registered + 1 /\ needDisposing' = needDisposing
      BY <1>3 DEF Register
    <2>2. waiting' = waiting - 1 /\ marking' = marking + 1
      BY <2>1, AtMove DEF IInv
    <2>3. QED
      BY <1>1, <2>1, <2>2 DEF RegisteredOnce
  <1>4. CASE Mark(t)
    <2>1. /\ Step(t, "mark", "insert") /\ pc[t] = "mark"
          /\ registered' = registered /\ needDisposing' = TRUE
      BY <1>4 DEF Mark, Step
    <2>2. waiting' = waiting
      BY <2>1, AtMove DEF IInv
    <2>3. QED
      BY <1>1, <2>1, <2>2 DEF RegisteredOnce
  <1>5. ASSUME GetStart(t) \/ SetStart(t) \/ GetState(t) \/ GetWritten(t) \/ Insert(t)
                 \/ SetState(t) \/ MarkUpdated(t) \/ Return(t)
        PROVE  RegisteredOnce' /\ registered' \in 0 .. Cardinality(Threads)
    <2>1. UNCHANGED <<needDisposing, registered>>
      BY <1>5 DEF GetStart, SetStart, GetState, GetWritten, Insert, SetState, MarkUpdated,
                  Return, frame
    <2>2. At("register")' = At("register") /\ At("mark")' = At("mark")
      BY <1>5 DEF GetStart, SetStart, GetState, GetWritten, Insert, SetState, MarkUpdated,
                  Return, Step, At, IInv, TypeOK
    <2>3. QED
      BY <1>1, <2>1, <2>2 DEF RegisteredOnce
  <1>6. QED
    BY <1>2, <1>3, <1>4, <1>5 DEF Call

\* With no call in flight nobody is anywhere else.
LEMMA IdlePlaces ==
  ASSUME Idle
  PROVE  /\ \A p \in {"register", "mark"} : Cardinality(At(p)) = 0
         /\ \A t \in Threads : ~Marking(t)
         /\ Cardinality(Threads) \in Nat /\ Cardinality(Threads) > 0
  <1>1. \A p \in {"register", "mark"} : At(p) = {}
    BY DEF Idle, At
  <1>2. Cardinality(Threads) \in Nat /\ Cardinality(Threads) > 0
    BY SyncMapAssumption, FS_CardinalityType, FS_EmptySet DEF SyncMapAssumption
  <1>3. QED
    BY <1>1, <1>2, FS_EmptySet DEF Idle, Marking

\* delete() keeps the invariant.
LEMMA DeleteStep ==
  ASSUME IInv, NEW k \in Keys, Delete(k)
  PROVE  IInv'
  <1> USE SyncMapAssumption DEF SyncMapAssumption, IInv, Values, None, NoEntry
  <1>1. Idle /\ UNCHANGED <<pc, loc, readVal, sets>>
    BY DEF Delete
  <1>2. \A p : At(p)' = At(p)
    BY <1>1 DEF At
  <1>3. RegisteredOnce' /\ registered' \in 0 .. Cardinality(Threads)
    <2>1. /\ needDisposing' = TRUE /\ registered \in Nat
          /\ registered' = IF needDisposing THEN registered ELSE registered + 1
      BY DEF Delete, TypeOK
    <2>2. QED
      BY <1>1, <1>2, <2>1, IdlePlaces DEF RegisteredOnce
  <1>4. TypeOK'
    BY <1>1, <1>3 DEF Delete, TypeOK
  <1>5. LocalsOK'
    BY <1>1 DEF LocalsOK
  <1>6. Requested'
    BY DEF Delete, Requested
  <1>7. Entries'
    BY DEF Delete, Entries, TypeOK
  <1>8. InTransit'
    BY <1>1, IdlePlaces DEF Delete, Idle, InTransit, Marking, TypeOK
  <1>9. QED
    BY <1>3, <1>4, <1>5, <1>6, <1>7, <1>8

\* The end of a frame keeps the invariant.
LEMMA ApplyStep ==
  ASSUME IInv, Apply
  PROVE  IInv'
  <1> USE SyncMapAssumption DEF SyncMapAssumption, IInv, Values, None, NoEntry
  <1>1. Idle /\ UNCHANGED <<pc, loc, sets>>
    BY DEF Apply
  <1>2. \A p : At(p)' = At(p)
    BY <1>1 DEF At
  <1>3. RegisteredOnce' /\ registered' \in 0 .. Cardinality(Threads)
    <2>1. needDisposing' = FALSE /\ registered' = 0
      BY DEF Apply
    <2>2. QED
      BY <1>1, <1>2, <2>1, IdlePlaces DEF RegisteredOnce
  <1>4. TypeOK'
    <2>1. /\ readVal' \in [Keys -> Values \cup {0}]
          /\ readState' \in [Keys -> {"Absent", "Deleted", "Stable", "Updated"}]
      BY DEF Apply, TypeOK, Written
    <2>2. /\ write' \in [Keys -> Values \cup {None, NoEntry}]
          /\ needDisposing' \in BOOLEAN /\ deletes' \in [Keys -> 0 .. MaxDeletes]
      <3>1. 0 \in 0 .. MaxDeletes /\ NoEntry \in Values \cup {None, NoEntry}
        OBVIOUS
      <3>2. QED
        BY <3>1 DEF Apply
    <2>3. QED
      BY <1>1, <1>3, <2>1, <2>2 DEF TypeOK
  <1>5. LocalsOK'
    BY <1>1 DEF LocalsOK
  <1>6. Requested'
    BY <1>1 DEF Apply, Idle, Requested, Marking
  <1>7. Entries'
    BY DEF Apply, Entries, TypeOK, Written
  <1>8. InTransit'
    BY <1>1 DEF Apply, Idle, InTransit, Marking
  <1>9. QED
    BY <1>3, <1>4, <1>5, <1>6, <1>7, <1>8

\* The invariant holds in every reachable state.
THEOREM Invariance == Spec => []IInv
  <1>1. Init => IInv
    <2> SUFFICES ASSUME Init PROVE IInv
      OBVIOUS
    <2>1. Idle
      BY DEF Init, Idle
    <2>2. TypeOK
      <3>1. NoLocals \in [op : {"none", "get", "set"}, key : Keys \cup {0},
                          val : Values \cup {0}]
        BY DEF NoLocals
      <3>2. registered \in 0 .. Cardinality(Threads)
        BY <2>1, IdlePlaces DEF Init
      <3>3. sets \in 0 .. MaxSets /\ deletes \in [Keys -> 0 .. MaxDeletes]
        BY SyncMapAssumption DEF Init, SyncMapAssumption
      <3>4. QED
        BY <3>1, <3>2, <3>3 DEF Init, TypeOK
    <2>3. LocalsOK /\ Requested /\ Entries /\ InTransit
      BY DEF Init, LocalsOK, Requested, Entries, InTransit, Marking, None, NoEntry, NoLocals
    <2>4. RegisteredOnce
      BY <2>1, IdlePlaces DEF Init, RegisteredOnce
    <2>5. QED
      BY <2>2, <2>3, <2>4 DEF IInv
  <1>2. IInv /\ [Next]_vars => IInv'
    <2> SUFFICES ASSUME IInv, [Next]_vars PROVE IInv'
      OBVIOUS
    <2>1. ASSUME NEW t \in Threads, GetStart(t) \/ SetStart(t) \/ Call(t) PROVE IInv'
      BY <2>1, CallStep, RegisterStep DEF IInv
    <2>2. CASE UNCHANGED vars
      <3>1. UNCHANGED <<readVal, readState, write, needDisposing, registered, pc, loc,
                        sets, deletes>>
        BY <2>2 DEF vars, maps, frame, history
      <3>2. \A p : At(p)' = At(p)
        BY <3>1 DEF At
      <3>3. QED
        BY <3>1, <3>2 DEF IInv, TypeOK, LocalsOK, RegisteredOnce, Requested, Entries,
                          InTransit, Marking
    <2>3. QED
      BY <2>1, <2>2, DeleteStep, ApplyStep DEF Next
  <1>3. QED
    BY <1>1, <1>2, PTL DEF Spec

\* Every variable has its type, and no frame has more entries in the list of the
\* frame than there are threads, although request_disposing() checks, pushes and marks in
\* three steps.
THEOREM TypeCorrect == Spec => []TypeOK
  BY Invariance, PTL DEF IInv

\* A change always waits for a dispose() that will come.
THEOREM NothingForgotten == Spec => []NoUpdateForgotten
  <1>1. IInv => NoUpdateForgotten
    BY DEF IInv, Requested, RegisteredOnce, NoUpdateForgotten
  <1>2. QED
    BY <1>1, Invariance, PTL

\* A delete() takes effect, but for the case it overlooks.
THEOREM DeleteEffective == Spec => DeleteTakesEffect
  <1>1. ASSUME IInv, NEW k \in Keys, Delete(k)
        PROVE  \/ Visible(k)' = 0 /\ write'[k] \notin Values /\ (write'[k] = NoEntry => readVal[k] = 0)
               \/ readState[k] = "Deleted" /\ write[k] \in Values
    BY <1>1, SyncMapAssumption DEF IInv, TypeOK, Entries, Delete, Visible, Written, Values,
       None, NoEntry, SyncMapAssumption
  <1>2. IInv /\ [Next]_vars =>
          [\A k \in Keys : Delete(k) =>
             \/ Visible(k)' = 0 /\ write'[k] \notin Values /\ (write'[k] = NoEntry => readVal[k] = 0)
             \/ readState[k] = "Deleted" /\ write[k] \in Values]_vars
    BY <1>1
  <1>3. QED
    BY <1>2, Invariance, PTL DEF Spec, DeleteTakesEffect

-----------------------------------------------------------------------------
(* The refinement of AtomicMap *)

\* A step that no caller can notice.
LEMMA Unnoticed ==
  ASSUME \A k \in Keys : Visible(k)' = Visible(k),
         \A t \in Threads : loc'[t] = loc[t] /\ Took(t)' = Took(t)
  PROVE  UNCHANGED Atomic!vars
  BY DEF Atomic!vars

\* A step by which the sets of the threads in S take effect, that of `last` last.
LEMMA SetsTakeEffect ==
  ASSUME NEW k \in Keys, NEW S \in SUBSET Threads, NEW last \in S,
         Visible(k)' = loc[last].val,
         \A j \in Keys \ {k} : Visible(j)' = Visible(j),
         \A t \in Threads : loc'[t] = loc[t],
         \A t \in Threads \ S : Took(t)' = Took(t),
         \A t \in S : loc[t].op = "set" /\ loc[t].key = k /\ ~Took(t) /\ Took(t)'
  PROVE  Atomic!SetAll(k)
  <1>1. S \in SUBSET Atomic!Waiting(k)
    BY DEF Atomic!Waiting
  <1> DEFINE value == [j \in Keys |-> Visible(j)]
             call == [t \in Threads |-> [op |-> loc[t].op, key |-> loc[t].key,
                                         val |-> loc[t].val, done |-> Took(t)]]
  <1>2. value' = [value EXCEPT ![k] = call[last].val]
    OBVIOUS
  <1>3. call' = [t \in Threads |->
                   IF t \in S THEN [call[t] EXCEPT !.done = TRUE] ELSE call[t]]
    OBVIOUS
  <1>4. QED
    BY <1>1, <1>2, <1>3, Zenon DEF Atomic!SetAll

\* Changing the value in a record of locals.
LEMMA WithVal ==
  ASSUME NEW t \in Threads, NEW v,
         loc \in [Threads -> [op : {"none", "get", "set"}, key : Keys \cup {0},
                             val : Values \cup {0}]],
         loc' = [loc EXCEPT ![t].val = v]
  PROVE  loc' = [loc EXCEPT ![t] = [op |-> loc[t].op, key |-> loc[t].key, val |-> v]]
  <1>1. ASSUME NEW r \in [op : {"none", "get", "set"}, key : Keys \cup {0},
                          val : Values \cup {0}]
        PROVE  [r EXCEPT !.val = v] = [op |-> r.op, key |-> r.key, val |-> v]
    OBVIOUS
  <1>2. loc' = [loc EXCEPT ![t] = [loc[t] EXCEPT !.val = v]]
    OBVIOUS
  <1>3. QED
    BY <1>1, <1>2

\* A step that changes the call of one thread and no value.
LEMMA OneCall ==
  ASSUME NEW t \in Threads, NEW r,
         UNCHANGED maps, loc \in [Threads -> [op : {"none", "get", "set"},
                             key : Keys \cup {0}, val : Values \cup {0}]],
         loc' = [loc EXCEPT ![t] = r],
         r = [op |-> r.op, key |-> r.key, val |-> r.val],
         \A u \in Threads \ {t} : pc'[u] = pc[u]
  PROVE  /\ [k \in Keys |-> Visible(k)]' = [k \in Keys |-> Visible(k)]
         /\ [u \in Threads |-> [op |-> loc[u].op, key |-> loc[u].key, val |-> loc[u].val,
                               done |-> Took(u)]]' =
            [[u \in Threads |-> [op |-> loc[u].op, key |-> loc[u].key, val |-> loc[u].val,
                                done |-> Took(u)]]
               EXCEPT ![t] = [op |-> r.op, key |-> r.key, val |-> r.val,
                            done |-> Took(t)']]
  <1>1. \A k \in Keys : Visible(k)' = Visible(k)
    BY DEF Visible, Written, maps
  <1>2. \A u \in Threads \ {t} : loc'[u] = loc[u] /\ Took(u)' = Took(u)
    BY DEF Took, maps
  <1>3. loc'[t].op = r.op /\ loc'[t].key = r.key /\ loc'[t].val = r.val
    OBVIOUS
  <1>4. QED
    BY <1>1, <1>2, <1>3

\* A thread outside of any call.
LEMMA NoCallIdle ==
  ASSUME NEW t \in Threads, pc[t] = "idle", loc[t] = NoLocals
  PROVE  [op |-> loc[t].op, key |-> loc[t].key, val |-> loc[t].val, done |-> Took(t)]
           = Atomic!NoCall
  <1>1. loc[t].op = "none" /\ loc[t].key = 0 /\ loc[t].val = 0
    BY DEF NoLocals
  <1>2. Took(t) = FALSE
    BY <1>1 DEF Took
  <1>3. QED
    BY <1>1, <1>2 DEF Atomic!NoCall, Atomic!Started

\* Every step inside a call is one of the atomic map, or goes unnoticed.
LEMMA CallRefines ==
  ASSUME NEW t \in Threads, IInv, GetStart(t) \/ SetStart(t) \/ Call(t)
  PROVE  Atomic!Next \/ UNCHANGED Atomic!vars
  <1> DEFINE value == [k \in Keys |-> Visible(k)]
             call == [u \in Threads |-> [op |-> loc[u].op, key |-> loc[u].key,
                                         val |-> loc[u].val, done |-> Took(u)]]
  <1>k. PICK k : k = loc[t].key
    OBVIOUS
  <1>t. /\ TypeOK /\ LocalsOK /\ Entries /\ InTransit
        /\ loc \in [Threads -> [op : {"none", "get", "set"}, key : Keys \cup {0},
                                val : Values \cup {0}]]
    BY DEF IInv, TypeOK
  <1>o. \A to, from : Step(t, from, to) =>
          /\ pc[t] = from /\ pc'[t] = to
          /\ \A u \in Threads \ {t} : pc'[u] = pc[u]
    BY <1>t DEF Step, TypeOK
  <1>1. CASE GetStart(t)
    <2>1. PICK j \in Keys :
            /\ Step(t, "idle", "state")
            /\ loc' = [loc EXCEPT ![t] = [op |-> "get", key |-> j, val |-> 0]]
            /\ UNCHANGED maps
      BY <1>1 DEF GetStart
    <2>2. call[t] = Atomic!NoCall
      BY <1>o, <1>t, <2>1, NoCallIdle DEF LocalsOK
    <2>3. Took(t)' = FALSE
      BY <1>o, <1>t, <2>1 DEF Took
    <2>4. /\ value' = value
          /\ call' = [call EXCEPT ![t] = [op |-> "get", key |-> j, val |-> 0,
                                          done |-> FALSE]]
      <3> DEFINE r == [op |-> "get", key |-> j, val |-> 0]
      <3>1. r.op = "get" /\ r.key = j /\ r.val = 0
        OBVIOUS
      <3>2. r = [op |-> r.op, key |-> r.key, val |-> r.val]
        OBVIOUS
      <3>3. /\ UNCHANGED maps /\ loc' = [loc EXCEPT ![t] = r]
            /\ \A u \in Threads \ {t} : pc'[u] = pc[u]
        BY <1>o, <2>1
      <3> HIDE DEF r
      <3>4. /\ value' = value
            /\ call' = [call EXCEPT ![t] = [op |-> r.op, key |-> r.key, val |-> r.val,
                                            done |-> Took(t)']]
        BY <1>t, <3>2, <3>3, OneCall
      <3> QED
        BY <2>3, <3>1, <3>4
    <2>5. Atomic!Begin(t)
      BY <2>2, <2>4, Zenon DEF Atomic!Begin, Atomic!Started
    <2>6. QED
      BY <2>5 DEF Atomic!Next
  <1>2. CASE SetStart(t)
    <2>1. PICK j \in Keys :
            /\ sets < MaxSets
            /\ Step(t, "idle", "need")
            /\ loc' = [loc EXCEPT ![t] = [op |-> "set", key |-> j, val |-> sets + 1]]
            /\ UNCHANGED maps
      BY <1>2 DEF SetStart
    <2>2. call[t] = Atomic!NoCall
      BY <1>o, <1>t, <2>1, NoCallIdle DEF LocalsOK
    <2>3. Took(t)' = FALSE
      BY <1>o, <1>t, <2>1 DEF Took
    <2>4. /\ value' = value
          /\ call' = [call EXCEPT ![t] = [op |-> "set", key |-> j, val |-> sets + 1,
                                          done |-> FALSE]]
      <3> DEFINE r == [op |-> "set", key |-> j, val |-> sets + 1]
      <3>1. r.op = "set" /\ r.key = j /\ r.val = sets + 1
        OBVIOUS
      <3>2. r = [op |-> r.op, key |-> r.key, val |-> r.val]
        OBVIOUS
      <3>3. /\ UNCHANGED maps /\ loc' = [loc EXCEPT ![t] = r]
            /\ \A u \in Threads \ {t} : pc'[u] = pc[u]
        BY <1>o, <2>1
      <3> HIDE DEF r
      <3>4. /\ value' = value
            /\ call' = [call EXCEPT ![t] = [op |-> r.op, key |-> r.key, val |-> r.val,
                                            done |-> Took(t)']]
        BY <1>t, <3>2, <3>3, OneCall
      <3> QED
        BY <2>3, <3>1, <3>4
    <2>5. sets + 1 \in Values
      BY <1>t, <2>1, SyncMapAssumption DEF TypeOK, Values, SyncMapAssumption
    <2>6. Atomic!Begin(t)
      BY <2>2, <2>4, <2>5, Zenon DEF Atomic!Begin, Atomic!Started
    <2>7. QED
      BY <2>6 DEF Atomic!Next
  <1>r. ASSUME UNCHANGED maps, loc[t].op = "get", k \in Keys, pc[t] # "return",
               Step(t, pc[t], "return"), loc' = [loc EXCEPT ![t].val = Visible(k)]
        PROVE  Atomic!Next
    <2>1. Took(t)' = TRUE /\ ~Took(t)
      BY <1>k, <1>o, <1>r DEF Took
    <2>2. loc' = [loc EXCEPT ![t] = [op |-> loc[t].op, key |-> k, val |-> Visible(k)]]
      BY <1>k, <1>t, <1>r, WithVal
    <2>3. /\ value' = value
          /\ call' = [call EXCEPT ![t] = [op |-> loc[t].op, key |-> k, val |-> Visible(k),
                                          done |-> TRUE]]
      <3>1. PICK r : r = [op |-> loc[t].op, key |-> k, val |-> Visible(k)]
        OBVIOUS
      <3>2. /\ r.op = loc[t].op /\ r.key = k /\ r.val = Visible(k)
            /\ r = [op |-> r.op, key |-> r.key, val |-> r.val]
        BY <3>1
      <3>3. loc' = [loc EXCEPT ![t] = r]
        BY <2>2, <3>1
      <3>4. /\ value' = value
            /\ call' = [call EXCEPT ![t] = [op |-> r.op, key |-> r.key, val |-> r.val,
                                            done |-> TRUE]]
        <4>1. UNCHANGED maps /\ \A u \in Threads \ {t} : pc'[u] = pc[u]
          BY <1>o, <1>r
        <4>2. QED
          BY <1>t, <2>1, <3>2, <3>3, <4>1, OneCall
      <3>5. QED
        BY <3>2, <3>4
    <2>4. call[t].op = "get" /\ ~call[t].done
      BY <1>k, <1>r, <2>1
    <2>5. call' = [call EXCEPT ![t].val = value[call[t].key], ![t].done = TRUE]
      BY <1>k, <1>r, <2>3
    <2>6. Atomic!Get(t)
      BY <2>3, <2>4, <2>5, Zenon DEF Atomic!Get
    <2>7. QED
      BY <2>6 DEF Atomic!Next
  <1>u. ASSUME UNCHANGED maps, UNCHANGED loc, Took(t)' = Took(t),
               \A v \in Threads \ {t} : pc'[v] = pc[v]
        PROVE  UNCHANGED Atomic!vars
    <2>1. \A j \in Keys : Visible(j)' = Visible(j)
      BY <1>u DEF Visible, Written, maps
    <2>2. \A v \in Threads : Took(v)' = Took(v)
      BY <1>u DEF Took, maps
    <2>3. QED
      BY <1>u, <2>1, <2>2, Unnoticed
  <1>3. CASE GetState(t)
    <2>1. /\ loc[t].op = "get" /\ pc[t] = "state" /\ k \in Keys /\ UNCHANGED maps
      BY <1>k, <1>o, <1>t, <1>3 DEF GetState, LocalsOK
    <2>2. CASE readState[k] = "Stable"
      BY <1>k, <1>3, <1>o, <1>r, <2>1, <2>2 DEF GetState, Visible
    <2>3. CASE readState[k] # "Stable"
      <3>1. Step(t, "state", "lookup") /\ UNCHANGED loc
        BY <1>k, <1>3, <2>3 DEF GetState
      <3>2. Took(t)' = Took(t)
        BY <1>o, <2>1, <3>1 DEF Took
      <3>3. QED
        BY <1>o, <1>u, <2>1, <3>1, <3>2
    <2>4. QED
      BY <2>2, <2>3
  <1>4. CASE GetWritten(t)
    <2>1. /\ loc[t].op = "get" /\ pc[t] = "lookup" /\ k \in Keys /\ UNCHANGED maps
          /\ readState[k] # "Stable"
      BY <1>k, <1>o, <1>t, <1>4 DEF GetWritten, LocalsOK, InTransit
    <2>2. QED
      BY <1>k, <1>4, <1>o, <1>r, <2>1 DEF GetWritten, Visible
  <1>5. ASSUME CheckNeed(t) \/ Register(t) \/ Mark(t)
        PROVE  UNCHANGED Atomic!vars
    <2>1. UNCHANGED maps /\ UNCHANGED loc
      BY <1>5 DEF CheckNeed, Register, Mark
    <2>2. /\ pc[t] \in {"need", "register", "mark"} /\ pc'[t] \in {"register", "mark", "insert"}
          /\ \A u \in Threads \ {t} : pc'[u] = pc[u]
      BY <1>o, <1>5 DEF CheckNeed, Register, Mark
    <2>3. Took(t)' = Took(t)
      BY <2>1, <2>2 DEF Took
    <2>4. QED
      BY <1>u, <2>1, <2>2, <2>3
  <1>6. CASE Insert(t)
    <2>1. /\ pc[t] = "insert" /\ k \in Keys /\ loc[t].op = "set" /\ loc[t].val \in Values
          /\ UNCHANGED <<loc, readState, readVal>>
          /\ write' = [write EXCEPT ![k] = loc[t].val]
          /\ pc'[t] = IF readState[k] = "Absent" THEN "return" ELSE "state"
          /\ \A u \in Threads \ {t} : pc'[u] = pc[u]
      BY <1>k, <1>o, <1>t, <1>6 DEF Insert, LocalsOK
    <2>2. \A u \in Threads \ {t} : Took(u)' = Took(u)
      BY <2>1 DEF Took
    <2>3. \A j \in Keys \ {k} : Visible(j)' = Visible(j)
      BY <1>t, <2>1 DEF Visible, Written, TypeOK
    <2>4. CASE readState[k] = "Stable"
      <3>1. Took(t)' = Took(t)
        BY <1>k, <2>1, <2>4 DEF Took
      <3>2. Visible(k)' = Visible(k)
        BY <2>1, <2>4 DEF Visible
      <3>3. QED
        BY <2>1, <2>2, <2>3, <3>1, <3>2, Unnoticed
    <2>5. CASE readState[k] # "Stable"
      <3>1. ~Took(t) /\ Took(t)'
        BY <1>k, <2>1, <2>5 DEF Took
      <3>2. Visible(k)' = loc[t].val
        BY <1>t, <2>1, <2>5 DEF Visible, Written, TypeOK, Values, NoEntry
      <3>3. Atomic!SetAll(k)
        <4>1. {t} \in SUBSET Threads /\ t \in {t}
          OBVIOUS
        <4>2. QED
          BY <1>k, <2>1, <2>2, <2>3, <3>1, <3>2, <4>1, SetsTakeEffect
      <3>4. QED
        BY <2>1, <3>3 DEF Atomic!Next
    <2>6. QED
      BY <2>4, <2>5
  <1>7. CASE SetState(t)
    <2>1. /\ UNCHANGED maps /\ UNCHANGED loc /\ loc[t].op = "set" /\ pc[t] = "state"
          /\ pc'[t] = IF readState[k] = "Stable" THEN "update" ELSE "return"
          /\ \A u \in Threads \ {t} : pc'[u] = pc[u]
      BY <1>k, <1>o, <1>7 DEF SetState
    <2>2. Took(t)' = Took(t)
      BY <1>k, <2>1 DEF Took, maps
    <2>3. QED
      BY <1>u, <2>1, <2>2
  <1>8. CASE MarkUpdated(t)
    <2>1. /\ pc[t] = "update" /\ pc'[t] = "return" /\ k \in Keys /\ loc[t].op = "set"
          /\ UNCHANGED <<loc, readVal, write>>
          /\ readState' = IF readState[k] = "Stable"
                            THEN [readState EXCEPT ![k] = "Updated"] ELSE readState
          /\ \A u \in Threads \ {t} : pc'[u] = pc[u]
      BY <1>k, <1>o, <1>t, <1>8 DEF MarkUpdated, LocalsOK
    <2>2. CASE readState[k] = "Stable"
      <3> DEFINE S == {u \in Threads : Marking(u) /\ loc[u].key = k}
      <3>1. /\ readState'[k] = "Updated"
            /\ \A j \in Keys \ {k} : readState'[j] = readState[j]
        BY <1>t, <2>1, <2>2 DEF TypeOK
      <3>2. \A u \in S : loc[u].op = "set" /\ loc[u].key = k /\ ~Took(u) /\ Took(u)'
        BY <2>1, <2>2, <3>1 DEF Marking, Took
      <3>3. \A u \in Threads \ S : Took(u)' = Took(u)
        <4>1. ASSUME NEW u \in Threads \ S PROVE Took(u)' = Took(u)
          <5>1. t \in S
            BY <1>k, <2>1 DEF Marking
          <5>2. pc'[u] = pc[u] /\ loc'[u] = loc[u]
            BY <2>1, <4>1, <5>1
          <5>3. ASSUME Marking(u) PROVE readState'[loc[u].key] = readState[loc[u].key]
            BY <1>t, <3>1, <4>1, <5>3 DEF LocalsOK, Marking
          <5>4. QED
            BY <5>2, <5>3 DEF Took, Marking
        <4>2. QED
          BY <4>1
      <3>4. PICK last \in S : loc[last].val = write[k]
        <4>1. write[k] \in Values
          BY <1>k, <1>t, <2>1 DEF InTransit, Marking
        <4>2. write[k] # NoEntry
          BY <4>1, SyncMapAssumption DEF Values, NoEntry, SyncMapAssumption
        <4>3. QED
          BY <1>t, <2>1, <2>2, <4>2 DEF InTransit
      <3>5. Visible(k)' = loc[last].val
        <4>1. write[k] \in Values
          BY <1>k, <1>t, <2>1 DEF InTransit, Marking
        <4>2. QED
          BY <2>1, <3>1, <3>4, <4>1, SyncMapAssumption
             DEF Visible, Written, Values, NoEntry, SyncMapAssumption
      <3>6. \A j \in Keys \ {k} : Visible(j)' = Visible(j)
        BY <2>1, <3>1 DEF Visible, Written
      <3>7. Atomic!SetAll(k)
        BY <2>1, <3>2, <3>3, <3>4, <3>5, <3>6, SetsTakeEffect
      <3>8. QED
        BY <2>1, <3>7 DEF Atomic!Next
    <2>3. CASE readState[k] # "Stable"
      <3>1. UNCHANGED maps
        BY <2>1, <2>3 DEF maps
      <3>2. Took(t)' = Took(t)
        BY <1>k, <2>1, <2>3, <3>1 DEF Took
      <3>3. QED
        BY <1>u, <2>1, <3>1, <3>2
    <2>4. QED
      BY <2>2, <2>3
  <1>9. CASE Return(t)
    <2>1. /\ Step(t, "return", "idle") /\ UNCHANGED maps
          /\ loc' = [loc EXCEPT ![t] = NoLocals]
      BY <1>9 DEF Return
    <2>2. Took(t) /\ Took(t)' = FALSE
      BY <1>o, <1>t, <2>1 DEF Took, NoLocals
    <2>3. /\ value' = value
          /\ call' = [call EXCEPT ![t] = [op |-> "none", key |-> 0, val |-> 0,
                                          done |-> FALSE]]
      BY <1>o, <1>t, <2>1, <2>2, OneCall DEF NoLocals
    <2>4. call[t].done
      BY <2>2
    <2>5. Atomic!End(t)
      BY <2>3, <2>4, Zenon DEF Atomic!End, Atomic!NoCall, Atomic!Started
    <2>6. QED
      BY <2>5 DEF Atomic!Next
  <1>10. QED
    BY <1>1, <1>2, <1>3, <1>4, <1>5, <1>6, <1>7, <1>8, <1>9 DEF Call

\* delete() is one of the atomic map, or goes unnoticed.
LEMMA DeleteRefines ==
  ASSUME NEW k \in Keys, IInv, Delete(k)
  PROVE  Atomic!Next \/ UNCHANGED Atomic!vars
  <1> DEFINE value == [j \in Keys |-> Visible(j)]
             call == [u \in Threads |-> [op |-> loc[u].op, key |-> loc[u].key,
                                         val |-> loc[u].val, done |-> Took(u)]]
  <1>1. /\ \A t \in Threads : pc[t] = "idle" /\ loc[t] = NoLocals
        /\ UNCHANGED <<pc, loc, readVal>>
    BY DEF Delete, Idle, IInv, LocalsOK
  <1>2. \A t \in Threads : Took(t) = FALSE /\ Took(t)' = FALSE
    BY <1>1 DEF Took, NoLocals
  <1>3. call' = call /\ \A t \in Threads : call[t] = Atomic!NoCall
    BY <1>1, <1>2, NoCallIdle
  <1>4. \A j \in Keys \ {k} : Visible(j)' = Visible(j)
    BY <1>1 DEF Delete, Visible, Written, IInv, TypeOK
  <1>5. CASE Visible(k)' = 0
    <2>1. value' = [value EXCEPT ![k] = 0]
      BY <1>4, <1>5
    <2>2. Atomic!Delete(k)
      BY <1>3, <2>1, Zenon DEF Atomic!Delete
    <2>3. QED
      BY <2>2 DEF Atomic!Next
  <1>6. CASE Visible(k)' = Visible(k)
    BY <1>1, <1>2, <1>4, <1>6, Unnoticed
  <1>7. Visible(k)' = 0 \/ Visible(k)' = Visible(k)
    BY <1>1 DEF Delete, Visible, Written, IInv, TypeOK, None, NoEntry
  <1>8. QED
    BY <1>5, <1>6, <1>7

\* The end of a frame moves values from one map to the other and shows none of it.
LEMMA ApplyRefines ==
  ASSUME IInv, Apply
  PROVE  UNCHANGED Atomic!vars
  <1>1. /\ \A t \in Threads : pc[t] = "idle" /\ loc[t] = NoLocals
        /\ UNCHANGED <<pc, loc>>
    BY DEF Apply, Idle, IInv, LocalsOK
  <1>2. \A t \in Threads : Took(t)' = Took(t)
    BY <1>1 DEF Took, NoLocals
  <1>3. \A k \in Keys : readState[k] = "Stable" => write[k] = NoEntry
    BY <1>1 DEF IInv, InTransit, Marking
  <1>4. ASSUME NEW k \in Keys PROVE Visible(k)' = Visible(k)
    <2>1. CASE write[k] = NoEntry
      BY <2>1 DEF Apply, Visible, Written
    <2>2. CASE write[k] = None
      BY <2>2 DEF Apply, Visible, Written, IInv, Entries, None, NoEntry
    <2>3. CASE write[k] \in Values
      BY <1>3, <2>3 DEF Apply, Visible, Written, None, NoEntry, Values
    <2>4. QED
      BY <2>1, <2>2, <2>3 DEF IInv, TypeOK
  <1>5. QED
    BY <1>1, <1>2, <1>4, Unnoticed

\* The two maps, the state bytes and the steps of set() and get() implement one map on
\* which every call takes effect at once.
THEOREM Refinement == Spec => ImplementsAtomicMap
  <1>1. Init => Atomic!Init
    BY DEF Init, Atomic!Init, Atomic!NoCall, Atomic!Started, NoLocals, Visible, Written, Took
  <1>2. IInv /\ [Next]_vars => [Atomic!Next]_(Atomic!vars)
    <2> SUFFICES ASSUME IInv, [Next]_vars PROVE Atomic!Next \/ UNCHANGED Atomic!vars
      OBVIOUS
    <2>1. CASE UNCHANGED vars
      <3>1. UNCHANGED <<readVal, readState, write, pc, loc>>
        BY <2>1 DEF vars, maps
      <3>2. QED
        BY <3>1, Unnoticed DEF Visible, Written, Took
    <2>2. QED
      BY <2>1, CallRefines, DeleteRefines, ApplyRefines DEF Next
  <1>3. QED
    BY <1>1, <1>2, Invariance, PTL DEF Spec, ImplementsAtomicMap, Atomic!Spec
=============================================================================
