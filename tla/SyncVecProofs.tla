--------------------------- MODULE SyncVecProofs ---------------------------
(***************************************************************************)
(* Proofs about SyncVec, for every set of threads, chunk size and bound.   *)
(***************************************************************************)
EXTENDS SyncVec, TLAPS, FiniteSetTheorems

\* A product of naturals is a natural.
LEMMA MulNat == \A a, b \in Nat : a * b \in Nat
  OBVIOUS

\* A remainder is below the modulus, and the identity on what is below it.
LEMMA ModRange ==
  \A a \in Int, m \in Nat :
    /\ m > 0 => a % m \in 0 .. m - 1
    /\ a \in 0 .. m - 1 => a % m = a
  OBVIOUS

\* The constants are numbers that leave the u16 counters room.
LEMMA Consts ==
  /\ N \in Nat /\ N > 0
  /\ MaxChunks \in Nat /\ MaxChunks > 0
  /\ U16 \in Nat /\ U16 > 0
  /\ Cardinality(Threads) \in Nat
  /\ N + Cardinality(Threads) < U16
  BY ConstAssumption, FS_CardinalityType DEF ConstAssumption

\* The threads that owe a fetch_sub are finitely many.
LEMMA UndoingFinite ==
  ASSUME NEW c
  PROVE  /\ IsFiniteSet(Undoing(c))
         /\ Cardinality(Undoing(c)) \in Nat
         /\ Cardinality(Undoing(c)) <= Cardinality(Threads)
  <1>1. IsFiniteSet(Threads)
    BY ConstAssumption DEF ConstAssumption
  <1>2. Undoing(c) \in SUBSET Threads
    BY DEF Undoing
  <1>3. QED
    BY <1>1, <1>2, FS_Subset, FS_CardinalityType

-----------------------------------------------------------------------------
(* Types *)

PCs == {"idle"} \cup PushPC \cup GetPC

\* A step of a thread moves its own pc only, to a known place.
LEMMA GotoType ==
  ASSUME NEW t \in Threads, NEW from, NEW to \in PCs, TypeOK, Goto(t, from, to)
  PROVE  pc' \in [Threads -> PCs]
  BY DEF TypeOK, Goto, PCs

\* A return leaves typed locals.
LEMMA ReturnType ==
  ASSUME NEW t \in Threads, NEW from, TypeOK, Return(t, from)
  PROVE  /\ pc' \in [Threads -> PCs]
         /\ ci' \in [Threads -> Chunks] /\ raw' \in [Threads -> Nat]
         /\ slot' \in [Threads -> Slots] /\ target' \in [Threads -> Nat]
  <1>1. pc' \in [Threads -> PCs]
    BY GotoType DEF Return, PCs
  <1>2. 0 \in Chunks /\ 0 \in Slots
    BY Consts DEF Chunks, Slots
  <1>3. QED
    BY <1>1, <1>2 DEF Return, TypeOK

\* Every step keeps the types: claimed indices stay inside their chunk.
LEMMA TypeStep == TypeOK /\ Reachable /\ [Next]_vars => TypeOK'
  <1> SUFFICES ASSUME TypeOK, Reachable, [Next]_vars PROVE TypeOK'
    OBVIOUS
  <1>l. \A t \in Threads : ci[t] \in Nat /\ rawLen[ci[t]] \in 0 .. U16 - 1
    BY DEF TypeOK, Chunks
  <1>m. /\ MaxChunks \in Nat /\ linked \in 1 .. MaxChunks
        /\ \A c \in Int : c \in Chunks <=> 0 <= c /\ c < MaxChunks
    BY Consts DEF TypeOK, Chunks
  <1>1. ASSUME NEW t \in Threads, PushStart(t) PROVE TypeOK'
    <2>1. pc' \in [Threads -> PCs]
      BY <1>1, GotoType DEF PushStart, PCs, PushPC
    <2>2. QED
      BY <1>1, <2>1 DEF PushStart, TypeOK, PCs, shared, locals, history
  <1>2. ASSUME NEW t \in Threads, GetStart(t) PROVE TypeOK'
    <2>1. PICK i \in 0 .. entriesSize - 1 :
            /\ Goto(t, "idle", IF i < N THEN "read" ELSE "rootlen")
            /\ target' = [target EXCEPT ![t] = i]
            /\ sure' = [sure EXCEPT ![t] = i < settled]
            /\ UNCHANGED <<shared, ci, raw, slot, settled>>
      BY <1>2 DEF GetStart
    <2>2. pc' \in [Threads -> PCs]
      BY <2>1, GotoType DEF PCs, GetPC
    <2>3. target' \in [Threads -> Nat]
      BY <2>1 DEF TypeOK
    <2>4. sure' \in [Threads -> BOOLEAN]
      BY <2>1 DEF TypeOK
    <2>5. QED
      BY <2>1, <2>2, <2>3, <2>4 DEF TypeOK, PCs, shared
  <1>3. ASSUME NEW t \in Threads, LoadRaw(t) PROVE TypeOK'
    <2>1. N * ci[t] + rawLen[ci[t]] \in Nat
      <3>1. N * ci[t] \in Nat
        BY MulNat, Consts, <1>l
      <3>2. QED
        BY <3>1, <1>l
    <2>2. raw' \in [Threads -> Nat]
      BY <1>3, <2>1 DEF LoadRaw, TypeOK
    <2>3. pc' \in [Threads -> PCs]
      BY <1>3, GotoType DEF LoadRaw, PCs, PushPC
    <2>4. QED
      BY <1>3, <2>2, <2>3 DEF LoadRaw, TypeOK, PCs, shared, history
  <1>4. ASSUME NEW t \in Threads, NextChunk(t) PROVE TypeOK'
    <2>1. pc' \in [Threads -> PCs]
      BY <1>4, GotoType DEF NextChunk, PCs, PushPC
    <2>2. ci[t] + 1 \in Chunks
      <3>1. ci[t] + 1 < linked
        BY <1>4 DEF NextChunk
      <3>2. QED
        BY <1>l, <1>m, <3>1
    <2>3. ci' \in [Threads -> Chunks]
      BY <1>4, <2>2 DEF NextChunk, TypeOK
    <2>4. QED
      BY <1>4, <2>1, <2>3 DEF NextChunk, TypeOK, PCs, shared, history
  <1>5. ASSUME NEW t \in Threads, MissChunk(t) PROVE TypeOK'
    <2>1. pc' \in [Threads -> PCs]
      BY <1>5, GotoType DEF MissChunk, PCs, PushPC
    <2>2. QED
      BY <1>5, <2>1 DEF MissChunk, TypeOK, PCs, shared, locals, history
  <1>6. ASSUME NEW t \in Threads, LinkChunk(t) PROVE TypeOK'
    <2>1. pc' \in [Threads -> PCs]
      BY <1>6, GotoType DEF LinkChunk, PCs, PushPC
    <2>2. ci[t] + 1 \in Chunks /\ linked' \in 1 .. MaxChunks
      <3>1. \/ ci[t] + 1 = linked /\ linked < MaxChunks /\ linked' = linked + 1
            \/ ci[t] + 1 < linked /\ linked' = linked
        BY <1>6 DEF LinkChunk
      <3>2. QED
        BY <1>l, <1>m, <3>1
    <2>3. ci' \in [Threads -> Chunks]
      BY <1>6, <2>2 DEF LinkChunk, TypeOK
    <2>4. QED
      BY <1>6, <2>1, <2>2, <2>3 DEF LinkChunk, TypeOK, PCs, history
  <1>7. ASSUME NEW t \in Threads, Claim(t) PROVE TypeOK'
    <2>1. pc' \in [Threads -> PCs]
      BY <1>7, GotoType DEF Claim, PCs, PushPC
    <2>2. (rawLen[ci[t]] + 1) % U16 \in 0 .. U16 - 1
      <3>1. rawLen[ci[t]] + 1 \in Int
        BY <1>l, Consts
      <3>2. QED
        BY <3>1, Consts, ModRange
    <2>3. rawLen' \in [Chunks -> 0 .. U16 - 1]
      BY <1>7, <2>2 DEF Claim, TypeOK
    <2>4. slot' \in [Threads -> Slots]
      BY <1>7, <1>l, Consts DEF Claim, TypeOK, Slots
    <2>5. QED
      BY <1>7, <2>1, <2>3, <2>4 DEF Claim, TypeOK, PCs, history
  <1>8. ASSUME NEW t \in Threads, Undo(t) PROVE TypeOK'
    <2>1. pc' \in [Threads -> PCs]
      BY <1>8, GotoType DEF Undo, PCs, PushPC
    <2>2. (rawLen[ci[t]] - 1) % U16 \in 0 .. U16 - 1
      <3>1. rawLen[ci[t]] - 1 \in Int
        BY <1>l, Consts
      <3>2. QED
        BY <3>1, Consts, ModRange
    <2>3. rawLen' \in [Chunks -> 0 .. U16 - 1]
      BY <1>8, <2>2 DEF Undo, TypeOK
    <2>4. QED
      BY <1>8, <2>1, <2>3 DEF Undo, TypeOK, PCs, locals, history
  <1>9. ASSUME NEW t \in Threads, Write(t) PROVE TypeOK'
    <2>1. pc' \in [Threads -> PCs]
      BY <1>9, GotoType DEF Write, PCs, PushPC
    <2>2. filled' \subseteq Chunks \X Slots
      BY <1>9 DEF Write, TypeOK
    <2>3. QED
      BY <1>9, <2>1, <2>2 DEF Write, TypeOK, PCs, locals, history
  <1>10. ASSUME NEW t \in Threads, PublishLen(t) PROVE TypeOK'
    <2>1. pc' \in [Threads -> PCs]
      BY <1>10, GotoType DEF PublishLen, PCs, PushPC
    <2>2. len' \in [Chunks -> Nat]
      BY <1>10 DEF PublishLen, TypeOK
    <2>3. QED
      BY <1>10, <2>1, <2>2 DEF PublishLen, TypeOK, PCs, locals, history
  <1>11. ASSUME NEW t \in Threads, PublishSize(t) PROVE TypeOK'
    <2>1. entriesSize' \in Nat /\ settled' \in Nat
      BY <1>11 DEF PublishSize, TypeOK
    <2>2. QED
      BY <1>11, <2>1, ReturnType DEF PublishSize, TypeOK, PCs
  <1>12. ASSUME NEW t \in Threads, RootLen(t) PROVE TypeOK'
    <2>1. pc' \in [Threads -> PCs]
      BY <1>12, GotoType DEF RootLen, PCs, GetPC
    <2>2. len[0] \in Nat
      BY Consts DEF TypeOK, Chunks
    <2>3. raw' \in [Threads -> Nat]
      BY <1>12, <2>2 DEF RootLen, TypeOK
    <2>4. QED
      BY <1>12, <2>1, <2>3 DEF RootLen, TypeOK, PCs, shared, history
  <1>13. ASSUME NEW t \in Threads, GetNext(t) PROVE TypeOK'
    <2>1. pc' \in [Threads -> PCs]
      BY <1>13, GotoType DEF GetNext, PCs, GetPC
    <2>2. ci[t] + 1 \in Chunks
      <3>1. ci[t] + 1 < linked
        BY <1>13 DEF GetNext
      <3>2. QED
        BY <1>l, <1>m, <3>1
    <2>3. rawLen[ci[t] + 1] \in Nat
      BY <2>2 DEF TypeOK
    <2>4. ci' \in [Threads -> Chunks] /\ raw' \in [Threads -> Nat]
      BY <1>13, <2>2, <2>3 DEF GetNext, TypeOK
    <2>5. QED
      BY <1>13, <2>1, <2>4 DEF GetNext, TypeOK, PCs, shared, history
  <1>14. ASSUME NEW t \in Threads, GetFound(t) PROVE TypeOK'
    <2>1. pc' \in [Threads -> PCs]
      BY <1>14, GotoType DEF GetFound, PCs, GetPC
    <2>2. QED
      BY <1>14, <2>1 DEF GetFound, TypeOK, PCs, shared, locals, history
  <1>15. ASSUME NEW t \in Threads, Read(t) PROVE TypeOK'
    <2>1. sure' \in [Threads -> BOOLEAN]
      BY <1>15 DEF Read, TypeOK
    <2>2. QED
      BY <1>15, <2>1, ReturnType DEF Read, TypeOK, PCs, shared
  <1>16. ASSUME Reset PROVE TypeOK'
    BY <1>16, Consts DEF Reset, TypeOK, locals
  <1>17. ASSUME UNCHANGED vars PROVE TypeOK'
    BY <1>17 DEF TypeOK, vars, shared, locals, history
  <1>18. QED
    BY <1>1, <1>2, <1>3, <1>4, <1>5, <1>6, <1>7, <1>8, <1>9, <1>10, <1>11,
       <1>12, <1>13, <1>14, <1>15, <1>16, <1>17 DEF Next, Push, Get

-----------------------------------------------------------------------------
(* The slot invariant *)

\* The initial state has every type and no claim.
LEMMA InitInv == Init => SlotInv
  <1> SUFFICES ASSUME Init PROVE SlotInv
    OBVIOUS
  <1>1. 0 \in Chunks /\ 0 \in Slots
    BY Consts DEF Chunks, Slots
  <1>2. TypeOK
    BY <1>1, Consts DEF Init, TypeOK, PushPC, GetPC
  <1>3. Overshoot
    BY Consts DEF Init, Overshoot, Undoing
  <1>4. Reachable /\ FilledClaimed /\ OwnedClaimed /\ SlotExclusive
    BY DEF Init, Reachable, FilledClaimed, OwnedClaimed, SlotExclusive
  <1>5. QED
    BY <1>2, <1>3, <1>4 DEF SlotInv

\* A step that changes no counter and no cell, and neither starts nor ends a
\* claim, keeps the whole invariant.
LEMMA QuietStep ==
  ASSUME SlotInv, NEW t \in Threads,
         rawLen' = rawLen, filled' = filled,
         linked \in Nat, linked' \in Nat, linked <= linked',
         \A u \in Threads \ {t} :
           pc'[u] = pc[u] /\ ci'[u] = ci[u] /\ slot'[u] = slot[u],
         pc[t] # "undo", pc'[t] \notin {"undo", "write"}, ci'[t] < linked'
  PROVE  (Reachable /\ Overshoot /\ FilledClaimed /\ OwnedClaimed /\ SlotExclusive)'
  <1>1. \A c : Undoing(c)' = Undoing(c)
    BY DEF Undoing
  <1>2. Overshoot'
    BY <1>1 DEF SlotInv, Overshoot
  <1>3. FilledClaimed'
    BY DEF SlotInv, FilledClaimed
  <1>4. OwnedClaimed'
    BY DEF SlotInv, OwnedClaimed
  <1>5. SlotExclusive'
    BY DEF SlotInv, SlotExclusive
  <1>6. Reachable'
    <2>1. ASSUME NEW u \in Threads PROVE ci'[u] < linked'
      <3>1. ci[u] \in Nat /\ ci[u] < linked
        BY DEF SlotInv, Reachable, TypeOK, Chunks
      <3>2. QED
        BY <3>1
    <2>2. QED
      BY <2>1 DEF Reachable
  <1>7. QED
    BY <1>2, <1>3, <1>4, <1>5, <1>6

\* A fetch_add finds room: the claims owed back are those of other threads.
LEMMA ClaimFits ==
  ASSUME SlotInv, NEW t \in Threads, pc[t] = "walk"
  PROVE  /\ ci[t] \in Chunks /\ rawLen[ci[t]] \in Nat
         /\ rawLen[ci[t]] + 1 \in 0 .. U16 - 1
  <1>c. PICK c \in Chunks : c = ci[t]
    BY DEF SlotInv, TypeOK
  <1>1. rawLen[c] \in Nat /\ t \notin Undoing(c) /\ IsFiniteSet(Undoing(c))
    <2>1. rawLen[c] \in Nat
      BY Consts DEF SlotInv, TypeOK
    <2>2. t \notin Undoing(c)
      BY DEF Undoing
    <2> QED
      BY <2>1, <2>2, UndoingFinite
  <1>2. Undoing(c) \cup {t} \in SUBSET Threads
    BY DEF Undoing
  <1>3. Cardinality(Undoing(c) \cup {t}) = Cardinality(Undoing(c)) + 1
    BY <1>1, FS_AddElement
  <1>4. Cardinality(Undoing(c) \cup {t}) <= Cardinality(Threads)
    BY <1>2, ConstAssumption, FS_Subset DEF ConstAssumption
  <1>5. rawLen[c] <= N + Cardinality(Undoing(c)) /\ Cardinality(Undoing(c)) \in Nat
    BY <1>1, UndoingFinite, Consts DEF SlotInv, Overshoot
  <1>6. rawLen[c] + 1 \in 0 .. U16 - 1
    BY <1>1, <1>3, <1>4, <1>5, Consts
  <1> QED
    BY <1>c, <1>1, <1>6

\* It is of the chunk's claims and does not wrap.
LEMMA ClaimAdds ==
  ASSUME SlotInv, NEW t \in Threads, Claim(t)
  PROVE  /\ ci[t] \in Chunks /\ rawLen[ci[t]] \in Nat
         /\ rawLen' = [rawLen EXCEPT ![ci[t]] = rawLen[ci[t]] + 1]
  <1>1. /\ ci[t] \in Chunks /\ rawLen[ci[t]] \in Nat
        /\ rawLen[ci[t]] + 1 \in 0 .. U16 - 1 /\ rawLen[ci[t]] + 1 \in Int
    BY ClaimFits DEF Claim, Goto
  <1>2. (rawLen[ci[t]] + 1) % U16 = rawLen[ci[t]] + 1
    BY <1>1, Consts, ModRange
  <1> QED
    BY <1>1, <1>2 DEF Claim

\* The fetch_sub is of a claim beyond the chunk.
LEMMA UndoFits ==
  ASSUME SlotInv, NEW t \in Threads, pc[t] = "undo"
  PROVE  /\ ci[t] \in Chunks /\ rawLen[ci[t]] \in Nat /\ rawLen[ci[t]] > N
         /\ rawLen[ci[t]] - 1 \in 0 .. U16 - 1
  <1>c. PICK c \in Chunks : c = ci[t]
    BY DEF SlotInv, TypeOK
  <1>1. t \in Undoing(c)
    BY <1>c DEF Undoing
  <1>2. rawLen[c] = N + Cardinality(Undoing(c)) /\ rawLen[c] \in 0 .. U16 - 1
    BY <1>1 DEF SlotInv, Overshoot, TypeOK
  <1>3. Cardinality(Undoing(c)) \in Nat /\ Cardinality(Undoing(c)) # 0
    BY <1>1, UndoingFinite, FS_EmptySet
  <1>4. rawLen[c] > N /\ rawLen[c] - 1 \in 0 .. U16 - 1 /\ rawLen[c] \in Nat
    BY <1>2, <1>3, Consts
  <1> QED
    BY <1>c, <1>4

\* It does not wrap either.
LEMMA UndoTakes ==
  ASSUME SlotInv, NEW t \in Threads, Undo(t)
  PROVE  /\ ci[t] \in Chunks /\ rawLen[ci[t]] \in Nat /\ rawLen[ci[t]] > N
         /\ rawLen' = [rawLen EXCEPT ![ci[t]] = rawLen[ci[t]] - 1]
  <1>1. /\ ci[t] \in Chunks /\ rawLen[ci[t]] \in Nat /\ rawLen[ci[t]] > N
        /\ rawLen[ci[t]] - 1 \in 0 .. U16 - 1 /\ rawLen[ci[t]] - 1 \in Int
    BY UndoFits DEF Undo, Goto
  <1>2. (rawLen[ci[t]] - 1) % U16 = rawLen[ci[t]] - 1
    BY <1>1, Consts, ModRange
  <1> QED
    BY <1>1, <1>2 DEF Undo

\* The fetch_add: below N it hands out an index nobody holds, from N on it
\* adds one claim to take back.
LEMMA ClaimStep ==
  ASSUME SlotInv, NEW t \in Threads, Claim(t)
  PROVE  (Reachable /\ Overshoot /\ FilledClaimed /\ OwnedClaimed /\ SlotExclusive)'
  <1>c. PICK c \in Chunks : c = ci[t]
    BY DEF SlotInv, TypeOK
  <1>1. /\ c \in Chunks /\ rawLen[c] \in Nat /\ pc[t] = "walk"
        /\ UNCHANGED <<ci, filled, linked>>
    BY <1>c DEF Claim, Goto, SlotInv, TypeOK
  <1>2. /\ rawLen[c] <= N + Cardinality(Undoing(c))
        /\ Cardinality(Undoing(c)) \in Nat
        /\ rawLen[c] + 1 > N => rawLen[c] = N + Cardinality(Undoing(c))
    BY <1>c, <1>1, Consts, UndoingFinite DEF SlotInv, Overshoot
  <1>3. t \notin Undoing(c) /\ IsFiniteSet(Undoing(c))
    BY <1>c, <1>1, UndoingFinite DEF Undoing
  <1>4. \A d \in Chunks \ {c} : rawLen'[d] = rawLen[d] /\ Undoing(d)' = Undoing(d)
    BY <1>c, <1>1 DEF Claim, Goto, SlotInv, TypeOK, Undoing
  <1>5. Reachable'
    BY <1>c, <1>1 DEF SlotInv, Reachable
  <1>7. rawLen'[c] = rawLen[c] + 1
    BY <1>c, ClaimAdds DEF SlotInv, TypeOK
  <1>8. FilledClaimed'
    <2>1. ASSUME NEW d \in Chunks, NEW s \in Slots, <<d, s>> \in filled
          PROVE  s < rawLen'[d]
      <3>1. s < rawLen[d] /\ s \in Int
        BY <1>c, <2>1, Consts DEF SlotInv, FilledClaimed, Slots
      <3>2. QED
        BY <1>c, <3>1, <1>1, <1>4, <1>7
    <2>2. QED
      BY <1>c, <2>1, <1>1 DEF FilledClaimed
  <1>9. CASE rawLen[c] + 1 > N
    <2>1. /\ \A u \in Threads \ {t} : pc'[u] = pc[u]
          /\ pc'[t] = "undo" /\ slot' = slot
      BY <1>c, <1>9, <1>1, Consts DEF Claim, Goto, SlotInv, TypeOK
    <2>2. Undoing(c)' = Undoing(c) \cup {t}
      BY <1>c, <2>1, <1>1 DEF Undoing
    <2>3. rawLen'[c] = N + Cardinality(Undoing(c)')
      <3>1. Cardinality(Undoing(c)') = Cardinality(Undoing(c)) + 1
        BY <1>c, <2>2, <1>3, FS_AddElement
      <3>2. QED
        BY <1>c, <3>1, <1>2, <1>7, <1>9, Consts
    <2>4. Overshoot'
      <3>1. ASSUME NEW d \in Chunks \ {c}
            PROVE  \/ rawLen'[d] < N /\ Undoing(d)' = {}
                   \/ rawLen'[d] = N + Cardinality(Undoing(d)')
        BY <1>c, <1>4 DEF SlotInv, Overshoot
      <3>2. QED
        BY <1>c, <2>3, <3>1 DEF Overshoot
    <2>5. OwnedClaimed'
      <3>1. ASSUME NEW u \in Threads, pc'[u] = "write"
            PROVE  slot'[u] < rawLen'[ci'[u]]
        <4>1. /\ slot[u] < rawLen[ci[u]] /\ slot[u] \in Int /\ ci[u] \in Chunks
          BY <1>c, <3>1, <2>1, Consts DEF SlotInv, OwnedClaimed, TypeOK, Slots
        <4>2. QED
          BY <1>c, <4>1, <2>1, <1>1, <1>4, <1>7
      <3>2. QED
        BY <1>c, <3>1 DEF OwnedClaimed
    <2>6. SlotExclusive'
      BY <1>c, <2>1, <1>1 DEF SlotInv, SlotExclusive
    <2>7. QED
      BY <1>c, <2>4, <2>5, <2>6, <1>5, <1>8
  <1>10. CASE rawLen[c] + 1 <= N
    <2>1. /\ \A u \in Threads \ {t} : pc'[u] = pc[u] /\ slot'[u] = slot[u]
          /\ pc'[t] = "write" /\ slot'[t] = rawLen[c]
      <3>1. /\ pc' = [pc EXCEPT ![t] = "write"]
            /\ slot' = [slot EXCEPT ![t] = rawLen[c]]
        <4>1. ~(rawLen[c] + 1 > N)
          BY <1>c, <1>10, <1>1, Consts
        <4>2. QED
          BY <1>c, <4>1 DEF Claim, Goto
      <3>2. QED
        BY <1>c, <3>1 DEF SlotInv, TypeOK
    <2>2. Undoing(c)' = {}
      <3>1. \/ rawLen[c] < N /\ Undoing(c) = {}
            \/ rawLen[c] = N + Cardinality(Undoing(c))
        BY <1>c, <1>1 DEF SlotInv, Overshoot
      <3>2. rawLen[c] # N + Cardinality(Undoing(c))
        BY <1>c, <1>10, <1>1, <1>2, Consts
      <3>3. QED
        BY <1>c, <3>1, <3>2, <2>1, <1>1 DEF Undoing
    <2>3. Overshoot'
      <3>1. rawLen'[c] < N \/ rawLen'[c] = N + Cardinality(Undoing(c)')
        <4>1. Cardinality(Undoing(c)') = 0
          BY <1>c, <2>2, FS_EmptySet
        <4>2. QED
          BY <1>c, <4>1, <1>1, <1>7, <1>10, Consts
      <3>2. ASSUME NEW d \in Chunks \ {c}
            PROVE  \/ rawLen'[d] < N /\ Undoing(d)' = {}
                   \/ rawLen'[d] = N + Cardinality(Undoing(d)')
        BY <1>c, <1>4 DEF SlotInv, Overshoot
      <3>3. QED
        BY <1>c, <3>1, <3>2, <2>2 DEF Overshoot
    <2>4. \A u \in Threads : pc[u] = "write" =>
            slot[u] \in Int /\ ci[u] \in Chunks /\ slot[u] < rawLen[ci[u]]
      BY Consts DEF SlotInv, OwnedClaimed, TypeOK, Slots
    <2>5. OwnedClaimed'
      <3>1. ASSUME NEW u \in Threads, pc'[u] = "write"
            PROVE  slot'[u] < rawLen'[ci'[u]]
        BY <1>c, <3>1, <2>1, <2>4, <1>1, <1>4, <1>7
      <3>2. QED
        BY <1>c, <3>1 DEF OwnedClaimed
    <2>6. SlotExclusive'
      <3>1. rawLen[c] \in Slots
        BY <1>c, <1>10, <1>1, Consts DEF Slots
      <3>2. <<c, rawLen[c]>> \notin filled
        <4>1. ~(rawLen[c] < rawLen[c])
          BY <1>c, <1>1
        <4>2. QED
          BY <1>c, <3>1, <4>1, <1>1 DEF SlotInv, FilledClaimed
      <3>3. \A u \in Threads \ {t} : pc[u] = "write" =>
              <<ci[u], slot[u]>> # <<c, rawLen[c]>>
        BY <1>c, <2>4, <1>1
      <3>4. QED
        BY <1>c, <3>1, <3>2, <3>3, <2>1, <1>1 DEF SlotInv, SlotExclusive
    <2>7. QED
      BY <1>c, <2>3, <2>5, <2>6, <1>5, <1>8
  <1>11. QED
    BY <1>c, <1>1, <1>9, <1>10, Consts

\* The fetch_sub takes one overshoot back, from a full chunk.
LEMMA UndoStep ==
  ASSUME SlotInv, NEW t \in Threads, Undo(t)
  PROVE  (Reachable /\ Overshoot /\ FilledClaimed /\ OwnedClaimed /\ SlotExclusive)'
  <1>c. PICK c \in Chunks : c = ci[t]
    BY DEF SlotInv, TypeOK
  <1>1. /\ c \in Chunks /\ rawLen[c] \in Nat /\ pc[t] = "undo"
        /\ pc' = [pc EXCEPT ![t] = "load"]
        /\ UNCHANGED <<ci, slot, filled, linked>>
    BY <1>c DEF Undo, Goto, SlotInv, TypeOK, locals
  <1>2. /\ t \in Undoing(c)
        /\ IsFiniteSet(Undoing(c)) /\ Cardinality(Undoing(c)) \in Nat
        /\ Cardinality(Undoing(c)) <= Cardinality(Threads)
    BY <1>c, <1>1, UndoingFinite DEF Undoing
  <1>3. rawLen[c] = N + Cardinality(Undoing(c))
    BY <1>c, <1>1, <1>2 DEF SlotInv, Overshoot
  <1>4. /\ Undoing(c)' = Undoing(c) \ {t}
        /\ \A d \in Chunks \ {c} : Undoing(d)' = Undoing(d)
    BY <1>c, <1>1 DEF Undoing, SlotInv, TypeOK
  <1>5. /\ Cardinality(Undoing(c)') = Cardinality(Undoing(c)) - 1
        /\ Cardinality(Undoing(c)') \in Nat
    <2>1. Cardinality(Undoing(c) \ {t}) = Cardinality(Undoing(c)) - 1
      BY <1>c, <1>2, FS_RemoveElement
    <2>2. Cardinality(Undoing(c) \ {t}) \in Nat
      BY <1>c, <1>2, FS_RemoveElement, FS_CardinalityType
    <2>3. QED
      BY <1>c, <1>4, <2>1, <2>2
  <1>6. /\ rawLen'[c] = N + Cardinality(Undoing(c)')
        /\ \A d \in Chunks \ {c} : rawLen'[d] = rawLen[d]
    <2>1. rawLen[c] - 1 \in 0 .. U16 - 1 /\ rawLen[c] - 1 \in Int
      BY <1>c, <1>2, <1>3, <1>5, Consts
    <2>2. (rawLen[c] - 1) % U16 = rawLen[c] - 1
      BY <1>c, <2>1, Consts, ModRange
    <2>3. rawLen' = [rawLen EXCEPT ![c] = rawLen[c] - 1]
      BY <1>c, <2>2 DEF Undo
    <2>4. rawLen[c] - 1 = N + Cardinality(Undoing(c)')
      BY <1>c, <1>2, <1>3, <1>5, Consts
    <2>5. QED
      BY <1>c, <2>3, <2>4, <1>1 DEF SlotInv, TypeOK
  <1>7. Reachable'
    BY <1>c, <1>1 DEF SlotInv, Reachable
  <1>8. Overshoot'
    BY <1>c, <1>4, <1>6 DEF SlotInv, Overshoot
  <1>9. \A d \in Chunks, s \in Slots : s < rawLen[d] => s < rawLen'[d]
    <2>1. ASSUME NEW s \in Slots PROVE s < rawLen'[c]
      BY <1>c, <1>5, <1>6, Consts DEF Slots
    <2>2. QED
      BY <1>c, <2>1, <1>6
  <1>10. FilledClaimed'
    BY <1>c, <1>1, <1>9 DEF SlotInv, FilledClaimed
  <1>11. \A u \in Threads \ {t} : pc'[u] = pc[u]
    BY <1>c, <1>1 DEF SlotInv, TypeOK
  <1>12. pc'[t] = "load"
    BY <1>c, <1>1 DEF SlotInv, TypeOK
  <1>13. OwnedClaimed'
    <2>1. ASSUME NEW u \in Threads, pc'[u] = "write"
          PROVE  slot'[u] < rawLen'[ci'[u]]
      <3>1. pc[u] = "write" /\ slot[u] \in Slots /\ ci[u] \in Chunks
        BY <1>c, <2>1, <1>11, <1>12 DEF SlotInv, TypeOK
      <3>2. slot[u] < rawLen[ci[u]]
        BY <1>c, <3>1 DEF SlotInv, OwnedClaimed
      <3>3. QED
        BY <1>c, <3>1, <3>2, <1>1, <1>9
    <2>2. QED
      BY <1>c, <2>1 DEF OwnedClaimed
  <1>14. SlotExclusive'
    BY <1>c, <1>1, <1>11, <1>12 DEF SlotInv, SlotExclusive
  <1>15. QED
    BY <1>c, <1>7, <1>8, <1>10, <1>13, <1>14

\* The item fills a cell no other push is about to write.
LEMMA WriteStep ==
  ASSUME SlotInv, NEW t \in Threads, Write(t)
  PROVE  (Reachable /\ Overshoot /\ FilledClaimed /\ OwnedClaimed /\ SlotExclusive)'
  <1>1. /\ pc[t] = "write" /\ pc'[t] = "len"
        /\ \A u \in Threads \ {t} : pc'[u] = pc[u]
        /\ UNCHANGED <<ci, slot, rawLen, linked>>
        /\ filled' = filled \cup {<<ci[t], slot[t]>>}
    BY DEF Write, Goto, SlotInv, TypeOK, locals
  <1>2. \A c : Undoing(c)' = Undoing(c)
    BY <1>1 DEF Undoing
  <1>3. Reachable' /\ Overshoot'
    BY <1>1, <1>2 DEF SlotInv, Reachable, Overshoot
  <1>4. FilledClaimed'
    BY <1>1 DEF SlotInv, FilledClaimed, OwnedClaimed
  <1>5. OwnedClaimed'
    BY <1>1 DEF SlotInv, OwnedClaimed
  <1>6. SlotExclusive'
    BY <1>1 DEF SlotInv, SlotExclusive
  <1>7. QED
    BY <1>3, <1>4, <1>5, <1>6

\* The whole invariant is kept by every step.
LEMMA SlotStep == SlotInv /\ [Next]_vars => SlotInv'
  <1> SUFFICES ASSUME SlotInv, [Next]_vars PROVE SlotInv'
    OBVIOUS
  <1> DEFINE Rest == Reachable /\ Overshoot /\ FilledClaimed /\ OwnedClaimed
                     /\ SlotExclusive
  <1>1. TypeOK'
    BY TypeStep DEF SlotInv
  <1>2. \A t \in Threads : ci[t] < linked /\ ci[t] \in Nat
    BY DEF SlotInv, Reachable, TypeOK, Chunks
  <1>3. linked \in Nat /\ linked > 0 /\ linked' \in Nat
    BY <1>1, Consts DEF SlotInv, TypeOK
  <1>4. ASSUME NEW t \in Threads, PushStart(t) \/ GetStart(t) \/ Push(t) \/ Get(t)
        PROVE  Rest'
    <2>1. CASE PushStart(t)
      BY <2>1, <1>2, <1>3, QuietStep
         DEF PushStart, Goto, shared, locals, SlotInv, TypeOK
    <2>2. CASE GetStart(t)
      BY <2>2, <1>2, <1>3, QuietStep
         DEF GetStart, Goto, shared, SlotInv, TypeOK
    <2>3. CASE LoadRaw(t)
      BY <2>3, <1>2, <1>3, QuietStep DEF LoadRaw, Goto, shared, SlotInv, TypeOK
    <2>4. CASE NextChunk(t)
      BY <2>4, <1>2, <1>3, QuietStep DEF NextChunk, Goto, shared, SlotInv, TypeOK
    <2>5. CASE MissChunk(t)
      BY <2>5, <1>2, <1>3, QuietStep
         DEF MissChunk, Goto, shared, locals, SlotInv, TypeOK
    <2>6. CASE LinkChunk(t)
      BY <2>6, <1>2, <1>3, QuietStep DEF LinkChunk, Goto, SlotInv, TypeOK
    <2>7. CASE Claim(t)
      BY <2>7, ClaimStep
    <2>8. CASE Undo(t)
      BY <2>8, UndoStep
    <2>9. CASE Write(t)
      BY <2>9, WriteStep
    <2>10. CASE PublishLen(t)
      BY <2>10, <1>2, <1>3, QuietStep
         DEF PublishLen, Goto, locals, SlotInv, TypeOK
    <2>11. CASE PublishSize(t)
      BY <2>11, <1>2, <1>3, QuietStep
         DEF PublishSize, Return, Goto, SlotInv, TypeOK
    <2>12. CASE RootLen(t)
      BY <2>12, <1>2, <1>3, QuietStep DEF RootLen, Goto, shared, SlotInv, TypeOK
    <2>13. CASE GetNext(t)
      BY <2>13, <1>2, <1>3, QuietStep DEF GetNext, Goto, shared, SlotInv, TypeOK
    <2>14. CASE GetFound(t)
      BY <2>14, <1>2, <1>3, QuietStep
         DEF GetFound, Goto, shared, locals, SlotInv, TypeOK
    <2>15. CASE Read(t)
      BY <2>15, <1>2, <1>3, QuietStep
         DEF Read, Return, Goto, shared, SlotInv, TypeOK
    <2>16. QED
      BY <1>4, <2>1, <2>2, <2>3, <2>4, <2>5, <2>6, <2>7, <2>8, <2>9, <2>10,
         <2>11, <2>12, <2>13, <2>14, <2>15 DEF Push, Get
  <1>5. CASE Reset
    <2>1. /\ \A c \in Chunks : rawLen'[c] = 0
          /\ filled' = {} /\ UNCHANGED <<linked, pc, ci, slot>>
          /\ \A t \in Threads : pc[t] = "idle"
      BY <1>5 DEF Reset, locals
    <2>2. \A c : Undoing(c)' = {}
      BY <2>1 DEF Undoing
    <2>3. Overshoot'
      BY <2>1, <2>2, Consts DEF Overshoot
    <2>4. Reachable' /\ FilledClaimed' /\ OwnedClaimed' /\ SlotExclusive'
      BY <2>1 DEF SlotInv, Reachable, FilledClaimed, OwnedClaimed, SlotExclusive
    <2>5. QED
      BY <1>1, <2>3, <2>4 DEF SlotInv
  <1>6. CASE UNCHANGED vars
    <2>1. UNCHANGED <<rawLen, linked, filled, pc, ci, slot>>
      BY <1>6 DEF vars, shared, locals
    <2>2. \A c : Undoing(c)' = Undoing(c)
      BY <2>1 DEF Undoing
    <2>3. Rest'
      BY <2>1, <2>2 DEF SlotInv, Reachable, Overshoot, FilledClaimed,
         OwnedClaimed, SlotExclusive
    <2>4. QED
      BY <1>1, <2>3 DEF SlotInv
  <1>7. QED
    BY <1>1, <1>4, <1>5, <1>6 DEF Next, SlotInv

\* Every reachable state satisfies the inductive invariant.
THEOREM Invariance == Spec => []SlotInv
  BY InitInv, SlotStep, PTL DEF Spec

\* raw_len wraps neither when a push adds its claim nor when it takes it back, as long as
\* the cells of a chunk and one claim of each thread fit the u16.
THEOREM NeverWraps == Spec => []NoWrap
  <1>1. SlotInv => NoWrap
    BY ClaimFits, UndoFits, Consts DEF NoWrap
  <1>2. QED
    BY <1>1, Invariance, PTL

\* The types: the cell a push has claimed is one of its chunk, and no walk is at a chunk
\* that the allocator did not provide.
THEOREM TypeCorrect == Spec => []TypeOK
  <1>1. SlotInv => TypeOK
    BY DEF SlotInv
  <1>2. QED
    BY <1>1, Invariance, PTL

\* No two pushes ever write the same cell and none overwrites an item, however
\* many threads claim, overshoot and take back at once.
THEOREM ExclusiveWrites == Spec => []SlotExclusive
  <1>1. SlotInv => SlotExclusive
    BY DEF SlotInv
  <1>2. QED
    BY <1>1, Invariance, PTL

-----------------------------------------------------------------------------
(* What the counters count *)

Cells == Chunks \X Slots
FilledSlots(c) == {s \in Slots : <<c, s>> \in filled}
Counting(c) == {t \in Threads : pc[t] = "len" /\ ci[t] = c}
Announcing == {t \in Threads : pc[t] \in {"len", "size"}}

\* A claimed cell holds an item or is about to.
ClaimsWritten == \A c \in Chunks, s \in Slots : s < rawLen[c] =>
  \/ <<c, s>> \in filled
  \/ \E t \in Threads : pc[t] = "write" /\ ci[t] = c /\ slot[t] = s

\* len counts the items of a chunk, but for those about to be counted.
LenCounts == \A c \in Chunks :
  Cardinality(FilledSlots(c)) = len[c] + Cardinality(Counting(c))

\* Only linked chunks are claimed from.
ClaimsLinked == \A c \in Chunks : rawLen[c] > 0 => c < linked

\* A thread asks for an index below the size.
AsksBelow == \A t \in Threads : pc[t] \in GetPC => target[t] < entriesSize

ItemInv ==
  /\ SlotInv
  /\ ClaimsWritten
  /\ LenCounts
  /\ ClaimsLinked
  /\ SizeCounts
  /\ AsksBelow

\* The sets that are counted are finite.
LEMMA CountedFinite ==
  ASSUME filled \subseteq Cells
  PROVE  /\ IsFiniteSet(Cells) /\ IsFiniteSet(filled)
         /\ IsFiniteSet(Announcing) /\ Cardinality(Announcing) \in Nat
         /\ \A c : /\ IsFiniteSet(FilledSlots(c))
                   /\ Cardinality(FilledSlots(c)) \in Nat
                   /\ IsFiniteSet(Counting(c))
                   /\ Cardinality(Counting(c)) \in Nat
  <1>1. IsFiniteSet(Chunks) /\ IsFiniteSet(Slots) /\ IsFiniteSet(Threads)
    <2>1. IsFiniteSet(0 .. MaxChunks - 1)
      BY FS_Interval, Consts
    <2>2. IsFiniteSet(0 .. N - 1)
      BY FS_Interval, Consts
    <2> QED
      BY <2>1, <2>2, ConstAssumption DEF ConstAssumption, Chunks, Slots
  <1>2. IsFiniteSet(Cells)
    BY <1>1, FS_Product DEF Cells
  <1>3. IsFiniteSet(filled)
    BY <1>2, FS_Subset
  <1>4. IsFiniteSet(Announcing) /\ Cardinality(Announcing) \in Nat
    <2>1. Announcing \in SUBSET Threads
      BY DEF Announcing
    <2> QED
      BY <2>1, <1>1, FS_Subset, FS_CardinalityType
  <1>5. ASSUME NEW c
        PROVE  /\ IsFiniteSet(FilledSlots(c))
               /\ Cardinality(FilledSlots(c)) \in Nat
               /\ IsFiniteSet(Counting(c))
               /\ Cardinality(Counting(c)) \in Nat
    <2>1. FilledSlots(c) \in SUBSET Slots
      BY DEF FilledSlots
    <2>2. Counting(c) \in SUBSET Threads
      BY DEF Counting
    <2> QED
      BY <2>1, <2>2, <1>1, FS_Subset, FS_CardinalityType
  <1> QED
    BY <1>2, <1>3, <1>4, <1>5

\* The counts hold initially.
LEMMA InitItems == Init => ItemInv
  <1> SUFFICES ASSUME Init PROVE ItemInv
    OBVIOUS
  <1>1. SlotInv
    BY InitInv
  <1>2. Cardinality({}) = 0
    BY FS_EmptySet
  <1>3. ClaimsWritten /\ ClaimsLinked /\ AsksBelow
    BY Consts DEF Init, ClaimsWritten, ClaimsLinked, AsksBelow, GetPC, Slots
  <1>4. LenCounts
    <2>1. ASSUME NEW c \in Chunks
          PROVE  FilledSlots(c) = {} /\ Counting(c) = {} /\ len[c] = 0
      BY DEF Init, FilledSlots, Counting
    <2> QED
      BY <2>1, <1>2 DEF LenCounts
  <1>5. SizeCounts
    <2>1. Announcing = {} /\ filled = {} /\ entriesSize = 0
      BY DEF Init, Announcing
    <2> QED
      BY <2>1, <1>2 DEF SizeCounts, Announcing
  <1> QED
    BY <1>1, <1>3, <1>4, <1>5 DEF ItemInv

\* A step that neither claims, writes nor counts keeps the counts.
LEMMA QuietItems ==
  ASSUME ItemInv, NEW t \in Threads, TypeOK',
         UNCHANGED <<rawLen, len, filled, entriesSize>>, linked <= linked',
         \A u \in Threads \ {t} :
           /\ pc'[u] = pc[u] /\ ci'[u] = ci[u]
           /\ slot'[u] = slot[u] /\ target'[u] = target[u],
         pc[t] \notin {"write", "len", "size"},
         pc'[t] \notin {"write", "len", "size"},
         pc'[t] \in GetPC => target'[t] < entriesSize
  PROVE  (ClaimsWritten /\ LenCounts /\ ClaimsLinked /\ SizeCounts /\ AsksBelow)'
  <1>1. ClaimsWritten'
    BY DEF ItemInv, ClaimsWritten
  <1>2. LenCounts'
    <2>1. \A c : FilledSlots(c)' = FilledSlots(c) /\ Counting(c)' = Counting(c)
      BY DEF FilledSlots, Counting
    <2> QED
      BY <2>1 DEF ItemInv, LenCounts
  <1>3. ClaimsLinked'
    <2>1. linked \in Int /\ linked' \in Int
      BY Consts DEF ItemInv, SlotInv, TypeOK
    <2>2. \A c \in Chunks : c \in Int
      BY DEF Chunks
    <2> QED
      BY <2>1, <2>2 DEF ItemInv, ClaimsLinked
  <1>4. SizeCounts'
    <2>1. Announcing' = Announcing
      BY DEF Announcing
    <2> QED
      BY <2>1 DEF ItemInv, SizeCounts, Announcing
  <1>5. AsksBelow'
    BY DEF ItemInv, AsksBelow
  <1> QED
    BY <1>1, <1>2, <1>3, <1>4, <1>5

\* The counts without the slot invariant.
ItemRest == ClaimsWritten /\ LenCounts /\ ClaimsLinked /\ SizeCounts /\ AsksBelow

\* A claim below N is about to be written; the others are of no cell.
LEMMA ClaimItems ==
  ASSUME ItemInv, TypeOK', SlotInv', NEW t \in Threads, Claim(t)
  PROVE  ItemRest'
  <1>c. PICK c \in Chunks : c = ci[t]
    BY DEF ItemInv, SlotInv, TypeOK
  <1>1. /\ pc[t] = "walk" /\ c \in Chunks /\ rawLen[c] \in Nat
        /\ UNCHANGED <<ci, len, linked, entriesSize, filled, target>>
        /\ \A u \in Threads \ {t} : pc'[u] = pc[u] /\ slot'[u] = slot[u]
        /\ \A d \in Chunks \ {c} : rawLen'[d] = rawLen[d]
        /\ pc'[t] \in {"undo", "write"}
    BY <1>c DEF Claim, Goto, ItemInv, SlotInv, TypeOK
  <1>2. \/ rawLen[c] >= N /\ slot' = slot
        \/ rawLen[c] < N /\ pc'[t] = "write" /\ slot'[t] = rawLen[c]
    <2>1. CASE rawLen[c] + 1 > N
      BY <2>1, <1>1, <1>c, Consts DEF Claim
    <2>2. CASE rawLen[c] + 1 <= N
      <3>1. Goto(t, "walk", "write") /\ slot' = [slot EXCEPT ![t] = rawLen[c]]
        BY <2>2, <1>1, <1>c, Consts DEF Claim
      <3> QED
        BY <2>2, <3>1, <1>1, Consts DEF Goto, ItemInv, SlotInv, TypeOK
    <2> QED
      BY <2>1, <2>2, <1>1, Consts
  <1>3. rawLen'[c] = rawLen[c] + 1
    BY <1>c, ClaimAdds DEF ItemInv, SlotInv, TypeOK
  <1>4. ClaimsWritten'
    <2> SUFFICES ASSUME NEW d \in Chunks, NEW s \in Slots, s < rawLen'[d]
                 PROVE  \/ <<d, s>> \in filled'
                        \/ \E u \in Threads : pc'[u] = "write" /\ ci'[u] = d /\ slot'[u] = s
      BY DEF ClaimsWritten
    <2>1. s \in Nat /\ s < N
      BY Consts DEF Slots
    <2>2. CASE d = c /\ rawLen[c] < N /\ s = rawLen[c]
      BY <2>2, <1>1, <1>2, <1>c, Consts
    <2>3. CASE ~(d = c /\ rawLen[c] < N /\ s = rawLen[c])
      <3>1. s < rawLen[d]
        BY <2>1, <2>3, <1>1, <1>3, Consts
      <3>2. CASE <<d, s>> \in filled
        BY <3>2, <1>1
      <3>3. CASE <<d, s>> \notin filled
        <4>1. PICK u \in Threads : pc[u] = "write" /\ ci[u] = d /\ slot[u] = s
          BY <3>1, <3>3 DEF ItemInv, ClaimsWritten
        <4>2. u # t
          BY <4>1, <1>1
        <4> QED
          BY <4>1, <4>2, <1>1
      <3> QED
        BY <3>2, <3>3
    <2> QED
      BY <2>2, <2>3
  <1>5. LenCounts'
    <2>1. \A d : FilledSlots(d)' = FilledSlots(d) /\ Counting(d)' = Counting(d)
      BY <1>1 DEF FilledSlots, Counting
    <2> QED
      BY <2>1, <1>1 DEF ItemInv, LenCounts
  <1>6. ClaimsLinked'
    <2>1. c < linked
      BY <1>c DEF ItemInv, SlotInv, Reachable
    <2> QED
      BY <2>1, <1>1 DEF ItemInv, ClaimsLinked
  <1>7. SizeCounts'
    <2>1. Announcing' = Announcing
      BY <1>1 DEF Announcing
    <2> QED
      BY <2>1, <1>1 DEF ItemInv, SizeCounts, Announcing
  <1>8. AsksBelow'
    BY <1>1 DEF ItemInv, AsksBelow, GetPC
  <1> QED
    BY <1>4, <1>5, <1>6, <1>7, <1>8 DEF ItemRest

\* The fetch_sub takes back a claim of no cell.
LEMMA UndoItems ==
  ASSUME ItemInv, TypeOK', NEW t \in Threads, Undo(t)
  PROVE  ItemRest'
  <1>c. PICK c \in Chunks : c = ci[t]
    BY DEF ItemInv, SlotInv, TypeOK
  <1>1. /\ pc[t] = "undo" /\ pc'[t] = "load"
        /\ UNCHANGED <<ci, slot, len, linked, entriesSize, filled, target>>
        /\ \A u \in Threads \ {t} : pc'[u] = pc[u]
        /\ \A d \in Chunks \ {c} : rawLen'[d] = rawLen[d]
    BY <1>c DEF Undo, Goto, ItemInv, SlotInv, TypeOK, locals
  <1>2. rawLen[c] \in Nat /\ rawLen[c] > N /\ rawLen'[c] = rawLen[c] - 1
    BY <1>c, UndoTakes DEF ItemInv, SlotInv, TypeOK
  <1>4. ClaimsWritten'
    <2> SUFFICES ASSUME NEW d \in Chunks, NEW s \in Slots, s < rawLen'[d]
                 PROVE  \/ <<d, s>> \in filled
                        \/ \E u \in Threads : pc'[u] = "write" /\ ci[u] = d /\ slot[u] = s
      BY <1>1 DEF ClaimsWritten
    <2>1. s < rawLen[d]
      <3>1. s \in Nat /\ s < N
        BY Consts DEF Slots
      <3> QED
        BY <3>1, <1>1, <1>2, Consts
    <2>2. \/ <<d, s>> \in filled
          \/ \E u \in Threads : pc[u] = "write" /\ ci[u] = d /\ slot[u] = s
      BY <2>1 DEF ItemInv, ClaimsWritten
    <2> QED
      BY <2>2, <1>1
  <1>5. LenCounts'
    <2>1. \A d : FilledSlots(d)' = FilledSlots(d) /\ Counting(d)' = Counting(d)
      BY <1>1 DEF FilledSlots, Counting
    <2> QED
      BY <2>1, <1>1 DEF ItemInv, LenCounts
  <1>6. ClaimsLinked'
    <2>1. \A d \in Chunks : rawLen'[d] > 0 => rawLen[d] > 0
      BY <1>1, <1>2, Consts
    <2> QED
      BY <2>1, <1>1 DEF ItemInv, ClaimsLinked
  <1>7. SizeCounts'
    <2>1. Announcing' = Announcing
      BY <1>1 DEF Announcing
    <2> QED
      BY <2>1, <1>1 DEF ItemInv, SizeCounts, Announcing
  <1>8. AsksBelow'
    BY <1>1 DEF ItemInv, AsksBelow, GetPC
  <1> QED
    BY <1>4, <1>5, <1>6, <1>7, <1>8 DEF ItemRest

\* An item more, and a thread more that counts it.
LEMMA WriteItems ==
  ASSUME ItemInv, TypeOK', NEW t \in Threads, Write(t)
  PROVE  ItemRest'
  <1>c. PICK c \in Chunks, s \in Slots : c = ci[t] /\ s = slot[t]
    BY DEF ItemInv, SlotInv, TypeOK
  <1>1. /\ pc[t] = "write" /\ pc'[t] = "len"
        /\ UNCHANGED <<rawLen, ci, slot, len, linked, entriesSize, target>>
        /\ \A u \in Threads \ {t} : pc'[u] = pc[u]
        /\ filled' = filled \cup {<<c, s>>}
    BY <1>c DEF Write, Goto, ItemInv, SlotInv, TypeOK, locals
  <1>2. <<c, s>> \notin filled /\ filled \subseteq Cells
    BY <1>1, <1>c DEF ItemInv, SlotInv, SlotExclusive, TypeOK, Cells
  <1>3. ClaimsWritten'
    <2> SUFFICES ASSUME NEW d \in Chunks, NEW r \in Slots, r < rawLen[d]
                 PROVE  \/ <<d, r>> \in filled'
                        \/ \E u \in Threads : pc'[u] = "write" /\ ci[u] = d /\ slot[u] = r
      BY <1>1 DEF ClaimsWritten
    <2>1. \/ <<d, r>> \in filled
          \/ \E u \in Threads : pc[u] = "write" /\ ci[u] = d /\ slot[u] = r
      BY DEF ItemInv, ClaimsWritten
    <2> QED
      BY <2>1, <1>1, <1>c
  <1>4. LenCounts'
    <2>1. ASSUME NEW d \in Chunks \ {c}
          PROVE  FilledSlots(d)' = FilledSlots(d) /\ Counting(d)' = Counting(d)
      BY <1>1, <1>c DEF FilledSlots, Counting
    <2>2. /\ FilledSlots(c)' = FilledSlots(c) \cup {s} /\ s \notin FilledSlots(c)
          /\ Counting(c)' = Counting(c) \cup {t} /\ t \notin Counting(c)
      BY <1>1, <1>2, <1>c DEF FilledSlots, Counting
    <2>3. /\ Cardinality(FilledSlots(c)') = Cardinality(FilledSlots(c)) + 1
          /\ Cardinality(Counting(c)') = Cardinality(Counting(c)) + 1
      BY <2>2, <1>2, CountedFinite, FS_AddElement
    <2>4. ASSUME NEW d \in Chunks
          PROVE  Cardinality(FilledSlots(d)') = len[d] + Cardinality(Counting(d)')
      <3>1. /\ Cardinality(FilledSlots(d)) = len[d] + Cardinality(Counting(d))
            /\ len[d] \in Nat
        BY DEF ItemInv, SlotInv, TypeOK, LenCounts
      <3>2. CASE d = c
        BY <3>1, <3>2, <2>3, <1>2, CountedFinite
      <3>3. CASE d # c
        BY <3>1, <3>3, <2>1
      <3> QED
        BY <3>2, <3>3
    <2> QED
      BY <2>4, <1>1 DEF LenCounts
  <1>5. ClaimsLinked'
    BY <1>1 DEF ItemInv, ClaimsLinked
  <1>6. SizeCounts'
    <2>1. Announcing' = Announcing \cup {t} /\ t \notin Announcing
      BY <1>1 DEF Announcing
    <2>2. Cardinality(Announcing') = Cardinality(Announcing) + 1
      BY <2>1, <1>2, CountedFinite, FS_AddElement
    <2>3. Cardinality(filled') = Cardinality(filled) + 1
      BY <1>1, <1>2, CountedFinite, FS_AddElement
    <2>4. Cardinality(filled) = entriesSize + Cardinality(Announcing)
      BY DEF ItemInv, SizeCounts, Announcing
    <2>5. Cardinality(filled') = entriesSize' + Cardinality(Announcing')
      BY <2>2, <2>3, <2>4, <1>1, <1>2, CountedFinite DEF ItemInv, SlotInv, TypeOK
    <2> QED
      BY <2>5 DEF SizeCounts, Announcing
  <1>7. AsksBelow'
    BY <1>1 DEF ItemInv, AsksBelow, GetPC
  <1> QED
    BY <1>3, <1>4, <1>5, <1>6, <1>7 DEF ItemRest

\* The thread counts the item in the chunk it wrote it to.
LEMMA PublishLenItems ==
  ASSUME ItemInv, TypeOK', NEW t \in Threads, PublishLen(t)
  PROVE  ItemRest'
  <1>c. PICK c \in Chunks : c = ci[t]
    BY DEF ItemInv, SlotInv, TypeOK
  <1>1. /\ pc[t] = "len" /\ pc'[t] = "size"
        /\ UNCHANGED <<rawLen, ci, slot, linked, entriesSize, filled, target>>
        /\ \A u \in Threads \ {t} : pc'[u] = pc[u]
        /\ len'[c] = len[c] + 1
        /\ \A d \in Chunks \ {c} : len'[d] = len[d]
    BY <1>c DEF PublishLen, Goto, ItemInv, SlotInv, TypeOK, locals
  <1>2. filled \subseteq Cells /\ \A d \in Chunks : len[d] \in Nat
    BY DEF ItemInv, SlotInv, TypeOK, Cells
  <1>3. ClaimsWritten'
    BY <1>1 DEF ItemInv, ClaimsWritten
  <1>4. LenCounts'
    <2>1. \A d : FilledSlots(d)' = FilledSlots(d)
      BY <1>1 DEF FilledSlots
    <2>2. \A d \in Chunks \ {c} : Counting(d)' = Counting(d)
      BY <1>1, <1>c DEF Counting
    <2>3. Counting(c)' = Counting(c) \ {t} /\ t \in Counting(c)
      BY <1>1, <1>c DEF Counting
    <2>4. Cardinality(Counting(c)') = Cardinality(Counting(c)) - 1
      BY <2>3, <1>2, CountedFinite, FS_RemoveElement
    <2>5. ASSUME NEW d \in Chunks
          PROVE  Cardinality(FilledSlots(d)) = len'[d] + Cardinality(Counting(d)')
      <3>1. Cardinality(FilledSlots(d)) = len[d] + Cardinality(Counting(d))
        BY DEF ItemInv, LenCounts
      <3>2. CASE d = c
        BY <3>1, <3>2, <2>4, <1>1, <1>2, CountedFinite
      <3>3. CASE d # c
        BY <3>1, <3>3, <2>2, <1>1
      <3> QED
        BY <3>2, <3>3
    <2> QED
      BY <2>1, <2>5 DEF LenCounts
  <1>5. ClaimsLinked'
    BY <1>1 DEF ItemInv, ClaimsLinked
  <1>6. SizeCounts'
    <2>1. Announcing' = Announcing
      BY <1>1 DEF Announcing
    <2> QED
      BY <2>1, <1>1 DEF ItemInv, SizeCounts, Announcing
  <1>7. AsksBelow'
    BY <1>1 DEF ItemInv, AsksBelow, GetPC
  <1> QED
    BY <1>3, <1>4, <1>5, <1>6, <1>7 DEF ItemRest

\* One item more in the size, and one thread less that is about to count it there.
LEMMA PublishSizeItems ==
  ASSUME ItemInv, TypeOK', NEW t \in Threads, PublishSize(t)
  PROVE  ItemRest'
  <1>1. /\ pc[t] = "size" /\ pc'[t] = "idle"
        /\ UNCHANGED <<rawLen, len, linked, filled>>
        /\ \A u \in Threads \ {t} :
             /\ pc'[u] = pc[u] /\ ci'[u] = ci[u]
             /\ slot'[u] = slot[u] /\ target'[u] = target[u]
        /\ entriesSize' = entriesSize + 1 /\ entriesSize \in Nat
    BY DEF PublishSize, Return, Goto, ItemInv, SlotInv, TypeOK
  <1>2. ClaimsWritten'
    BY <1>1 DEF ItemInv, ClaimsWritten
  <1>3. LenCounts'
    <2>1. \A d : FilledSlots(d)' = FilledSlots(d) /\ Counting(d)' = Counting(d)
      BY <1>1 DEF FilledSlots, Counting
    <2> QED
      BY <2>1, <1>1 DEF ItemInv, LenCounts
  <1>4. ClaimsLinked'
    BY <1>1 DEF ItemInv, ClaimsLinked
  <1>5. SizeCounts'
    <2>1. Announcing' = Announcing \ {t} /\ t \in Announcing
      BY <1>1 DEF Announcing
    <2>2. filled \subseteq Cells
      BY DEF ItemInv, SlotInv, TypeOK, Cells
    <2>3. /\ Cardinality(Announcing') = Cardinality(Announcing) - 1
          /\ Cardinality(Announcing) \in Nat
      BY <2>1, <2>2, CountedFinite, FS_RemoveElement
    <2>4. Cardinality(filled) = entriesSize + Cardinality(Announcing)
      BY DEF ItemInv, SizeCounts, Announcing
    <2>5. Cardinality(filled') = entriesSize' + Cardinality(Announcing')
      BY <2>3, <2>4, <1>1
    <2> QED
      BY <2>5 DEF SizeCounts, Announcing
  <1>6. AsksBelow'
    <2>1. ASSUME NEW u \in Threads, pc'[u] \in GetPC PROVE target'[u] < entriesSize'
      <3>1. u # t
        BY <2>1, <1>1 DEF GetPC
      <3>2. target[u] < entriesSize /\ target[u] \in Nat
        BY <2>1, <3>1, <1>1 DEF ItemInv, AsksBelow, SlotInv, TypeOK
      <3> QED
        BY <3>1, <3>2, <1>1
    <2> QED
      BY <2>1 DEF AsksBelow
  <1> QED
    BY <1>2, <1>3, <1>4, <1>5, <1>6 DEF ItemRest

\* The reset vector has nothing to count.
LEMMA ResetItems == ASSUME ItemInv, Reset PROVE ItemRest'
  <1>1. /\ \A t \in Threads : pc'[t] = "idle"
        /\ \A c \in Chunks : rawLen'[c] = 0 /\ len'[c] = 0
        /\ filled' = {} /\ entriesSize' = 0
    BY DEF Reset
  <1>2. Cardinality({}) = 0
    BY FS_EmptySet
  <1>3. ClaimsWritten' /\ ClaimsLinked' /\ AsksBelow'
    BY <1>1 DEF ClaimsWritten, ClaimsLinked, AsksBelow, GetPC, Slots
  <1>4. LenCounts'
    <2>1. ASSUME NEW c \in Chunks
          PROVE  FilledSlots(c)' = {} /\ Counting(c)' = {} /\ len'[c] = 0
      BY <1>1 DEF FilledSlots, Counting
    <2> QED
      BY <2>1, <1>2 DEF LenCounts
  <1>5. SizeCounts'
    <2>1. Announcing' = {} /\ filled' = {} /\ entriesSize' = 0
      BY <1>1 DEF Announcing
    <2> QED
      BY <2>1, <1>2 DEF SizeCounts, Announcing
  <1> QED
    BY <1>3, <1>4, <1>5 DEF ItemRest

\* Every step keeps the counts.
LEMMA ItemStep == ItemInv /\ [Next]_vars => ItemInv'
  <1> SUFFICES ASSUME ItemInv, [Next]_vars PROVE ItemInv'
    OBVIOUS
  <1>1. SlotInv' /\ TypeOK' /\ TypeOK
    BY SlotStep DEF ItemInv, SlotInv
  <1>2. linked \in Nat /\ linked' \in Nat
    BY <1>1, Consts DEF TypeOK
  <1>3. ASSUME NEW t \in Threads, PushStart(t) \/ GetStart(t) \/ Push(t) \/ Get(t)
        PROVE  ItemRest'
    <2>b. pc[t] \in GetPC => target[t] < entriesSize
      BY DEF ItemInv, AsksBelow
    <2>1. CASE PushStart(t)
      BY <2>1, <1>1, <1>2, QuietItems
         DEF PushStart, Goto, shared, locals, TypeOK, ItemRest, GetPC
    <2>2. CASE GetStart(t)
      <3>1. PICK i \in 0 .. entriesSize - 1 :
              /\ Goto(t, "idle", IF i < N THEN "read" ELSE "rootlen")
              /\ target' = [target EXCEPT ![t] = i]
              /\ UNCHANGED <<shared, ci, raw, slot, settled>>
        BY <2>2 DEF GetStart
      <3>2. target'[t] < entriesSize
        BY <3>1, <1>1 DEF TypeOK
      <3> QED
        BY <3>1, <3>2, <1>1, <1>2, QuietItems DEF Goto, shared, TypeOK, ItemRest
    <2>3. CASE LoadRaw(t)
      BY <2>3, <1>1, <1>2, QuietItems DEF LoadRaw, Goto, shared, TypeOK, ItemRest, GetPC
    <2>4. CASE NextChunk(t)
      BY <2>4, <1>1, <1>2, QuietItems
         DEF NextChunk, Goto, shared, TypeOK, ItemRest, GetPC
    <2>5. CASE MissChunk(t)
      BY <2>5, <1>1, <1>2, QuietItems
         DEF MissChunk, Goto, shared, locals, TypeOK, ItemRest, GetPC
    <2>6. CASE LinkChunk(t)
      <3>1. linked <= linked'
        BY <2>6, <1>2 DEF LinkChunk
      <3> QED
        BY <2>6, <3>1, <1>1, <1>2, QuietItems DEF LinkChunk, Goto, TypeOK, ItemRest, GetPC
    <2>7. CASE Claim(t)
      BY <2>7, <1>1, ClaimItems
    <2>8. CASE Undo(t)
      BY <2>8, <1>1, UndoItems
    <2>9. CASE Write(t)
      BY <2>9, <1>1, WriteItems
    <2>10. CASE PublishLen(t)
      BY <2>10, <1>1, PublishLenItems
    <2>11. CASE PublishSize(t)
      BY <2>11, <1>1, PublishSizeItems
    <2>12. CASE RootLen(t)
      BY <2>12, <2>b, <1>1, <1>2, QuietItems
         DEF RootLen, Goto, shared, TypeOK, ItemRest, GetPC
    <2>13. CASE GetNext(t)
      BY <2>13, <2>b, <1>1, <1>2, QuietItems
         DEF GetNext, Goto, shared, TypeOK, ItemRest, GetPC
    <2>14. CASE GetFound(t)
      BY <2>14, <2>b, <1>1, <1>2, QuietItems
         DEF GetFound, Goto, shared, locals, TypeOK, ItemRest, GetPC
    <2>15. CASE Read(t)
      BY <2>15, <1>1, <1>2, QuietItems
         DEF Read, Return, Goto, shared, TypeOK, ItemRest, GetPC
    <2>16. QED
      BY <1>3, <2>1, <2>2, <2>3, <2>4, <2>5, <2>6, <2>7, <2>8, <2>9, <2>10,
         <2>11, <2>12, <2>13, <2>14, <2>15 DEF Push, Get
  <1>4. CASE Reset
    BY <1>4, <1>1, ResetItems DEF ItemInv, ItemRest
  <1>5. CASE UNCHANGED vars
    <2>1. UNCHANGED <<rawLen, len, linked, entriesSize, filled, pc, ci, slot, target>>
      BY <1>5 DEF vars, shared, locals
    <2>2. \A d : FilledSlots(d)' = FilledSlots(d) /\ Counting(d)' = Counting(d)
      BY <2>1 DEF FilledSlots, Counting
    <2>3. ClaimsWritten' /\ ClaimsLinked' /\ AsksBelow'
      BY <2>1 DEF ItemInv, ClaimsWritten, ClaimsLinked, AsksBelow
    <2>4. LenCounts'
      BY <2>1, <2>2 DEF ItemInv, LenCounts
    <2>5. SizeCounts'
      BY <2>1 DEF ItemInv, SizeCounts
    <2> QED
      BY <1>1, <2>3, <2>4, <2>5 DEF ItemInv
  <1> QED
    BY <1>1, <1>3, <1>4, <1>5 DEF Next, ItemInv, ItemRest

\* The counts hold in every reachable state.
THEOREM ItemInvariance == Spec => []ItemInv
  BY InitItems, ItemStep, PTL DEF Spec

-----------------------------------------------------------------------------
(* Positions *)

\* The index of a cell.
Pos(e) == e[1] * N + e[2]

\* Chunks are in the order of their indices.
LEMMA Monotone == \A a, b \in Int : a <= b => N * a <= N * b
  BY Consts

\* Where the chunks behind a chunk start.
LEMMA Starts ==
  ASSUME NEW c \in Int
  PROVE  /\ N * c \in Int /\ c * N = N * c
         /\ N * (c + 1) = N * c + N /\ N * (c + 2) = N * c + N + N
         /\ N * (c + 1 + 1) = N * (c + 2)
  BY Consts

\* A cell lies in its chunk.
LEMMA PosRange ==
  ASSUME NEW e \in Cells
  PROVE  /\ e[1] \in Chunks /\ e[2] \in Slots /\ e = <<e[1], e[2]>>
         /\ e[1] \in Nat /\ e[2] \in Nat /\ e[2] < N
         /\ Pos(e) \in Nat /\ Pos(e) = N * e[1] + e[2]
         /\ N * e[1] <= Pos(e) /\ Pos(e) < N * (e[1] + 1)
  <1>1. e[1] \in Chunks /\ e[2] \in Slots /\ e = <<e[1], e[2]>>
    BY DEF Cells
  <1>2. e[1] \in Nat /\ e[2] \in Nat /\ e[2] < N
    BY <1>1, Consts DEF Chunks, Slots
  <1>3. N * e[1] \in Nat
    BY <1>2, Consts, MulNat
  <1>4. e[1] * N = N * e[1] /\ N * (e[1] + 1) = N * e[1] + N
    BY <1>2, Starts
  <1>5. Pos(e) = N * e[1] + e[2]
    BY <1>4 DEF Pos
  <1> DEFINE m == N * e[1]
             m1 == N * (e[1] + 1)
  <1> HIDE DEF m, m1
  <1>6. m \in Nat /\ m1 = m + N /\ Pos(e) = m + e[2]
    BY <1>3, <1>4, <1>5 DEF m, m1
  <1>7. Pos(e) \in Nat /\ m <= Pos(e) /\ Pos(e) < m1
    BY <1>6, <1>2, Consts
  <1> QED
    BY <1>1, <1>2, <1>5, <1>7 DEF m, m1

\* The cells of a chunk are before those of the next one.
LEMMA PosOrder ==
  ASSUME NEW e \in Cells, NEW f \in Cells
  PROVE  /\ e[1] < f[1] => Pos(e) < Pos(f)
         /\ e[1] = f[1] => (Pos(e) < Pos(f) <=> e[2] < f[2])
  <1>1. ASSUME e[1] < f[1] PROVE Pos(e) < Pos(f)
    <2> DEFINE m == N * (e[1] + 1)
               n == N * f[1]
    <2>1. e[1] + 1 <= f[1] /\ e[1] + 1 \in Int /\ f[1] \in Int
      BY <1>1, PosRange
    <2>2. m <= n /\ m \in Int /\ n \in Int
      BY <2>1, Monotone, Starts
    <2>3. Pos(e) < m /\ n <= Pos(f) /\ Pos(e) \in Nat /\ Pos(f) \in Nat
      BY PosRange
    <2> HIDE DEF m, n
    <2> QED
      BY <2>2, <2>3
  <1>2. ASSUME e[1] = f[1] PROVE Pos(e) < Pos(f) <=> e[2] < f[2]
    <2> DEFINE m == N * e[1]
    <2>1. Pos(e) = m + e[2] /\ Pos(f) = m + f[2]
      BY <1>2, PosRange
    <2>2. m \in Int /\ e[2] \in Int /\ f[2] \in Int
      BY PosRange, Starts
    <2> HIDE DEF m
    <2> QED
      BY <2>1, <2>2
  <1> QED
    BY <1>1, <1>2

\* Every cell has an index of its own.
LEMMA PosInjective ==
  ASSUME NEW e \in Cells, NEW f \in Cells, Pos(e) = Pos(f)
  PROVE  e = f
  <1>1. /\ e[1] \in Nat /\ f[1] \in Nat /\ e[2] \in Nat /\ f[2] \in Nat
        /\ Pos(e) \in Nat /\ e = <<e[1], e[2]>> /\ f = <<f[1], f[2]>>
    BY PosRange
  <1>2. e[1] = f[1]
    BY <1>1, PosOrder
  <1>3. e[2] = f[2]
    BY <1>1, <1>2, PosOrder
  <1> QED
    BY <1>1, <1>2, <1>3

\* There are at most m cells below the index m.
LEMMA CellsBelow ==
  ASSUME NEW S, S \subseteq Cells, NEW m \in Nat, \A e \in S : Pos(e) < m
  PROVE  Cardinality(S) <= m
  <1> DEFINE f == [e \in S |-> Pos(e)]
  <1>1. f \in [S -> 0 .. m - 1]
    BY PosRange
  <1>2. \A e, g \in S : f[e] = f[g] => e = g
    BY PosInjective
  <1>3. f \in Injection(S, 0 .. m - 1)
    BY <1>1, <1>2 DEF Injection, IsInjective
  <1> HIDE DEF f
  <1>4. IsFiniteSet(0 .. m - 1) /\ Cardinality(0 .. m - 1) = m
    BY FS_Interval
  <1>5. Cardinality(S) <= Cardinality(0 .. m - 1)
    BY <1>3, <1>4, FS_Injection
  <1> QED
    BY <1>4, <1>5

-----------------------------------------------------------------------------
(* What the counts say of Drop and of the walk of get *)

\* With no push in flight the first len cells of a chunk hold its items.
LEMMA CountedPrefix ==
  ASSUME ItemInv, Quiescent, NEW c \in Chunks, NEW s \in Slots
  PROVE  <<c, s>> \in filled <=> s < len[c]
  <1>1. rawLen[c] \in Nat /\ len[c] \in Nat /\ filled \subseteq Cells
    BY DEF ItemInv, SlotInv, TypeOK, Cells
  <1>2. \A t \in Threads : pc[t] \notin {"write", "len"}
    BY DEF Quiescent, Pushing, PushPC
  <1>3. \A r \in Slots : <<c, r>> \in filled <=> r < rawLen[c]
    BY <1>2 DEF ItemInv, SlotInv, FilledClaimed, ClaimsWritten
  <1> DEFINE m == IF rawLen[c] < N THEN rawLen[c] ELSE N
  <1>4. m \in Nat
    BY <1>1, Consts
  <1>5. FilledSlots(c) = 0 .. m - 1
    BY <1>1, <1>3, Consts DEF FilledSlots, Slots
  <1> HIDE DEF m
  <1>6. Cardinality(0 .. m - 1) = m
    BY <1>4, FS_Interval
  <1>7. Counting(c) = {}
    BY <1>2 DEF Counting
  <1>8. Cardinality(FilledSlots(c)) = len[c]
    BY <1>1, <1>7, FS_EmptySet DEF ItemInv, LenCounts
  <1>9. len[c] = m
    BY <1>5, <1>6, <1>8
  <1>10. s \in Nat /\ s < N
    BY Consts DEF Slots
  <1> QED
    BY <1>1, <1>3, <1>9, <1>10, Consts DEF m

\* Drop runs the destructors due.
LEMMA ItemsDrop == ItemInv => DropExact
  <1> SUFFICES ASSUME ItemInv, Quiescent PROVE DropSet = filled
    BY DEF DropExact
  <1>1. filled \subseteq Chunks \X Slots
    BY DEF ItemInv, SlotInv, TypeOK
  <1>2. ASSUME NEW c \in Chunks, NEW s \in Slots, s < len[c] PROVE c < linked
    <2>1. <<c, s>> \in filled
      BY <1>2, CountedPrefix
    <2>2. s < rawLen[c] /\ s \in Nat /\ rawLen[c] \in Nat
      BY <2>1, Consts DEF ItemInv, SlotInv, FilledClaimed, TypeOK, Slots
    <2> QED
      BY <2>2 DEF ItemInv, ClaimsLinked
  <1>3. ASSUME NEW c \in Chunks, NEW s \in Slots
        PROVE  <<c, s>> \in DropSet <=> <<c, s>> \in filled
    BY <1>2, CountedPrefix DEF DropSet
  <1> QED
    BY <1>1, <1>3 DEF DropSet

\* The number of items is not below the size.
LEMMA SizeBound ==
  ASSUME ItemInv
  PROVE  /\ filled \subseteq Cells /\ IsFiniteSet(filled)
         /\ entriesSize \in Nat /\ Cardinality(filled) \in Nat
         /\ entriesSize <= Cardinality(filled)
  <1>1. filled \subseteq Cells /\ entriesSize \in Nat
    BY DEF ItemInv, SlotInv, TypeOK, Cells
  <1>2. IsFiniteSet(filled) /\ Cardinality(Announcing) \in Nat
    BY <1>1, CountedFinite
  <1>3. Cardinality(filled) = entriesSize + Cardinality(Announcing)
    BY DEF ItemInv, SizeCounts, Announcing
  <1> QED
    BY <1>1, <1>2, <1>3

\* An index behind the chunk is below the size, so there is an item behind the chunk.
LEMMA ItemsNext == ItemInv => NextThere
  <1> SUFFICES ASSUME ItemInv, NEW t \in Threads, pc[t] = "getwalk", Beyond(t)
               PROVE  ci[t] + 1 < linked
    BY DEF NextThere
  <1>1. /\ ci[t] \in Nat /\ raw[t] \in Nat /\ target[t] \in Nat /\ linked \in Int
        /\ target[t] < entriesSize /\ entriesSize \in Nat
    BY Consts DEF ItemInv, SlotInv, TypeOK, Chunks, AsksBelow, GetPC
  <1> DEFINE m == N * (ci[t] + 1)
             n == N * ci[t]
  <1>2. m = n + N /\ n \in Nat
    BY <1>1, Starts, Consts, MulNat
  <1>3. raw[t] >= N /\ target[t] >= raw[t] + n
    BY DEF Beyond
  <1> HIDE DEF m, n
  <1>4. m \in Nat /\ m < entriesSize
    BY <1>1, <1>2, <1>3, Consts
  <1>5. Cardinality(filled) > m
    BY <1>4, SizeBound
  <1>6. PICK e \in filled : ~(Pos(e) < m)
    BY <1>4, <1>5, SizeBound, CellsBelow
  <1>7. e \in Cells /\ e = <<e[1], e[2]>> /\ e[1] \in Nat /\ e[1] \in Chunks /\ e[2] \in Slots
    BY <1>6, SizeBound, PosRange
  <1>8. ci[t] + 1 <= e[1]
    <2> SUFFICES ASSUME e[1] + 1 <= ci[t] + 1 PROVE FALSE
      BY <1>1, <1>7
    <2>1. N * (e[1] + 1) <= m
      BY <1>1, <1>7, Monotone DEF m
    <2>2. Pos(e) < N * (e[1] + 1) /\ Pos(e) \in Nat /\ N * (e[1] + 1) \in Int
      BY <1>7, PosRange, Starts
    <2> QED
      BY <2>1, <2>2, <1>4, <1>6
  <1>9. e[2] < rawLen[e[1]] /\ e[2] \in Nat /\ rawLen[e[1]] \in Nat
    BY <1>6, <1>7, Consts DEF ItemInv, SlotInv, FilledClaimed, TypeOK, Slots
  <1>10. e[1] < linked
    BY <1>7, <1>9 DEF ItemInv, ClaimsLinked
  <1> QED
    BY <1>1, <1>7, <1>8, <1>10

\* Dropping a vector nobody pushes to runs the destructor of each of its items and of
\* nothing else.
THEOREM DropsExactly == Spec => []DropExact
  BY ItemInvariance, ItemsDrop, PTL

\* The while loop of get_unchecked_ptr never follows a null pointer.
THEOREM NextNotNull == Spec => []NextThere
  BY ItemInvariance, ItemsNext, PTL

-----------------------------------------------------------------------------
(* The order of the claims *)

\* No chunk has fewer cells than there are threads.
FewThreads == Cardinality(Threads) <= N

\* Chunks fill up one after the other.
InOrder == \A c, d \in Chunks : c < d /\ rawLen[d] > 0 => rawLen[c] >= N

\* A push passes full chunks only: the raw_len it walks with says that its chunk is full
\* only if it is, and never that the next one is.
WalkOf(t) ==
  /\ pc[t] \in {"idle", "rootlen"} => ci[t] = 0
  /\ pc[t] \in PushPC => \A c \in Chunks : c < ci[t] => rawLen[c] >= N
  /\ pc[t] \in {"walk", "link"} =>
       /\ raw[t] < N * (ci[t] + 2)
       /\ Full(t) => rawLen[ci[t]] >= N
  /\ pc[t] = "link" => Full(t)

\* What was written when no push was in flight stays written and counted.
Settled ==
  /\ settled <= entriesSize
  /\ \A e \in Cells : Pos(e) < settled => e \in filled
  /\ \A t \in Threads :
       pc[t] \in {"write", "len"} => Pos(<<ci[t], slot[t]>>) >= settled

\* A get of a settled index walks full chunks up to one that holds an item for it.
GetOf(t) ==
  /\ sure[t] => pc[t] \in GetPC /\ target[t] < settled
  /\ pc[t] \in {"rootlen", "getwalk"} => target[t] >= N
  /\ pc[t] = "getwalk" /\ sure[t] => N * ci[t] <= target[t] /\ (ci[t] = 0 => raw[t] = N)
  /\ pc[t] = "read" /\ sure[t] =>
       /\ N * ci[t] <= target[t]
       /\ target[t] < 2 * N => ci[t] = target[t] \div N

OrderInv ==
  /\ ItemInv
  /\ InOrder
  /\ Settled
  /\ \A t \in Threads : WalkOf(t) /\ GetOf(t)

\* A step of the thread t.
StepOf(t) == PushStart(t) \/ GetStart(t) \/ Push(t) \/ Get(t)

\* A step of a thread leaves the locals of the others alone.
LEMMA Others ==
  ASSUME TypeOK, NEW t \in Threads, StepOf(t), NEW u \in Threads, u # t
  PROVE  /\ pc'[u] = pc[u] /\ ci'[u] = ci[u] /\ raw'[u] = raw[u]
         /\ slot'[u] = slot[u] /\ target'[u] = target[u] /\ sure'[u] = sure[u]
  <1>1. CASE PushStart(t)
    BY <1>1 DEF PushStart, Goto, locals, history, TypeOK
  <1>2. CASE GetStart(t)
    BY <1>2 DEF GetStart, Goto, locals, history, TypeOK
  <1>3. CASE LoadRaw(t)
    BY <1>3 DEF LoadRaw, Goto, locals, history, TypeOK
  <1>4. CASE NextChunk(t)
    BY <1>4 DEF NextChunk, Goto, locals, history, TypeOK
  <1>5. CASE MissChunk(t)
    BY <1>5 DEF MissChunk, Goto, locals, history, TypeOK
  <1>6. CASE LinkChunk(t)
    BY <1>6 DEF LinkChunk, Goto, locals, history, TypeOK
  <1>7. CASE Claim(t)
    BY <1>7 DEF Claim, Goto, locals, history, TypeOK
  <1>8. CASE Undo(t)
    BY <1>8 DEF Undo, Goto, locals, history, TypeOK
  <1>9. CASE Write(t)
    BY <1>9 DEF Write, Goto, locals, history, TypeOK
  <1>10. CASE PublishLen(t)
    BY <1>10 DEF PublishLen, Goto, locals, history, TypeOK
  <1>11. CASE PublishSize(t)
    BY <1>11 DEF PublishSize, Return, Goto, locals, history, TypeOK
  <1>12. CASE RootLen(t)
    BY <1>12 DEF RootLen, Goto, locals, history, TypeOK
  <1>13. CASE GetNext(t)
    BY <1>13 DEF GetNext, Goto, locals, history, TypeOK
  <1>14. CASE GetFound(t)
    BY <1>14 DEF GetFound, Goto, locals, history, TypeOK
  <1>15. CASE Read(t)
    BY <1>15 DEF Read, Return, Goto, locals, history, TypeOK
  <1> QED
    BY <1>1, <1>2, <1>3, <1>4, <1>5, <1>6, <1>7, <1>8, <1>9, <1>10, <1>11,
       <1>12, <1>13, <1>14, <1>15 DEF StepOf, Push, Get

\* A full chunk stays full, and only a claim makes a chunk claimed.
LEMMA FullStays ==
  ASSUME SlotInv, NEW t \in Threads, StepOf(t), NEW c \in Chunks
  PROVE  /\ rawLen[c] >= N => rawLen'[c] >= N
         /\ rawLen'[c] > 0 => (rawLen[c] > 0 \/ (Claim(t) /\ c = ci[t]))
  <1>0. \A d \in Chunks : rawLen[d] \in Nat
    BY DEF SlotInv, TypeOK
  <1>1. CASE Claim(t)
    BY <1>0, <1>1, ClaimAdds, Consts DEF SlotInv, TypeOK
  <1>2. CASE Undo(t)
    BY <1>0, <1>2, UndoTakes, Consts DEF SlotInv, TypeOK
  <1>3. CASE ~Claim(t) /\ ~Undo(t)
    <2>1. rawLen' = rawLen
      BY <1>3 DEF StepOf, Push, Get, PushStart, GetStart, LoadRaw, NextChunk, MissChunk,
         LinkChunk, Write, PublishLen, PublishSize, RootLen, GetNext, GetFound, Read, shared
    <2> QED
      BY <2>1
  <1> QED
    BY <1>1, <1>2, <1>3

\* What is settled grows, when the last push in flight ends.
LEMMA SettledGrows ==
  ASSUME TypeOK, Settled, NEW t \in Threads, StepOf(t)
  PROVE  /\ filled \subseteq filled'
         /\ settled <= settled' /\ settled' \in Nat
         /\ \/ settled' = settled
            \/ /\ PublishSize(t) /\ Pushing = {t}
               /\ settled' = entriesSize + 1
         /\ entriesSize' = IF PublishSize(t) THEN entriesSize + 1 ELSE entriesSize
  <1>1. settled \in Nat /\ entriesSize \in Nat /\ settled <= entriesSize
    BY DEF TypeOK, Settled
  <1>2. filled \subseteq filled'
    BY DEF StepOf, Push, Get, PushStart, GetStart, LoadRaw, NextChunk, MissChunk, LinkChunk,
       Claim, Undo, Write, PublishLen, PublishSize, RootLen, GetNext, GetFound, Read, shared
  <1>3. CASE PublishSize(t)
    BY <1>1, <1>2, <1>3 DEF PublishSize
  <1>4. CASE ~PublishSize(t)
    <2>1. settled' = settled /\ entriesSize' = entriesSize
      BY <1>4 DEF StepOf, Push, Get, PushStart, GetStart, LoadRaw, NextChunk, MissChunk,
         LinkChunk, Claim, Undo, Write, PublishLen, RootLen, GetNext, GetFound, Read,
         shared, history
    <2> QED
      BY <1>1, <1>2, <1>4, <2>1
  <1> QED
    BY <1>3, <1>4

\* A step of one thread keeps what another one knows.
LEMMA OtherOrder ==
  ASSUME OrderInv, NEW t \in Threads, StepOf(t), NEW u \in Threads, u # t
  PROVE  (WalkOf(u) /\ GetOf(u))'
  <1>1. /\ pc'[u] = pc[u] /\ ci'[u] = ci[u] /\ raw'[u] = raw[u]
        /\ slot'[u] = slot[u] /\ target'[u] = target[u] /\ sure'[u] = sure[u]
    BY Others DEF OrderInv, ItemInv, SlotInv
  <1>2. \A c \in Chunks : rawLen[c] >= N => rawLen'[c] >= N
    BY FullStays DEF OrderInv, ItemInv
  <1>3. settled \in Nat /\ settled' \in Nat /\ settled <= settled' /\ target[u] \in Nat
        /\ ci[u] \in Chunks
    BY SettledGrows DEF OrderInv, ItemInv, SlotInv, TypeOK
  <1>4. Full(u)' <=> Full(u)
    BY <1>1 DEF Full
  <1>5. WalkOf(u) /\ GetOf(u)
    BY DEF OrderInv
  <1>6. WalkOf(u)'
    BY <1>1, <1>2, <1>3, <1>4, <1>5 DEF WalkOf
  <1>7. GetOf(u)'
    BY <1>1, <1>3, <1>5 DEF GetOf
  <1> QED
    BY <1>6, <1>7

\* Chunks fill up one after the other: who claims in a chunk has seen those before it full.
LEMMA OrderStep ==
  ASSUME OrderInv, NEW t \in Threads, StepOf(t)
  PROVE  InOrder'
  <1> SUFFICES ASSUME NEW c \in Chunks, NEW d \in Chunks, c < d, rawLen'[d] > 0
               PROVE  rawLen'[c] >= N
    BY DEF InOrder
  <1>1. rawLen[d] > 0 \/ (Claim(t) /\ d = ci[t])
    BY FullStays DEF OrderInv, ItemInv
  <1>2. CASE rawLen[d] > 0
    BY <1>2, FullStays DEF OrderInv, ItemInv, InOrder
  <1>3. CASE Claim(t) /\ d = ci[t]
    <2>1. rawLen[c] >= N
      BY <1>3 DEF OrderInv, WalkOf, Claim, Goto, PushPC
    <2> QED
      BY <2>1, FullStays DEF OrderInv, ItemInv
  <1> QED
    BY <1>1, <1>2, <1>3

\* A thread walks past full chunks.
LEMMA WalkStep ==
  ASSUME OrderInv, FewThreads, NEW t \in Threads, StepOf(t)
  PROVE  WalkOf(t)'
  <1>1. TypeOK /\ SlotInv /\ WalkOf(t)
    BY DEF OrderInv, ItemInv, SlotInv
  <1>2. \A c \in Chunks : rawLen[c] >= N => rawLen'[c] >= N
    BY FullStays, <1>1
  <1>3. /\ ci[t] \in Chunks /\ ci[t] \in Nat /\ raw[t] \in Nat /\ rawLen[ci[t]] \in Nat
        /\ \A c \in Chunks : c \in Nat /\ rawLen[c] \in Nat
    BY <1>1, Consts DEF TypeOK, Chunks
  \* Where the pc ends outside the walk the chunks passed are all there is to show.
  <1>4. ASSUME pc[t] \in PushPC, pc'[t] \in {"load", "undo", "write", "len", "size"},
               ci'[t] = ci[t]
        PROVE  WalkOf(t)'
    BY <1>1, <1>2, <1>4 DEF WalkOf, PushPC
  <1>5. ASSUME pc'[t] \in {"getwalk", "read"} PROVE WalkOf(t)'
    BY <1>5 DEF WalkOf, PushPC
  <1>6. ASSUME pc'[t] \in {"idle", "rootlen", "load"}, ci'[t] = 0 PROVE WalkOf(t)'
    BY <1>6, <1>3, Consts DEF WalkOf, PushPC, Chunks
  <1>7. CASE PushStart(t)
    BY <1>1, <1>6, <1>7 DEF PushStart, Goto, TypeOK, WalkOf, locals
  <1>8. CASE GetStart(t)
    <2>1. pc[t] = "idle" /\ pc'[t] \in {"read", "rootlen"} /\ ci' = ci
      BY <1>1, <1>8 DEF GetStart, Goto, TypeOK
    <2> QED
      BY <2>1, <1>1, <1>5, <1>6 DEF WalkOf
  <1>9. CASE LoadRaw(t)
    <2>1. /\ pc[t] = "load" /\ pc'[t] = "walk" /\ ci' = ci /\ rawLen' = rawLen
          /\ raw'[t] = N * ci[t] + rawLen[ci[t]]
      BY <1>1, <1>9 DEF LoadRaw, Goto, TypeOK, shared
    <2> DEFINE m == N * ci[t]
    <2>2. m \in Int /\ N * (ci[t] + 1) = m + N /\ N * (ci[t] + 2) = m + N + N
      BY <1>3, Starts
    <2>3. rawLen[ci[t]] < N + N
      <3>1. Undoing(ci[t]) \in SUBSET Threads /\ t \notin Undoing(ci[t])
        BY <2>1 DEF Undoing
      <3>2. Undoing(ci[t]) \cup {t} \in SUBSET Threads
        BY <3>1
      <3>3. /\ Cardinality(Undoing(ci[t]) \cup {t}) = Cardinality(Undoing(ci[t])) + 1
            /\ Cardinality(Undoing(ci[t])) \in Nat
        BY <3>1, UndoingFinite, FS_AddElement
      <3>4. Cardinality(Undoing(ci[t]) \cup {t}) <= Cardinality(Threads)
        BY <3>2, ConstAssumption, FS_Subset DEF ConstAssumption
      <3>5. \/ rawLen[ci[t]] < N
            \/ rawLen[ci[t]] = N + Cardinality(Undoing(ci[t]))
        BY <1>1, <1>3 DEF SlotInv, Overshoot
      <3> QED
        BY <3>3, <3>4, <3>5, <1>3, Consts DEF FewThreads
    <2>4. raw'[t] < N * (ci'[t] + 2)
      <3> HIDE DEF m
      <3>1. m + rawLen[ci[t]] < m + N + N
        BY <2>2, <2>3, <1>3, Consts
      <3> QED
        BY <3>1, <2>1, <2>2 DEF m
    <2>5. Full(t)' => rawLen[ci[t]] >= N
      <3>1. Full(t)' <=> m + rawLen[ci[t]] >= m + N
        BY <2>1, <2>2 DEF Full
      <3> HIDE DEF m
      <3> QED
        BY <3>1, <2>2, <1>3, Consts
    <2> QED
      BY <2>1, <2>4, <2>5, <1>1 DEF WalkOf, PushPC
  <1>10. ASSUME pc[t] \in {"walk", "link"}, Full(t), pc'[t] = "walk",
                ci'[t] = ci[t] + 1, raw' = raw, rawLen' = rawLen
         PROVE  WalkOf(t)'
    <2> DEFINE m == N * (ci[t] + 2)
    <2>1. m \in Int /\ N * (ci'[t] + 1) = m /\ N * (ci'[t] + 2) = m + N
      <3>1. /\ N * (ci[t] + 2) \in Int
            /\ N * (ci[t] + 1 + 1) = N * (ci[t] + 2)
            /\ N * (ci[t] + 1 + 2) = N * (ci[t] + 2) + N
        BY <1>3, Consts
      <3> QED
        BY <3>1, <1>10
    <2>2. raw[t] < m /\ rawLen[ci[t]] >= N
      BY <1>1, <1>10 DEF WalkOf
    <2> HIDE DEF m
    <2>3. ~Full(t)' /\ raw'[t] < N * (ci'[t] + 2)
      BY <2>1, <2>2, <1>3, <1>10, Consts DEF Full
    <2>4. ASSUME NEW c \in Chunks, c < ci'[t] PROVE rawLen'[c] >= N
      <3>1. c < ci[t] \/ c = ci[t]
        BY <2>4, <1>3, <1>10
      <3>2. \A d \in Chunks : d < ci[t] => rawLen[d] >= N
        BY <1>1, <1>10 DEF WalkOf, PushPC
      <3> QED
        BY <3>1, <3>2, <2>2, <1>10
    <2> QED
      BY <2>3, <2>4, <1>10 DEF WalkOf, PushPC
  <1>11. CASE NextChunk(t)
    BY <1>1, <1>10, <1>11 DEF NextChunk, Goto, TypeOK, shared
  <1>12. CASE MissChunk(t)
    <2>1. /\ pc[t] = "walk" /\ pc'[t] = "link" /\ Full(t)
          /\ UNCHANGED <<ci, raw, rawLen>>
      BY <1>1, <1>12 DEF MissChunk, Goto, TypeOK, shared, locals
    <2>2. Full(t)'
      BY <2>1 DEF Full
    <2> QED
      BY <2>1, <2>2, <1>1 DEF WalkOf, PushPC
  <1>13. CASE LinkChunk(t)
    <2>1. /\ pc[t] = "link" /\ pc'[t] = "walk" /\ UNCHANGED <<raw, rawLen>>
          /\ ci'[t] = ci[t] + 1
      BY <1>1, <1>13 DEF LinkChunk, Goto, TypeOK
    <2> QED
      BY <2>1, <1>1, <1>10 DEF WalkOf
  <1>14. CASE Claim(t)
    <2>1. pc[t] = "walk" /\ pc'[t] \in {"undo", "write"} /\ ci' = ci
      BY <1>1, <1>14 DEF Claim, Goto, TypeOK
    <2> QED
      BY <2>1, <1>4 DEF PushPC
  <1>15. CASE Undo(t)
    BY <1>1, <1>4, <1>15 DEF Undo, Goto, TypeOK, locals, PushPC
  <1>16. CASE Write(t)
    BY <1>1, <1>4, <1>16 DEF Write, Goto, TypeOK, locals, PushPC
  <1>17. CASE PublishLen(t)
    BY <1>1, <1>4, <1>17 DEF PublishLen, Goto, TypeOK, locals, PushPC
  <1>18. CASE PublishSize(t)
    BY <1>1, <1>6, <1>18 DEF PublishSize, Return, Goto, TypeOK
  <1>19. CASE RootLen(t)
    BY <1>1, <1>5, <1>19 DEF RootLen, Goto, TypeOK
  <1>20. CASE GetNext(t)
    BY <1>1, <1>5, <1>20 DEF GetNext, Goto, TypeOK
  <1>21. CASE GetFound(t)
    BY <1>1, <1>5, <1>21 DEF GetFound, Goto, TypeOK
  <1>22. CASE Read(t)
    BY <1>1, <1>6, <1>22 DEF Read, Return, Goto, TypeOK
  <1> QED
    BY <1>7, <1>8, <1>9, <1>11, <1>12, <1>13, <1>14, <1>15, <1>16, <1>17,
       <1>18, <1>19, <1>20, <1>21, <1>22 DEF StepOf, Push, Get

\* The claimed cells.
Claimed == {e \in Cells : e[2] < rawLen[e[1]]}

\* Behind a cell nobody has claimed nothing is claimed.
LEMMA ClaimedBefore ==
  ASSUME ItemInv, InOrder, NEW e \in Cells \ Claimed, NEW f \in Claimed
  PROVE  Pos(f) < Pos(e)
  <1>1. /\ e \in Cells /\ f \in Cells /\ f[2] < rawLen[f[1]] /\ ~(e[2] < rawLen[e[1]])
        /\ rawLen[e[1]] \in Nat /\ rawLen[f[1]] \in Nat
    BY PosRange DEF Claimed, ItemInv, SlotInv, TypeOK
  <1>2. /\ e[1] \in Nat /\ f[1] \in Nat /\ e[2] \in Nat /\ f[2] \in Nat /\ e[2] < N
        /\ e[1] \in Chunks /\ f[1] \in Chunks
    BY <1>1, PosRange
  <1>3. ~(e[1] < f[1])
    BY <1>1, <1>2, Consts DEF InOrder
  <1>4. e[1] = f[1] => f[2] < e[2]
    BY <1>1, <1>2
  <1> QED
    BY <1>1, <1>2, <1>3, <1>4, PosOrder

\* Items and claims are as many as the indices before it at most.
LEMMA HoleBound ==
  ASSUME ItemInv, InOrder, NEW e \in Cells \ Claimed
  PROVE  /\ Pos(e) \in Nat
         /\ Cardinality(Claimed) <= Pos(e)
         /\ Cardinality(filled) <= Pos(e)
  <1>1. Pos(e) \in Nat /\ Claimed \subseteq Cells
    BY PosRange DEF Claimed
  <1>2. Cardinality(Claimed) <= Pos(e)
    BY <1>1, ClaimedBefore, CellsBelow
  <1>3. filled \subseteq Claimed
    <2>1. filled \subseteq Cells
      BY SizeBound
    <2> QED
      BY <2>1, PosRange DEF ItemInv, SlotInv, FilledClaimed, Claimed
  <1>4. Cardinality(filled) <= Pos(e)
    BY <1>1, <1>3, ClaimedBefore, CellsBelow
  <1> QED
    BY <1>1, <1>2, <1>4

\* The size is of written cells, and of those a push is about to write.
LEMMA OrderHoles == ItemInv /\ InOrder => HolesOwned
  <1> SUFFICES ASSUME ItemInv, InOrder PROVE HolesOwned
    OBVIOUS
  <1>1. ASSUME NEW e \in Unwritten
        PROVE  \E t \in Pushing : pc[t] = "write" /\ <<ci[t], slot[t]>> = e
    <2>1. e \in Cells /\ Pos(e) < entriesSize /\ e \notin filled
      BY <1>1 DEF Unwritten, IterSet, Cells, Pos
    <2>2. e \in Claimed
      <3> SUFFICES ASSUME e \notin Claimed PROVE FALSE
        OBVIOUS
      <3>1. Cardinality(filled) <= Pos(e) /\ Pos(e) \in Nat
        BY <2>1, HoleBound
      <3> QED
        BY <3>1, <2>1, SizeBound
    <2>3. e = <<e[1], e[2]>> /\ e[1] \in Chunks /\ e[2] \in Slots
      BY <2>1, PosRange
    <2>4. e[2] < rawLen[e[1]]
      BY <2>2 DEF Claimed
    <2>5. PICK t \in Threads : pc[t] = "write" /\ ci[t] = e[1] /\ slot[t] = e[2]
      BY <2>1, <2>3, <2>4 DEF ItemInv, ClaimsWritten
    <2> QED
      BY <2>3, <2>5 DEF Pushing, PushPC
  <1> QED
    BY <1>1 DEF HolesOwned, ItemInv

\* When the last push in flight ends every index below the size is written.
LEMMA QuietPrefix ==
  ASSUME ItemInv, InOrder, NEW t \in Threads, pc[t] = "size", Pushing = {t},
         NEW e \in Cells, Pos(e) < entriesSize + 1
  PROVE  e \in filled
  <1> SUFFICES ASSUME e \notin filled PROVE FALSE
    OBVIOUS
  <1>1. \A u \in Threads : pc[u] \in PushPC => u = t
    BY DEF Pushing
  <1>2. e \notin Claimed
    <2>1. \A u \in Threads : pc[u] # "write"
      BY <1>1 DEF PushPC
    <2>2. e = <<e[1], e[2]>> /\ e[1] \in Chunks /\ e[2] \in Slots
      BY PosRange
    <2> QED
      BY <2>1, <2>2 DEF ItemInv, ClaimsWritten, Claimed
  <1>3. Announcing = {t}
    BY <1>1 DEF Announcing, PushPC
  <1>4. Cardinality(Announcing) = 1
    BY <1>3, FS_Singleton
  <1>5. Cardinality(filled) = entriesSize + Cardinality(Announcing)
    BY DEF ItemInv, SizeCounts, Announcing
  <1>6. Cardinality(filled) <= Pos(e) /\ Pos(e) \in Nat
    BY <1>2, HoleBound
  <1> QED
    BY <1>4, <1>5, <1>6, SizeBound

\* What is settled stays written.
LEMMA SettledStep ==
  ASSUME OrderInv, NEW t \in Threads, StepOf(t)
  PROVE  Settled'
  <1>1. TypeOK /\ SlotInv /\ ItemInv /\ Settled /\ InOrder
    BY DEF OrderInv, ItemInv, SlotInv
  <1>2. /\ settled \in Nat /\ entriesSize \in Nat /\ settled' \in Nat
        /\ filled \subseteq filled'
    BY <1>1, SettledGrows DEF TypeOK
  <1>3. PublishSize(t) => pc[t] = "size" /\ pc'[t] = "idle" /\ filled' = filled
    BY <1>1 DEF PublishSize, Return, Goto, TypeOK
  <1>4. settled' <= entriesSize'
    BY <1>1, <1>2, SettledGrows DEF Settled
  <1>5. ASSUME NEW e \in Cells, Pos(e) < settled' PROVE e \in filled'
    <2>1. CASE settled' = settled
      BY <2>1, <1>1, <1>2, <1>5 DEF Settled
    <2>2. CASE settled' # settled
      <3>1. PublishSize(t) /\ Pushing = {t} /\ settled' = entriesSize + 1
        BY <2>2, <1>1, SettledGrows
      <3> QED
        BY <3>1, <1>1, <1>3, <1>5, QuietPrefix
    <2> QED
      BY <2>1, <2>2
  <1>6. ASSUME NEW u \in Threads, pc'[u] \in {"write", "len"}
        PROVE  Pos(<<ci'[u], slot'[u]>>) >= settled'
    <2>1. CASE u # t
      <3>1. pc'[u] = pc[u] /\ ci'[u] = ci[u] /\ slot'[u] = slot[u]
        BY <2>1, <1>1, Others
      <3>2. settled' = settled
        <4>1. u \in Pushing
          BY <3>1, <1>6 DEF Pushing, PushPC
        <4> QED
          BY <4>1, <2>1, <1>1, SettledGrows
      <3> QED
        BY <3>1, <3>2, <1>1, <1>6 DEF Settled
    <2>2. CASE u = t
      <3>1. settled' = settled
        BY <2>2, <1>1, <1>3, <1>6, SettledGrows
      <3>2. CASE Claim(t)
        <4>1. /\ pc[t] = "walk" /\ ci' = ci /\ ci[t] \in Chunks /\ slot'[t] = rawLen[ci[t]]
              /\ slot'[t] \in Slots
          <5>1. rawLen[ci[t]] + 1 <= N /\ slot' = [slot EXCEPT ![t] = rawLen[ci[t]]]
            BY <3>2, <2>2, <1>1, <1>6, ClaimAdds, Consts DEF Claim, Goto, TypeOK
          <5>2. ci[t] \in Chunks /\ rawLen[ci[t]] \in Nat
            BY <3>2, <1>1, ClaimAdds
          <5>3. rawLen[ci[t]] \in Slots
            BY <5>1, <5>2, Consts DEF Slots
          <5> QED
            BY <3>2, <5>1, <5>2, <5>3, <1>1 DEF Claim, Goto, TypeOK
        <4>2. rawLen[ci[t]] \in Nat
          BY <4>1, <1>1 DEF TypeOK
        <4>3. <<ci'[t], slot'[t]>> \in Cells
          BY <4>1 DEF Cells
        <4>4. <<ci'[t], slot'[t]>> \notin filled
          BY <4>1, <4>2, <1>1 DEF SlotInv, FilledClaimed
        <4>5. Pos(<<ci'[t], slot'[t]>>) \in Nat
          BY <4>3, PosRange
        <4>6. ~(Pos(<<ci'[t], slot'[t]>>) < settled)
          BY <4>3, <4>4, <1>1 DEF Settled
        <4> QED
          BY <4>5, <4>6, <3>1, <2>2, <1>2
      <3>3. CASE Write(t)
        <4>1. pc[t] = "write" /\ ci' = ci /\ slot' = slot
          BY <3>3 DEF Write, Goto, locals
        <4> QED
          BY <4>1, <3>1, <2>2, <1>1 DEF Settled
      <3>4. CASE ~Claim(t) /\ ~Write(t)
        <4>1. pc'[t] \notin {"write", "len"}
          <5>1. CASE PushStart(t) \/ GetStart(t)
            BY <5>1, <1>1 DEF PushStart, GetStart, Goto, TypeOK
          <5>2. CASE LoadRaw(t) \/ NextChunk(t) \/ MissChunk(t) \/ LinkChunk(t)
            BY <5>2, <1>1 DEF LoadRaw, NextChunk, MissChunk, LinkChunk, Goto, TypeOK
          <5>3. CASE Undo(t) \/ PublishLen(t) \/ PublishSize(t)
            BY <5>3, <1>1 DEF Undo, PublishLen, PublishSize, Return, Goto, TypeOK
          <5>4. CASE Get(t)
            BY <5>4, <1>1 DEF Get, RootLen, GetNext, GetFound, Read, Return, Goto, TypeOK
          <5> QED
            BY <3>4, <5>1, <5>2, <5>3, <5>4 DEF StepOf, Push
        <4> QED
          BY <4>1, <2>2, <1>6
      <3> QED
        BY <3>2, <3>3, <3>4
    <2> QED
      BY <2>1, <2>2
  <1> QED
    BY <1>4, <1>5, <1>6 DEF Settled, Pos, Cells

\* The root's len is N for who asks for a settled index behind it.
LEMMA RootFull ==
  ASSUME OrderInv, NEW i \in Nat, i >= N, i < settled
  PROVE  len[0] = N
  <1>1. 0 \in Chunks /\ 0 \in Int /\ N \in Nat /\ settled \in Nat /\ len[0] \in Nat
    BY Consts DEF OrderInv, ItemInv, SlotInv, TypeOK, Chunks
  <1>2. ASSUME NEW s \in Slots PROVE <<0, s>> \in Cells /\ Pos(<<0, s>>) < settled
    <2>1. s \in Nat /\ s < N
      BY Consts DEF Slots
    <2>2. <<0, s>> \in Cells
      BY <1>1 DEF Cells
    <2>3. Pos(<<0, s>>) = N * 0 + s
      BY <2>2, PosRange
    <2> QED
      BY <2>1, <2>2, <2>3, <1>1, Consts
  <1>3. FilledSlots(0) = Slots
    BY <1>2 DEF FilledSlots, OrderInv, Settled
  <1>4. Counting(0) = {}
    <2> SUFFICES ASSUME NEW u \in Threads, pc[u] = "len", ci[u] = 0 PROVE FALSE
      BY DEF Counting
    <2>1. slot[u] \in Slots
      BY DEF OrderInv, ItemInv, SlotInv, TypeOK
    <2>2. Pos(<<0, slot[u]>>) < settled /\ Pos(<<0, slot[u]>>) \in Nat
      BY <2>1, <1>2, PosRange
    <2>3. Pos(<<0, slot[u]>>) >= settled
      BY DEF OrderInv, Settled
    <2> QED
      BY <2>2, <2>3, <1>1
  <1>5. Cardinality(Slots) = N
    BY FS_Interval, Consts DEF Slots
  <1>6. Cardinality(FilledSlots(0)) = len[0] + Cardinality(Counting(0))
    BY <1>1 DEF OrderInv, ItemInv, LenCounts
  <1> QED
    BY <1>1, <1>3, <1>4, <1>5, <1>6, FS_EmptySet

\* An index of the root chunk is of chunk 0, one of the next N of chunk 1.
LEMMA FirstChunks ==
  ASSUME NEW i \in Nat
  PROVE  /\ i < N => i \div N = 0
         /\ i >= N /\ i < 2 * N => i \div N = 1
  BY Consts

\* A get stays on its way.
LEMMA GetStep ==
  ASSUME OrderInv, NEW t \in Threads, StepOf(t)
  PROVE  GetOf(t)'
  <1>1. TypeOK /\ SlotInv /\ ItemInv /\ WalkOf(t) /\ GetOf(t)
    BY DEF OrderInv, ItemInv, SlotInv
  <1>2. /\ settled \in Nat /\ settled' \in Nat /\ settled <= settled'
        /\ target[t] \in Nat /\ raw[t] \in Nat /\ ci[t] \in Nat
    BY <1>1, SettledGrows DEF OrderInv, TypeOK, Chunks
  <1>3. ASSUME ~sure'[t], pc'[t] \notin {"rootlen", "getwalk"} PROVE GetOf(t)'
    BY <1>3 DEF GetOf
  <1>4. CASE PushStart(t)
    BY <1>1, <1>3, <1>4 DEF PushStart, Goto, TypeOK, GetOf, history, GetPC
  <1>5. CASE Push(t)
    <2>1. pc[t] \in PushPC /\ sure' = sure
      BY <1>5 DEF Push, LoadRaw, NextChunk, MissChunk, LinkChunk, Claim, Undo, Write,
         PublishLen, PublishSize, Return, Goto, PushPC, history
    <2>2. pc'[t] \notin {"rootlen", "getwalk"}
      <3>1. CASE LoadRaw(t) \/ NextChunk(t) \/ MissChunk(t) \/ LinkChunk(t) \/ Claim(t)
        BY <3>1, <1>1 DEF LoadRaw, NextChunk, MissChunk, LinkChunk, Claim, Goto, TypeOK
      <3>2. CASE Undo(t) \/ Write(t) \/ PublishLen(t) \/ PublishSize(t)
        BY <3>2, <1>1 DEF Undo, Write, PublishLen, PublishSize, Return, Goto, TypeOK
      <3> QED
        BY <1>5, <3>1, <3>2 DEF Push
    <2>3. ~sure[t]
      BY <2>1, <1>1 DEF GetOf, PushPC, GetPC
    <2> QED
      BY <2>1, <2>2, <2>3, <1>3
  <1>6. CASE GetStart(t)
    <2>1. PICK i \in 0 .. entriesSize - 1 :
            /\ Goto(t, "idle", IF i < N THEN "read" ELSE "rootlen")
            /\ target' = [target EXCEPT ![t] = i]
            /\ sure' = [sure EXCEPT ![t] = i < settled]
            /\ UNCHANGED <<shared, ci, raw, slot, settled>>
      BY <1>6 DEF GetStart
    <2>2. /\ i \in Nat /\ pc[t] = "idle" /\ pc'[t] = IF i < N THEN "read" ELSE "rootlen"
          /\ target'[t] = i /\ (sure'[t] <=> i < settled) /\ ci'[t] = 0
          /\ settled' = settled
      <3>1. i \in Nat /\ pc[t] = "idle" /\ ci'[t] = 0 /\ settled' = settled
        BY <2>1, <1>1 DEF Goto, TypeOK, WalkOf
      <3>2. pc'[t] = IF i < N THEN "read" ELSE "rootlen"
        BY <2>1, <1>1 DEF Goto, TypeOK
      <3>3. target'[t] = i /\ (sure'[t] <=> i < settled)
        BY <2>1, <1>1 DEF TypeOK
      <3> QED
        BY <3>1, <3>2, <3>3
    <2>3. CASE i < N
      <3>1. N * ci'[t] <= i /\ i \div N = 0
        BY <2>2, <2>3, FirstChunks, Consts
      <3> QED
        BY <2>2, <2>3, <3>1 DEF GetOf, GetPC
    <2>4. CASE i >= N
      BY <2>2, <2>4, Consts DEF GetOf, GetPC
    <2> QED
      BY <2>2, <2>3, <2>4, Consts
  <1>7. CASE RootLen(t)
    <2>1. /\ pc[t] = "rootlen" /\ pc'[t] = "getwalk" /\ raw'[t] = len[0]
          /\ UNCHANGED <<ci, target, settled, sure>>
      BY <1>1, <1>7 DEF RootLen, Goto, TypeOK, history
    <2>2. target[t] >= N /\ ci[t] = 0 /\ (sure[t] => target[t] < settled)
      BY <2>1, <1>1 DEF GetOf, WalkOf
    <2>3. sure[t] => len[0] = N
      BY <2>2, <1>2, RootFull
    <2>4. N * ci[t] <= target[t]
      BY <2>2, <1>2, Consts
    <2> QED
      BY <2>1, <2>2, <2>3, <2>4 DEF GetOf, GetPC
  <1>8. CASE GetNext(t)
    <2>1. /\ pc[t] = "getwalk" /\ pc'[t] = "getwalk" /\ Beyond(t) /\ ci'[t] = ci[t] + 1
          /\ UNCHANGED <<target, settled, sure>>
      BY <1>1, <1>8 DEF GetNext, Goto, TypeOK, history
    <2> DEFINE m == N * ci[t]
    <2>2. m \in Int /\ N * (ci[t] + 1) = m + N
      BY <1>2, Starts
    <2>3. raw[t] >= N /\ target[t] >= raw[t] + m
      BY <2>1 DEF Beyond
    <2>4. N * ci'[t] = m + N
      BY <2>1, <2>2
    <2> HIDE DEF m
    <2>5. m + N <= target[t]
      BY <2>2, <2>3, <1>2, Consts
    <2>6. N * ci'[t] <= target'[t] /\ ci'[t] # 0
      BY <2>1, <2>4, <2>5, <1>2
    <2> QED
      BY <2>1, <2>6, <1>1 DEF GetOf, GetPC
  <1>9. CASE GetFound(t)
    <2>1. /\ pc[t] = "getwalk" /\ pc'[t] = "read" /\ ~Beyond(t)
          /\ UNCHANGED <<ci, target, settled, sure>>
      BY <1>1, <1>9 DEF GetFound, Goto, TypeOK, history, locals
    <2>2. ASSUME sure[t], target[t] < 2 * N PROVE ci[t] = target[t] \div N
      <3>1. N * ci[t] <= target[t] /\ target[t] >= N /\ (ci[t] = 0 => raw[t] = N)
        BY <2>1, <2>2, <1>1 DEF GetOf
      <3>2. target[t] \div N = 1
        BY <2>2, <3>1, <1>2, FirstChunks
      <3>3. ci[t] # 0
        <4> SUFFICES ASSUME ci[t] = 0 PROVE FALSE
          OBVIOUS
        <4>1. raw[t] + N * ci[t] = N
          BY <3>1, Consts
        <4> QED
          BY <4>1, <3>1, <2>1, Consts DEF Beyond
      <3>4. ~(2 <= ci[t])
        <4> SUFFICES ASSUME 2 <= ci[t] PROVE FALSE
          OBVIOUS
        <4> DEFINE m == N * ci[t]
        <4>1. N * 2 = 2 * N /\ m \in Int /\ 2 * N \in Int
          BY <1>2, Starts, Consts
        <4>3. N * 2 <= m
          BY <1>2, Monotone
        <4>2. m <= target[t]
          BY <3>1
        <4> HIDE DEF m
        <4> QED
          BY <4>1, <4>2, <4>3, <2>2, <1>2
      <3> QED
        BY <3>2, <3>3, <3>4, <1>2
    <2> QED
      BY <2>1, <2>2, <1>1 DEF GetOf, GetPC
  <1>10. CASE Read(t)
    BY <1>1, <1>3, <1>10 DEF Read, Return, Goto, TypeOK
  <1> QED
    BY <1>4, <1>5, <1>6, <1>7, <1>8, <1>9, <1>10 DEF StepOf, Get

\* Every step keeps the order.
LEMMA OrderKept == FewThreads /\ OrderInv /\ [Next]_vars => OrderInv'
  <1> SUFFICES ASSUME FewThreads, OrderInv, [Next]_vars PROVE OrderInv'
    OBVIOUS
  <1>1. ItemInv'
    BY ItemStep DEF OrderInv
  <1>2. ASSUME NEW t \in Threads, StepOf(t) PROVE OrderInv'
    <2>1. InOrder' /\ Settled'
      BY <1>2, OrderStep, SettledStep
    <2>2. ASSUME NEW u \in Threads PROVE (WalkOf(u) /\ GetOf(u))'
      BY <1>2, OtherOrder, WalkStep, GetStep
    <2> QED
      BY <1>1, <2>1, <2>2 DEF OrderInv
  <1>3. CASE Reset
    <2>1. /\ \A c \in Chunks : rawLen'[c] = 0
          /\ filled' = {} /\ settled' = 0 /\ entriesSize' = 0
          /\ UNCHANGED <<pc, ci, raw, slot, target, sure>>
          /\ \A t \in Threads : pc[t] = "idle"
      BY <1>3 DEF Reset, locals
    <2>2. InOrder'
      BY <2>1 DEF InOrder
    <2>3. Settled'
      <3>1. \A e \in Cells : ~(Pos(e) < 0)
        BY PosRange
      <3> QED
        BY <2>1, <3>1 DEF Settled, Pos, Cells
    <2>4. ASSUME NEW t \in Threads PROVE (WalkOf(t) /\ GetOf(t))'
      <3>1. ci[t] = 0 /\ ~sure[t]
        BY <2>1 DEF OrderInv, WalkOf, GetOf, GetPC
      <3> QED
        BY <3>1, <2>1 DEF WalkOf, GetOf, PushPC
    <2> QED
      BY <1>1, <2>2, <2>3, <2>4 DEF OrderInv
  <1>4. CASE UNCHANGED vars
    <2>1. UNCHANGED <<rawLen, filled, settled, entriesSize, pc, ci, raw, slot, target, sure>>
      BY <1>4 DEF vars, shared, locals, history
    <2>2. InOrder' /\ Settled'
      BY <2>1 DEF OrderInv, InOrder, Settled, Pos, Cells
    <2>3. ASSUME NEW t \in Threads PROVE (WalkOf(t) /\ GetOf(t))'
      BY <2>1 DEF OrderInv, WalkOf, GetOf, Full
    <2> QED
      BY <1>1, <2>2, <2>3 DEF OrderInv
  <1> QED
    BY <1>2, <1>3, <1>4 DEF Next, StepOf

\* Nothing is claimed initially.
LEMMA InitOrder == Init => OrderInv
  <1> SUFFICES ASSUME Init PROVE OrderInv
    OBVIOUS
  <1>1. ItemInv
    BY InitItems
  <1>2. InOrder
    BY DEF Init, InOrder
  <1>3. Settled
    <2>1. \A e \in Cells : ~(Pos(e) < 0)
      BY PosRange
    <2> QED
      BY <2>1 DEF Init, Settled
  <1>4. \A t \in Threads : WalkOf(t) /\ GetOf(t)
    BY DEF Init, WalkOf, GetOf, PushPC
  <1> QED
    BY <1>1, <1>2, <1>3, <1>4 DEF OrderInv

\* A get of a settled index finds an item, of the index itself in the first two chunks.
LEMMA OrderGets == OrderInv => StableGet
  <1> SUFFICES ASSUME OrderInv PROVE StableGet
    OBVIOUS
  <1>1. NextThere
    BY ItemsNext DEF OrderInv
  <1>2. ASSUME NEW t \in Threads, pc[t] = "read", sure[t]
        PROVE  <<ci[t], target[t] % N>> \in filled
    <2>1. /\ target[t] \in Nat /\ ci[t] \in Chunks /\ ci[t] \in Int /\ settled \in Nat
          /\ target[t] < settled /\ N * ci[t] <= target[t]
      BY <1>2 DEF OrderInv, ItemInv, SlotInv, TypeOK, GetOf, Chunks
    <2> DEFINE r == target[t] % N
               q == target[t] \div N
               m == N * ci[t]
               n == N * q
    <2>2. r \in 0 .. N - 1 /\ q \in Int /\ target[t] = n + r /\ n \in Int
      BY <2>1, Consts
    <2>3. <<ci[t], r>> \in Cells
      BY <2>1, <2>2 DEF Cells, Slots
    <2>4. Pos(<<ci[t], r>>) = m + r /\ m \in Int
      BY <2>1, <2>3, PosRange, Starts
    <2>5. m <= n
      <3>1. ci[t] <= q
        <4> SUFFICES ASSUME q + 1 <= ci[t] PROVE FALSE
          BY <2>1, <2>2
        <4>1. N * (q + 1) <= m /\ N * (q + 1) = n + N
          BY <2>1, <2>2, Monotone, Starts
        <4>2. m <= target[t]
          BY <2>1
        <4> HIDE DEF r, q, m, n
        <4> QED
          BY <4>1, <4>2, <2>1, <2>2, <2>4, Consts
      <3> QED
        BY <3>1, <2>1, <2>2, Monotone
    <2> HIDE DEF q, r, m, n
    <2>6. Pos(<<ci[t], r>>) < settled
      BY <2>1, <2>2, <2>4, <2>5, Consts
    <2> QED
      BY <2>3, <2>6 DEF OrderInv, Settled, r
  <1> QED
    BY <1>1, <1>2 DEF StableGet, NextThere, OrderInv, GetOf

\* The order of the claims holds in every reachable state.
THEOREM OrderInvariance == ASSUME FewThreads PROVE Spec => []OrderInv
  <1>1. Init => OrderInv
    BY InitOrder
  <1>2. OrderInv /\ [Next]_vars => OrderInv'
    BY OrderKept
  <1> QED
    BY <1>1, <1>2, PTL DEF Spec

\* Every index below size() is written or about to be, by the push that claimed it:
\* once all pushes returned chunks() walks the items.
THEOREM NoHoles == ASSUME FewThreads PROVE Spec => []HolesOwned
  <1>1. OrderInv => HolesOwned
    BY OrderHoles DEF OrderInv
  <1> QED
    BY <1>1, OrderInvariance, PTL

\* get() of an index that was below the size when no push was in flight follows no null
\* pointer and dereferences an item, in the first two chunks the one of the index.
THEOREM GetsAnItem == ASSUME FewThreads PROVE Spec => []StableGet
  <1>1. OrderInv => StableGet
    BY OrderGets
  <1> QED
    BY <1>1, OrderInvariance, PTL

-----------------------------------------------------------------------------
(* Pushes take their positions in order *)

\* The positions whose item is written.
FilledPos == {Pos(e) : e \in filled}

\* The cell of an index is the one at that position.
LEMMA CellAt ==
  ASSUME NEW e \in Cells, NEW p \in 0 .. Pos(e)
  PROVE  /\ <<p \div N, p % N>> \in Cells
         /\ Pos(<<p \div N, p % N>>) = p
  <1> DEFINE q == p \div N
             r == p % N
             m == N * q
             n == N * (e[1] + 1)
  <1>1. p \in Nat /\ p <= Pos(e) /\ Pos(e) \in Nat /\ Pos(e) < n
    BY PosRange
  <1>2. q \in Nat /\ r \in 0 .. N - 1 /\ p = m + r /\ m \in Nat
    BY <1>1, Consts
  <1>3. e[1] \in Chunks /\ e[1] \in Nat
    BY PosRange
  <1>4. n \in Int
    BY <1>3, Starts
  <1>5. q <= e[1]
    <2> SUFFICES ASSUME e[1] + 1 <= q PROVE FALSE
      BY <1>2, <1>3
    <2>1. n <= m
      BY <1>2, <1>3, Monotone
    <2> HIDE DEF q, r, m, n
    <2> QED
      BY <2>1, <1>1, <1>2, <1>4, Consts
  <1>6. q \in Chunks /\ r \in Slots
    <2> HIDE DEF q, r
    <2> QED
      BY <1>2, <1>3, <1>5, Consts DEF Chunks, Slots
  <1>7. <<q, r>> \in Cells
    BY <1>6 DEF Cells
  <1>8. Pos(<<q, r>>) = m + r
    BY <1>7, PosRange
  <1> HIDE DEF q, r, m, n
  <1>9. <<q, r>> \in Cells /\ Pos(<<q, r>>) = p
    BY <1>2, <1>7, <1>8
  <1> QED
    BY <1>9 DEF q, r

\* A claimed position is among the first ones.
LEMMA ClaimedPrefix ==
  ASSUME ItemInv, InOrder, NEW e \in Claimed
  PROVE  Pos(e) \in 0 .. Cardinality(Claimed) - 1
  <1>1. e \in Cells /\ Pos(e) \in Nat /\ Claimed \subseteq Cells
    BY PosRange DEF Claimed
  <1> DEFINE f == [p \in 0 .. Pos(e) |-> <<p \div N, p % N>>]
  <1>2. ASSUME NEW p \in 0 .. Pos(e) PROVE f[p] \in Claimed /\ Pos(f[p]) = p
    <2>1. f[p] \in Cells /\ Pos(f[p]) = p
      BY <1>1, CellAt
    <2>2. ~(Pos(e) < Pos(f[p]))
      BY <1>1, <2>1
    <2> HIDE DEF f
    <2> QED
      BY <2>1, <2>2, ClaimedBefore
  <1>3. f \in Injection(0 .. Pos(e), Claimed)
    <2>1. f \in [0 .. Pos(e) -> Claimed]
      BY <1>2
    <2> HIDE DEF f
    <2>2. \A p, q \in 0 .. Pos(e) : f[p] = f[q] => p = q
      BY <1>2
    <2> QED
      BY <2>1, <2>2 DEF Injection, IsInjective
  <1> HIDE DEF f
  <1>4. IsFiniteSet(Claimed) /\ Cardinality(Claimed) \in Nat
    <2>1. IsFiniteSet(Cells)
      BY CountedFinite, SizeBound
    <2> QED
      BY <2>1, <1>1, FS_Subset, FS_CardinalityType
  <1>5. Cardinality(0 .. Pos(e)) <= Cardinality(Claimed)
    BY <1>3, <1>4, FS_Injection
  <1>6. Cardinality(0 .. Pos(e)) = Pos(e) + 1
    <2> DEFINE n == Pos(e)
    <2> HIDE DEF n
    <2>1. n \in Nat
      BY <1>1 DEF n
    <2>2. Cardinality(0 .. n) = IF 0 > n THEN 0 ELSE n - 0 + 1
      BY <2>1, FS_Interval
    <2>3. Cardinality(0 .. n) = n + 1
      BY <2>1, <2>2
    <2> QED
      BY <2>3 DEF n
  <1> QED
    BY <1>1, <1>4, <1>5, <1>6

\* There are as many written positions as items.
LEMMA AsManyPositions ==
  ASSUME ItemInv
  PROVE  Cardinality(FilledPos) = Cardinality(filled)
  <1>1. filled \subseteq Cells /\ IsFiniteSet(filled)
    BY SizeBound
  <1> DEFINE f == [e \in filled |-> Pos(e)]
  <1>2. f \in Surjection(filled, FilledPos)
    BY DEF Surjection, FilledPos
  <1>3. f \in Injection(filled, FilledPos)
    <2>1. f \in [filled -> FilledPos]
      BY DEF FilledPos
    <2>2. \A e, g \in filled : f[e] = f[g] => e = g
      BY <1>1, PosInjective
    <2> QED
      BY <2>1, <2>2 DEF Injection, IsInjective
  <1> HIDE DEF f
  <1> QED
    BY <1>1, <1>2, <1>3, FS_Surjection

\* The vector has no position taken initially.
LEMMA InitTickets == Init => Tickets!Init
  <1> SUFFICES ASSUME Init PROVE Tickets!Init
    OBVIOUS
  <1>1. \A e : e \notin Claimed
    <2>1. \A e \in Cells : rawLen[e[1]] = 0 /\ ~(e[2] < 0)
      BY PosRange DEF Init
    <2> QED
      BY <2>1 DEF Claimed
  <1>2. Claimed = {}
    BY <1>1
  <1>3. Cardinality(Claimed) = 0
    BY <1>2, FS_EmptySet
  <1>4. FilledPos = {}
    BY DEF Init, FilledPos
  <1> QED
    BY <1>3, <1>4 DEF Init, Tickets!Init, Claimed, Cells, FilledPos, Pos

\* A step that claims no cell and changes no item is none of the positions.
LEMMA SamePositions ==
  ASSUME UNCHANGED <<filled, entriesSize>>, Claimed' = Claimed
  PROVE  UNCHANGED Tickets!vars
  BY DEF Tickets!vars, Claimed, Cells

\* A claim takes the next position, or none.
LEMMA ClaimTickets ==
  ASSUME ItemInv, NEW t \in Threads, Claim(t)
  PROVE  [Tickets!Next]_Tickets!vars
  <1>c. PICK c \in Chunks : c = ci[t]
    BY DEF ItemInv, SlotInv, TypeOK
  <1>1. /\ rawLen[c] \in Nat /\ rawLen' = [rawLen EXCEPT ![c] = rawLen[c] + 1]
        /\ UNCHANGED <<filled, entriesSize>>
    BY <1>c, ClaimAdds DEF ItemInv, Claim
  <1>2. \A d \in Chunks : rawLen'[d] = IF d = c THEN rawLen[c] + 1 ELSE rawLen[d]
    BY <1>1 DEF ItemInv, SlotInv, TypeOK
  <1>3. CASE rawLen[c] < N
    <2> DEFINE e == <<c, rawLen[c]>>
    <2>1. e \in Cells /\ e \notin Claimed
      BY <1>1, <1>3, Consts DEF Cells, Slots, Claimed
    <2>2. ASSUME NEW f \in Cells
          PROVE  f[2] < rawLen'[f[1]] <=> f[2] < rawLen[f[1]] \/ f = e
      <3>1. /\ f[1] \in Chunks /\ f[2] \in Nat /\ f = <<f[1], f[2]>> /\ rawLen[f[1]] \in Nat
        BY PosRange DEF ItemInv, SlotInv, TypeOK
      <3> QED
        BY <3>1, <1>1, <1>2
    <2>3. Claimed' = Claimed \cup {e}
      BY <2>1, <2>2 DEF Claimed, Cells
    <2> HIDE DEF e
    <2>4. IsFiniteSet(Claimed)
      <3>1. IsFiniteSet(Cells) /\ Claimed \subseteq Cells
        BY CountedFinite, SizeBound DEF Claimed
      <3> QED
        BY <3>1, FS_Subset
    <2>5. Cardinality(Claimed') = Cardinality(Claimed) + 1
      BY <2>1, <2>3, <2>4, FS_AddElement
    <2>6. Tickets!Take
      BY <2>5, <1>1 DEF Tickets!Take, Claimed, Cells
    <2> QED
      BY <2>6 DEF Tickets!Next
  <1>4. CASE ~(rawLen[c] < N)
    <2>1. ASSUME NEW f \in Cells
          PROVE  f[2] < rawLen'[f[1]] <=> f[2] < rawLen[f[1]]
      <3>1. f[1] \in Chunks /\ f[2] \in Nat /\ f[2] < N /\ rawLen[f[1]] \in Nat
        BY PosRange DEF ItemInv, SlotInv, TypeOK
      <3> QED
        BY <3>1, <1>1, <1>2, <1>4, Consts
    <2>2. Claimed' = Claimed
      BY <2>1 DEF Claimed, Cells
    <2> QED
      BY <2>2, <1>1, SamePositions
  <1> QED
    BY <1>3, <1>4

\* A claim taken back was of no position.
LEMMA UndoTickets ==
  ASSUME ItemInv, NEW t \in Threads, Undo(t)
  PROVE  UNCHANGED Tickets!vars
  <1>c. PICK c \in Chunks : c = ci[t]
    BY DEF ItemInv, SlotInv, TypeOK
  <1>1. /\ rawLen[c] \in Nat /\ rawLen[c] > N
        /\ rawLen' = [rawLen EXCEPT ![c] = rawLen[c] - 1]
        /\ UNCHANGED <<filled, entriesSize>>
    BY <1>c, UndoTakes DEF ItemInv, Undo
  <1>2. \A d \in Chunks : rawLen'[d] = IF d = c THEN rawLen[c] - 1 ELSE rawLen[d]
    BY <1>1 DEF ItemInv, SlotInv, TypeOK
  <1>3. ASSUME NEW f \in Cells
        PROVE  f[2] < rawLen'[f[1]] <=> f[2] < rawLen[f[1]]
    <2>1. f[1] \in Chunks /\ f[2] \in Nat /\ f[2] < N /\ rawLen[f[1]] \in Nat
      BY PosRange DEF ItemInv, SlotInv, TypeOK
    <2> QED
      BY <2>1, <1>1, <1>2, Consts
  <1>4. Claimed' = Claimed
    BY <1>3 DEF Claimed, Cells
  <1> QED
    BY <1>1, <1>4, SamePositions

\* A write fills a position that was taken.
LEMMA WriteTickets ==
  ASSUME ItemInv, InOrder, NEW t \in Threads, Write(t)
  PROVE  Tickets!Fill
  <1>c. PICK c \in Chunks, s \in Slots : c = ci[t] /\ s = slot[t]
    BY DEF ItemInv, SlotInv, TypeOK
  <1> DEFINE e == <<c, s>>
  <1>1. /\ pc[t] = "write" /\ filled' = filled \cup {e}
        /\ UNCHANGED <<rawLen, entriesSize>>
    BY <1>c DEF Write, Goto
  <1>2. e \notin filled /\ e \in Cells /\ e \in Claimed
    BY <1>1, <1>c DEF ItemInv, SlotInv, SlotExclusive, OwnedClaimed, Cells, Claimed
  <1> HIDE DEF e
  <1>3. Pos(e) \in 0 .. Cardinality(Claimed) - 1
    BY <1>2, ClaimedPrefix
  <1>4. Pos(e) \notin FilledPos
    BY <1>2, SizeBound, PosInjective DEF FilledPos
  <1>5. FilledPos' = FilledPos \cup {Pos(e)}
    BY <1>1 DEF FilledPos, Pos
  <1>6. Claimed' = Claimed
    BY <1>1 DEF Claimed, Cells
  <1> QED
    BY <1>1, <1>3, <1>4, <1>5, <1>6 DEF Tickets!Fill, Claimed, Cells, FilledPos, Pos

\* The size is announced of written positions only.
LEMMA PublishTickets ==
  ASSUME ItemInv, NEW t \in Threads, PublishSize(t)
  PROVE  Tickets!Announce
  <1>1. /\ pc[t] = "size" /\ UNCHANGED <<rawLen, filled>>
        /\ entriesSize' = entriesSize + 1
    BY DEF PublishSize, Return, Goto
  <1>2. t \in Announcing /\ IsFiniteSet(Announcing) /\ Cardinality(Announcing) \in Nat
    BY <1>1, SizeBound, CountedFinite DEF Announcing
  <1>3. Cardinality(Announcing) # 0
    BY <1>2, FS_EmptySet
  <1>4. Cardinality(filled) = entriesSize + Cardinality(Announcing)
    BY DEF ItemInv, SizeCounts, Announcing
  <1>5. entriesSize < Cardinality(FilledPos)
    BY <1>2, <1>3, <1>4, AsManyPositions, SizeBound
  <1>6. Claimed' = Claimed
    BY <1>1 DEF Claimed, Cells
  <1>7. Tickets!Cardinality(FilledPos) = Cardinality(FilledPos)
    BY DEF Tickets!Cardinality, Cardinality
  <1> QED
    BY <1>1, <1>5, <1>6, <1>7 DEF Tickets!Announce, Claimed, Cells, FilledPos, Pos

\* The vector is reset when every position taken is announced.
LEMMA ResetTickets ==
  ASSUME ItemInv, Reset
  PROVE  Tickets!Clear
  <1>1. /\ \A t \in Threads : pc[t] = "idle"
        /\ \A c \in Chunks : rawLen'[c] = 0
        /\ filled' = {} /\ entriesSize' = 0
    BY DEF Reset
  <1>2. Claimed = filled
    <2>1. ASSUME NEW e \in Cells PROVE e \in Claimed <=> e \in filled
      <3>1. e = <<e[1], e[2]>> /\ e[1] \in Chunks /\ e[2] \in Slots
        BY PosRange
      <3> QED
        BY <3>1, <1>1 DEF Claimed, ItemInv, SlotInv, FilledClaimed, ClaimsWritten
    <2> QED
      BY <2>1, SizeBound DEF Claimed
  <1>3. Announcing = {}
    BY <1>1 DEF Announcing
  <1>4. Cardinality(Claimed) = entriesSize
    <2>1. Cardinality(filled) = entriesSize + Cardinality(Announcing)
      BY DEF ItemInv, SizeCounts, Announcing
    <2> QED
      BY <2>1, <1>2, <1>3, FS_EmptySet, SizeBound
  <1>5. Claimed' = {}
    <2>1. \A e \in Cells : rawLen'[e[1]] = 0 /\ ~(e[2] < 0)
      BY <1>1, PosRange
    <2>2. \A e : e \notin Claimed'
      BY <2>1 DEF Claimed, Cells
    <2> QED
      BY <2>2
  <1>6. Cardinality(Claimed') = 0 /\ FilledPos' = {}
    BY <1>1, <1>5, FS_EmptySet DEF FilledPos
  <1> QED
    BY <1>1, <1>4, <1>6 DEF Tickets!Clear, Claimed, Cells, FilledPos, Pos

\* Every step of the vector is one of the positions or none.
LEMMA TicketStep == OrderInv /\ [Next]_vars => [Tickets!Next]_Tickets!vars
  <1> SUFFICES ASSUME OrderInv, [Next]_vars PROVE [Tickets!Next]_Tickets!vars
    OBVIOUS
  <1>1. ItemInv /\ InOrder
    BY DEF OrderInv
  <1>2. ASSUME UNCHANGED <<rawLen, filled, entriesSize>> PROVE UNCHANGED Tickets!vars
    <2>1. Claimed' = Claimed
      BY <1>2 DEF Claimed, Cells
    <2> QED
      BY <2>1, <1>2, SamePositions
  <1>3. ASSUME NEW t \in Threads, StepOf(t) PROVE [Tickets!Next]_Tickets!vars
    <2>1. CASE Claim(t)
      BY <2>1, <1>1, ClaimTickets
    <2>2. CASE Undo(t)
      BY <2>2, <1>1, UndoTickets
    <2>3. CASE Write(t)
      BY <2>3, <1>1, WriteTickets DEF Tickets!Next
    <2>4. CASE PublishSize(t)
      BY <2>4, <1>1, PublishTickets DEF Tickets!Next
    <2>5. CASE ~Claim(t) /\ ~Undo(t) /\ ~Write(t) /\ ~PublishSize(t)
      <3>1. UNCHANGED <<rawLen, filled, entriesSize>>
        BY <1>3, <2>5 DEF StepOf, Push, Get, PushStart, GetStart, LoadRaw, NextChunk,
           MissChunk, LinkChunk, PublishLen, RootLen, GetNext, GetFound, Read, shared
      <3> QED
        BY <3>1, <1>2
    <2> QED
      BY <2>1, <2>2, <2>3, <2>4, <2>5
  <1>4. CASE Reset
    BY <1>4, <1>1, ResetTickets DEF Tickets!Next
  <1>5. CASE UNCHANGED vars
    BY <1>5, <1>2 DEF vars, shared
  <1> QED
    BY <1>3, <1>4, <1>5 DEF Next, StepOf

\* SyncVec implements TicketVec: positions are handed out in order, each written by one
\* push, and announced when written.
THEOREM Refinement == ASSUME FewThreads PROVE Spec => ImplementsTickets
  <1>1. Init => Tickets!Init
    BY InitTickets
  <1>2. OrderInv /\ [Next]_vars => [Tickets!Next]_Tickets!vars
    BY TicketStep
  <1>3. Spec => []OrderInv
    BY OrderInvariance
  <1> QED
    BY <1>1, <1>2, <1>3, PTL DEF Spec, ImplementsTickets, Tickets!Spec
=============================================================================
