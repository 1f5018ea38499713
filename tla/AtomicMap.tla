----------------------------- MODULE AtomicMap -----------------------------
(***************************************************************************)
(* What SyncMap promises its callers within a frame and across frames: a   *)
(* map of which every get and set takes effect at once, at some moment     *)
(* between its call and its return.  Sets of one key that overlap may take *)
(* effect together, the last of them wins.  Value 0 is "no value".         *)
(***************************************************************************)
EXTENDS Naturals

CONSTANTS Threads, Keys, Values

VARIABLES
  value,  \* key -> its value
  call    \* thread -> its call: op, key, argument or result, took effect

vars == <<value, call>>

Started(op, k, v) == [op |-> op, key |-> k, val |-> v, done |-> FALSE]
NoCall == Started("none", 0, 0)

Init ==
  /\ value = [k \in Keys |-> 0]
  /\ call = [t \in Threads |-> NoCall]

Begin(t) ==
  /\ call[t] = NoCall
  /\ \E k \in Keys :
       \/ call' = [call EXCEPT ![t] = Started("get", k, 0)]
       \/ \E v \in Values : call' = [call EXCEPT ![t] = Started("set", k, v)]
  /\ UNCHANGED value

\* Sets that wait for their effect.
Waiting(k) ==
  {t \in Threads : call[t].op = "set" /\ call[t].key = k /\ ~call[t].done}

SetAll(k) ==
  \E S \in SUBSET Waiting(k) : \E last \in S :
    /\ value' = [value EXCEPT ![k] = call[last].val]
    /\ call' = [t \in Threads |->
         IF t \in S THEN [call[t] EXCEPT !.done = TRUE] ELSE call[t]]

Get(t) ==
  /\ call[t].op = "get" /\ ~call[t].done
  /\ call' = [call EXCEPT ![t].val = value[call[t].key], ![t].done = TRUE]
  /\ UNCHANGED value

End(t) ==
  /\ call[t].done
  /\ call' = [call EXCEPT ![t] = NoCall]
  /\ UNCHANGED value

\* Only while nobody else is in a call.
Delete(k) ==
  /\ \A t \in Threads : call[t] = NoCall
  /\ value' = [value EXCEPT ![k] = 0]
  /\ UNCHANGED call

Next ==
  \/ \E t \in Threads : Begin(t) \/ Get(t) \/ End(t)
  \/ \E k \in Keys : SetAll(k) \/ Delete(k)

Spec == Init /\ [][Next]_vars
=============================================================================
