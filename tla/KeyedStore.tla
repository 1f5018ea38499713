----------------------------- MODULE KeyedStore -----------------------------
(***************************************************************************)
(* What SyncSlotMap promises: a store that chooses the key.  push() puts   *)
(* an item under a key nothing is stored under and gives the key to its    *)
(* caller; who gives the key up by delete() takes that item out.  Nothing  *)
(* is promised once there are as many slots as keys.                       *)
(***************************************************************************)
CONSTANTS Keys, Items

VARIABLES
  contents,  \* key -> item, for the keys in use
  held,      \* <<key, item>> the callers hold
  room       \* there are more keys than slots

vars == <<contents, held, room>>

Init == contents = <<>> /\ held = {} /\ room = TRUE

Put(k, x) ==
  /\ k \notin DOMAIN contents
  /\ contents' = [j \in DOMAIN contents \cup {k} |-> IF j = k THEN x ELSE contents[j]]

\* The caller gets the key of the item it pushed, at once or a moment later.
Push(k, x) == Put(k, x) /\ held' \in {held, held \cup {<<k, x>>}}

Give(k) ==
  /\ held' = held \cup {<<k, contents[k]>>}
  /\ UNCHANGED contents

GiveUp(h) == held' = held \ {h} /\ UNCHANGED contents

\* Only an item nobody holds the key of is taken out.
Delete(k) ==
  /\ \A h \in held : h[1] # k
  /\ contents' = [j \in DOMAIN contents \ {k} |-> contents[j]]
  /\ UNCHANGED held

Step ==
  \/ \E k \in Keys, x \in Items : Push(k, x)
  \/ \E k \in DOMAIN contents : Give(k) \/ Delete(k)
  \/ \E h \in held : GiveUp(h)

Next ==
  \/ room /\ Step /\ UNCHANGED room
  \/ room' = FALSE

Spec == Init /\ [][Next]_vars
=============================================================================
