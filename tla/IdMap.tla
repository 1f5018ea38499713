------------------------------- MODULE IdMap -------------------------------
(***************************************************************************)
(* What SparseArray promises: a map from ids to values, as long as it is   *)
(* sound.  Nothing is promised of one that is not, until it is dropped.    *)
(***************************************************************************)
CONSTANTS Ids, Vals

VARIABLES contents, sound

vars == <<contents, sound>>

Init == contents = <<>> /\ sound = TRUE

\* The map m with val for id.
With(m, id, val) == [k \in DOMAIN m \cup {id} |-> IF k = id THEN val ELSE m[k]]

Set(id, val) == sound /\ contents' = With(contents, id, val) /\ UNCHANGED sound

Delete(id) ==
  /\ sound /\ id \in DOMAIN contents
  /\ contents' = [k \in DOMAIN contents \ {id} |-> contents[k]]
  /\ UNCHANGED sound

Drop == contents' = <<>> /\ sound' = TRUE

Break == sound' = FALSE

Next ==
  \/ Break \/ Drop
  \/ \E id \in Ids : Delete(id) \/ \E val \in Vals : Set(id, val)

Spec == Init /\ [][Next]_vars
=============================================================================
