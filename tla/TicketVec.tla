----------------------------- MODULE TicketVec -----------------------------
(***************************************************************************)
(* What SyncVec promises to those who push: every push gets a position of  *)
(* its own, positions are given out in order without holes, a cell is      *)
(* written once, and the size counts only written cells.                   *)
(***************************************************************************)
EXTENDS Integers, FiniteSets

VARIABLES
  next,   \* positions given out
  cells,  \* positions whose item is written
  size    \* announced number of items

vars == <<next, cells, size>>

Init == next = 0 /\ cells = {} /\ size = 0

Take == next' = next + 1 /\ UNCHANGED <<cells, size>>

Fill ==
  /\ \E p \in (0 .. next - 1) \ cells : cells' = cells \cup {p}
  /\ UNCHANGED <<next, size>>

Announce ==
  /\ size < Cardinality(cells)
  /\ size' = size + 1
  /\ UNCHANGED <<next, cells>>

\* Only a vector nobody pushes to is cleared.
Clear ==
  /\ size = next
  /\ next' = 0 /\ cells' = {} /\ size' = 0

Next == Take \/ Fill \/ Announce \/ Clear

Spec == Init /\ [][Next]_vars
=============================================================================
