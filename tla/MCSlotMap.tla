----------------------------- MODULE MCSlotMap -----------------------------
(***************************************************************************)
(* Model-checking instances of SlotMap.  Threads are interchangeable.      *)
(***************************************************************************)
EXTENDS SlotMap, TLC

Symmetry == Permutations(Threads)
=============================================================================
