----------------------------- MODULE MCSyncVec -----------------------------
(***************************************************************************)
(* Model-checking instances of SyncVec.  Threads are interchangeable.      *)
(***************************************************************************)
EXTENDS SyncVec, TLC

Symmetry == Permutations(Threads)
=============================================================================
