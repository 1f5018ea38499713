----------------------------- MODULE MCSyncMap -----------------------------
(***************************************************************************)
(* Model-checking instances of SyncMap.  Threads are interchangeable, and  *)
(* so are keys.                                                            *)
(***************************************************************************)
EXTENDS SyncMap, TLC

Symmetry == Permutations(Threads) \cup Permutations(Keys)
=============================================================================
