------------------------------- MODULE MCIVec ------------------------------
(***************************************************************************)
(* Model-checking instances of IVec.  Threads are interchangeable.         *)
(***************************************************************************)
EXTENDS IVec, TLC

Symmetry == Permutations(Threads)
=============================================================================
