--------------------------- MODULE MCSameValIter ---------------------------
(***************************************************************************)
(* Model-checking instances of SameValIter.                                *)
(***************************************************************************)
EXTENDS SameValIter
=============================================================================
