--------------------------- MODULE MCSparseArray ---------------------------
(***************************************************************************)
(* Model-checking instances of SparseArray.                                *)
(***************************************************************************)
EXTENDS SparseArray
=============================================================================
