----------------------------- MODULE MCZipRange -----------------------------
(***************************************************************************)
(* Model-checking instances of ZipRange.                                   *)
(***************************************************************************)
EXTENDS ZipRange
=============================================================================
