--------------------------- MODULE MCFilterBuffer ---------------------------
(***************************************************************************)
(* Instances of FilterBuffer for TLC.                                      *)
(***************************************************************************)
EXTENDS FilterBuffer
=============================================================================
