-------------------------- MODULE MCProgressWatch --------------------------
(***************************************************************************)
(* Instances of ProgressWatch for TLC.                                     *)
(***************************************************************************)
EXTENDS ProgressWatch
=============================================================================
