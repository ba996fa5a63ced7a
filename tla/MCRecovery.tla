----------------------------- MODULE MCRecovery -----------------------------
(***************************************************************************)
(* Instances of Recovery for TLC.                                          *)
(***************************************************************************)
EXTENDS Recovery, TLC

Symmetry == Permutations(Session)
=============================================================================
