----------------------------- MODULE MCListQuery -----------------------------
(***************************************************************************)
(* Instances of ListQuery for TLC.                                         *)
(***************************************************************************)
EXTENDS ListQuery
=============================================================================
