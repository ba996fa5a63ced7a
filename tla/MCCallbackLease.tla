-------------------------- MODULE MCCallbackLease --------------------------
(***************************************************************************)
(* Instances of CallbackLease for TLC.                                     *)
(***************************************************************************)
EXTENDS CallbackLease
=============================================================================
