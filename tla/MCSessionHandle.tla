-------------------------- MODULE MCSessionHandle --------------------------
(***************************************************************************)
(* Instances of SessionHandle for TLC.                                     *)
(***************************************************************************)
EXTENDS SessionHandle
=============================================================================
