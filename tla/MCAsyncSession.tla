--------------------------- MODULE MCAsyncSession ---------------------------
(***************************************************************************)
(* Instances of AsyncSession for TLC.                                      *)
(***************************************************************************)
EXTENDS AsyncSession
=============================================================================
