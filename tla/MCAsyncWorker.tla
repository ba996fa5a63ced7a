--------------------------- MODULE MCAsyncWorker ---------------------------
(***************************************************************************)
(* Instances of AsyncWorker for TLC.                                       *)
(***************************************************************************)
EXTENDS AsyncWorker

BothRoles == {"Primary", "Joined"}
=============================================================================
