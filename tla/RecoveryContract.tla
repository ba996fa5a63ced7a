-------------------------- MODULE RecoveryContract --------------------------
(***************************************************************************)
(* What a primary-installer session promises (docs of RestartPending,      *)
(* session.rs:325 and tokio.rs:789): once a shutdown was attempted, whatever *)
(* its outcome, the session does not end before a restart was attempted,   *)
(* unless the caller explicitly left the applications stopped; and then no *)
(* restart is attempted.                                                   *)
(*                                                                         *)
(* Both facades implement it: module Recovery for the blocking typestates, *)
(* module AsyncWorker for the Tokio worker.                                *)
(***************************************************************************)
EXTENDS Naturals

CONSTANT Session

VARIABLES
    phase,      \* how far each session is
    attempts    \* restarts attempted in each session

vars == <<phase, attempts>>

Phases == {"open", "owed", "tried", "waived", "ended"}

TypeOK ==
    /\ phase \in [Session -> Phases]
    /\ attempts \in [Session -> Nat]

Init ==
    /\ phase = [s \in Session |-> "open"]
    /\ attempts = [s \in Session |-> 0]

Move(s, from, to) ==
    /\ phase[s] \in from
    /\ phase' = [phase EXCEPT ![s] = to]

\* A shutdown is attempted: from here recovery is owed.
Shutdown(s) == Move(s, {"open"}, "owed") /\ UNCHANGED attempts

\* A restart is attempted, by the caller or by a destructor.
Attempt(s) ==
    /\ Move(s, {"owed", "tried"}, "tried")
    /\ attempts' = [attempts EXCEPT ![s] = @ + 1]

\* The caller gives recovery up.
Waive(s) == Move(s, {"owed"}, "waived") /\ UNCHANGED attempts

\* Every path out: end() or a destructor.
End(s) == Move(s, {"open", "tried", "waived"}, "ended") /\ UNCHANGED attempts

Next == \E s \in Session : Shutdown(s) \/ Attempt(s) \/ Waive(s) \/ End(s)

Spec == Init /\ [][Next]_vars
=============================================================================
