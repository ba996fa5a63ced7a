------------------------------ MODULE Recovery ------------------------------
(***************************************************************************)
(* The blocking typestates of a primary installer (src/src/session.rs):    *)
(* RestartSession, RestartPending, RecoveryCompletion and                  *)
(* OperationNotStarted, for several sessions, each driven by a thread of   *)
(* its own, that compete for the one callback lease of the process         *)
(* (module CallbackLease looks inside the lease).                          *)
(*                                                                         *)
(* A typestate value is consumed by its methods, so that "the value the    *)
(* session is now" is one state per session; where the value is merely     *)
(* dropped its destructor is what happens next.                            *)
(***************************************************************************)
EXTENDS Naturals

CONSTANTS
    Session,    \* primary-installer sessions
    None        \* nobody holds the callback lease

ASSUME RecoveryAssumption == None \notin Session

VARIABLES
    state,          \* the typestate each session is in
    lease,          \* the session whose progress callback is installed
    panicked,       \* CallbackState.panic: the user's callback panicked
    malformed,      \* Windows reported progress that is not increasing
    shutdown,       \* the retained shutdown outcome
    restart,        \* the retained restart outcome
    truth,          \* history: what the two native operations really returned
    attempts        \* history: RmRestart calls made

vars == <<state, lease, panicked, malformed, shutdown, restart, truth, attempts>>

(***************************************************************************)
(* "session" and "pending" are RestartSession and RestartPending; "...Back" *)
(* is the same value inside an OperationNotStarted.  "shutting" and        *)
(* "restarting" are the native calls of the methods, "unwinding" a panic   *)
(* that leaves the method with an armed RestartPending, "recovering" the   *)
(* restart of its destructor, "completed" and "stopped" the                *)
(* RecoveryCompletion after a restart and after leave_stopped.             *)
(***************************************************************************)
Armed == {"pending", "pendingBack"}
Native == {"shutting", "restarting"}
State ==
    {"session", "sessionBack", "unwinding", "recovering", "completed", "stopped", "gone"}
        \cup Armed \cup Native

Outcome == {"none", "succeeded", "failed"}

TypeOK ==
    /\ state \in [Session -> State]
    /\ lease \in Session \cup {None}
    /\ panicked \in [Session -> BOOLEAN]
    /\ malformed \in [Session -> BOOLEAN]
    /\ shutdown \in [Session -> Outcome]
    /\ restart \in [Session -> Outcome]
    /\ truth \in [Session -> [shutdown : Outcome, restart : Outcome]]
    /\ attempts \in [Session -> 0 .. 2]

\* RestartSession::new.
Init ==
    /\ state = [s \in Session |-> "session"]
    /\ lease = None
    /\ panicked = [s \in Session |-> FALSE]
    /\ malformed = [s \in Session |-> FALSE]
    /\ shutdown = [s \in Session |-> "none"]
    /\ restart = [s \in Session |-> "none"]
    /\ truth = [s \in Session |-> [shutdown |-> "none", restart |-> "none"]]
    /\ attempts = [s \in Session |-> 0]

Become(s, to) == state' = [state EXCEPT ![s] = to]
Answer(ok) == IF ok THEN "succeeded" ELSE "failed"

----------------------------------------------------------------------------
(***************************************************************************)
(* The methods.                                                            *)
(***************************************************************************)

\* shutdown_with_options: the pending value exists, armed and with a default
\* outcome of success, before RmShutdown is called.
Shutdown(s) ==
    /\ state[s] \in {"session", "sessionBack"}
    /\ Become(s, "shutting")
    /\ shutdown' = [shutdown EXCEPT ![s] = "succeeded"]
    /\ UNCHANGED <<lease, panicked, malformed, restart, truth, attempts>>

\* Taking the lease may be refused although it is free: try_lock also gives up while
\* another thread looks into the slot for a moment (module CallbackLease).
Refused(s, back) == Become(s, back) /\ UNCHANGED <<lease, malformed>>
Install(s) ==
    /\ lease = None
    /\ lease' = s
    /\ malformed' = [malformed EXCEPT ![s] = FALSE]

\* shutdown_with_progress: without the lease nothing is called, and the session
\* is taken out of the pending value again before that is dropped.
ShutdownWithProgress(s) ==
    /\ state[s] \in {"session", "sessionBack"}
    /\ \/ /\ Install(s)
          /\ Become(s, "shutting")
          /\ shutdown' = [shutdown EXCEPT ![s] = "succeeded"]
       \/ Refused(s, "sessionBack") /\ UNCHANGED shutdown
    /\ UNCHANGED <<panicked, restart, truth, attempts>>

\* RestartPending::restart, also from an OperationNotStarted.
Restart(s) ==
    /\ state[s] \in Armed
    /\ Become(s, "restarting")
    /\ attempts' = [attempts EXCEPT ![s] = @ + 1]
    /\ UNCHANGED <<lease, panicked, malformed, shutdown, restart, truth>>

RestartWithProgress(s) ==
    /\ state[s] \in Armed
    /\ \/ /\ Install(s)
          /\ Become(s, "restarting")
          /\ attempts' = [attempts EXCEPT ![s] = @ + 1]
       \/ Refused(s, "pendingBack") /\ UNCHANGED attempts
    /\ UNCHANGED <<panicked, shutdown, restart, truth>>

LeaveStopped(s) ==
    /\ state[s] \in Armed
    /\ Become(s, "stopped")
    /\ UNCHANGED <<lease, panicked, malformed, shutdown, restart, truth, attempts>>

\* end() of RestartSession and RecoveryCompletion, or dropping either: the native
\* session is ended (module SessionHandle) without another restart.
Close(s) ==
    /\ state[s] \in {"session", "sessionBack", "completed", "stopped"}
    /\ Become(s, "gone")
    /\ UNCHANGED <<lease, panicked, malformed, shutdown, restart, truth, attempts>>

----------------------------------------------------------------------------
(***************************************************************************)
(* While the native call of s runs with a callback: deliver_progress finds *)
(* a value out of range or not increasing, after which it delivers no      *)
(* more, or the user's callback panics, after which it is not called any   *)
(* more.                                                                   *)
(***************************************************************************)
Misreport(s) ==
    /\ lease = s /\ state[s] \in Native
    /\ ~malformed[s] /\ ~panicked[s]
    /\ malformed' = [malformed EXCEPT ![s] = TRUE]
    /\ UNCHANGED <<state, lease, panicked, shutdown, restart, truth, attempts>>

CallbackPanics(s) ==
    /\ lease = s /\ state[s] \in Native
    /\ ~malformed[s] /\ ~panicked[s]
    /\ panicked' = [panicked EXCEPT ![s] = TRUE]
    /\ UNCHANGED <<state, lease, malformed, shutdown, restart, truth, attempts>>

\* What the operation came to: it succeeded, and if it reported progress, properly.
Succeeded(s, ok) == ok /\ (lease = s => ~malformed[s])
FreeLease(s) == lease' = IF lease = s THEN None ELSE lease

\* A variant that leaves by the panic without releasing the lease.
ShutdownReturnHoldingLease(s, ok) ==
    /\ state[s] = "shutting"
    /\ lease' = IF lease = s /\ ~panicked[s] THEN None ELSE lease
    /\ Become(s, IF panicked[s] THEN "unwinding" ELSE "pending")
    /\ shutdown' = [shutdown EXCEPT ![s] = Answer(Succeeded(s, ok))]
    /\ truth' = [truth EXCEPT ![s].shutdown = Answer(Succeeded(s, ok))]
    /\ UNCHANGED <<panicked, malformed, restart, attempts>>

\* A variant that keeps the default outcome when progress was malformed.
ShutdownReturnIgnoringProgress(s, ok) ==
    /\ state[s] = "shutting"
    /\ FreeLease(s)
    /\ Become(s, IF panicked[s] THEN "unwinding" ELSE "pending")
    /\ shutdown' = [shutdown EXCEPT ![s] = Answer(ok)]
    /\ truth' = [truth EXCEPT ![s].shutdown = Answer(Succeeded(s, ok))]
    /\ UNCHANGED <<panicked, malformed, restart, attempts>>

(***************************************************************************)
(* RmShutdown returns.  The lease is dropped first; a captured panic is    *)
(* resumed and finds the pending value armed; else the outcome is retained *)
(* and the pending value returned.                                         *)
(***************************************************************************)
ShutdownReturn(s, ok) ==
    /\ state[s] = "shutting"
    /\ FreeLease(s)
    /\ truth' = [truth EXCEPT ![s].shutdown = Answer(Succeeded(s, ok))]
    /\ IF panicked[s]
       THEN Become(s, "unwinding") /\ UNCHANGED shutdown
       ELSE /\ Become(s, "pending")
            /\ shutdown' = [shutdown EXCEPT ![s] = Answer(Succeeded(s, ok))]
    /\ UNCHANGED <<panicked, malformed, restart, attempts>>

\* A variant that stays armed when the restart failed.
RestartReturnStillArmed(s, ok) ==
    /\ state[s] = "restarting"
    /\ FreeLease(s)
    /\ truth' = [truth EXCEPT ![s].restart = Answer(Succeeded(s, ok))]
    /\ Become(s, IF panicked[s] THEN "unwinding" ELSE IF ok THEN "completed" ELSE "pending")
    /\ restart' = [restart EXCEPT ![s] = Answer(Succeeded(s, ok))]
    /\ UNCHANGED <<panicked, malformed, shutdown, attempts>>

\* RmRestart returns.  The pending value still owns the session when a panic
\* leaves restart_with_progress, and its destructor restarts once more.
RestartReturn(s, ok) ==
    /\ state[s] = "restarting"
    /\ FreeLease(s)
    /\ truth' = [truth EXCEPT ![s].restart = Answer(Succeeded(s, ok))]
    /\ IF panicked[s]
       THEN Become(s, "unwinding") /\ UNCHANGED restart
       ELSE /\ Become(s, "completed")
            /\ restart' = [restart EXCEPT ![s] = Answer(Succeeded(s, ok))]
    /\ UNCHANGED <<panicked, malformed, shutdown, attempts>>

----------------------------------------------------------------------------
(***************************************************************************)
(* Dropping an armed RestartPending: one restart, without a callback, its  *)
(* result ignored; then the session is ended.                              *)
(***************************************************************************)
\* A variant of the destructor that recovers after successful shutdowns only.
DropPendingIfSucceeded(s) ==
    /\ state[s] \in Armed \cup {"unwinding"}
    /\ IF shutdown[s] = "succeeded"
       THEN Become(s, "recovering") /\ attempts' = [attempts EXCEPT ![s] = @ + 1]
       ELSE Become(s, "gone") /\ UNCHANGED attempts
    /\ UNCHANGED <<lease, panicked, malformed, shutdown, restart, truth>>

DropPending(s) ==
    /\ state[s] \in Armed \cup {"unwinding"}
    /\ Become(s, "recovering")
    /\ attempts' = [attempts EXCEPT ![s] = @ + 1]
    /\ UNCHANGED <<lease, panicked, malformed, shutdown, restart, truth>>

DropReturn(s) ==
    /\ state[s] = "recovering"
    /\ Become(s, "gone")
    /\ UNCHANGED <<lease, panicked, malformed, shutdown, restart, truth, attempts>>

----------------------------------------------------------------------------
Terminated == (\A s \in Session : state[s] = "gone") /\ UNCHANGED vars

Step(s) ==
    \/ Shutdown(s) \/ ShutdownWithProgress(s)
    \/ Restart(s) \/ RestartWithProgress(s) \/ LeaveStopped(s) \/ Close(s)
    \/ Misreport(s) \/ CallbackPanics(s)
    \/ \E ok \in BOOLEAN : ShutdownReturn(s, ok) \/ RestartReturn(s, ok)
    \/ DropPending(s) \/ DropReturn(s)

Next == (\E s \in Session : Step(s)) \/ Terminated

Spec == Init /\ [][Next]_vars

(***************************************************************************)
(* Native operations return, scopes end and unwinding goes on; a caller may *)
(* do anything with a pending value but keep it for ever.                  *)
(***************************************************************************)
Progress(s) ==
    \/ \E ok \in BOOLEAN : ShutdownReturn(s, ok) \/ RestartReturn(s, ok)
    \/ Restart(s) \/ LeaveStopped(s) \/ DropPending(s) \/ DropReturn(s)

FairSpec == Spec /\ \A s \in Session : WF_vars(Progress(s))

----------------------------------------------------------------------------
(***************************************************************************)
(* Refinement: how far each session is in the contract.                    *)
(***************************************************************************)
PhaseOf(at, tries) ==
    IF at = "gone" THEN "ended"
    ELSE IF at = "stopped" THEN "waived"
    ELSE IF tries > 0 THEN "tried"
    ELSE IF at \in {"session", "sessionBack"} THEN "open" ELSE "owed"
phase == [s \in Session |-> PhaseOf(state[s], attempts[s])]

Contract == INSTANCE RecoveryContract

\* After a shutdown attempt no session ends without a restart attempt or an
\* explicit leave_stopped: not by `?`, a panic of the callback, a refused callback
\* lease or a failed shutdown (session.rs:325, :447).
RecoveryContractHolds == Contract!Spec

----------------------------------------------------------------------------
(***************************************************************************)
(* Safety.                                                                 *)
(***************************************************************************)

\* A retained outcome tells what happened: success is only reported where Windows
\* succeeded and progress was well formed, although the pending value starts out
\* with a default of success (session.rs:333, :271, :401).
OutcomesHonest ==
    \A s \in Session :
        /\ state[s] \in Armed \cup {"restarting", "completed", "stopped"}
                => shutdown[s] = truth[s].shutdown
        /\ state[s] = "completed" => restart[s] = truth[s].restart

\* The process-global lease is only held across a native call: whichever way the
\* call was left, by a panic too, the next operation can have it (sys.rs:820).
LeaseScoped == \A s \in Session : lease = s => state[s] \in Native

\* One shutdown is recovered by one restart; a second one is only made when the
\* first one's callback panicked; none after leave_stopped (session.rs:369, :390, :447).
OneRestart ==
    \A s \in Session :
        /\ attempts[s] = 2 => panicked[s]
        /\ state[s] = "stopped" => attempts[s] = 0

(***************************************************************************)
(* The inductive invariant: how often a restart was attempted follows from *)
(* where the session is, and where a panic can be.                         *)
(***************************************************************************)
AttemptsFollow(s) ==
    /\ state[s] \in {"session", "sessionBack", "shutting", "stopped"} \cup Armed
            => attempts[s] = 0
    /\ state[s] \in {"restarting", "completed"} => attempts[s] = 1
    /\ state[s] = "unwinding" => attempts[s] <= 1
    /\ state[s] = "recovering" => attempts[s] >= 1

PanicFollows(s) ==
    /\ panicked[s] => state[s] \in Native \cup {"unwinding", "recovering", "gone"}
    /\ state[s] = "unwinding" => panicked[s]

\* The count of restarts, the lease and the outcomes agree with the typestate of every
\* session, on every way through the methods (session.rs:239-447).
RecoveryInvariant ==
    /\ OutcomesHonest /\ LeaseScoped /\ OneRestart
    /\ \A s \in Session : AttemptsFollow(s) /\ PanicFollows(s)

----------------------------------------------------------------------------
(***************************************************************************)
(* Liveness.                                                               *)
(***************************************************************************)

\* After a shutdown attempt, recovery is attempted or given up: nothing blocks
\* it, above all not another session's hold on the callback lease.
RecoveryHappens ==
    \A s \in Session :
        state[s] = "shutting" ~> attempts[s] > 0 \/ state[s] = "stopped"
=============================================================================
