--------------------------- MODULE RecoveryProofs ---------------------------
(***************************************************************************)
(* Proofs about Recovery, for any number of sessions: the invariants of    *)
(* the blocking typestates, and that they implement RecoveryContract, so   *)
(* that no way out of a session skips the restart that is owed.            *)
(*                                                                         *)
(* The refinement rests on AttemptsFollow: the contract's phase is read    *)
(* off the typestate and the number of restarts, and the invariant says    *)
(* which numbers go with which typestate.                                  *)
(***************************************************************************)
EXTENDS Recovery, TLAPS

Invariant == TypeOK /\ RecoveryInvariant

USE RecoveryAssumption DEF Armed, Native, Become

LEMMA InitInvariant == Init => Invariant
BY DEF Init, Invariant, TypeOK, RecoveryInvariant, OutcomesHonest, LeaseScoped,
    OneRestart, AttemptsFollow, PanicFollows, State, Outcome

----------------------------------------------------------------------------
(***************************************************************************)
(* Every action keeps the invariant.                                       *)
(***************************************************************************)

\* The pending value comes into being with no restart attempted.
LEMMA ShutdownKeeps ==
    ASSUME Invariant, NEW s \in Session, Shutdown(s)
    PROVE  Invariant'
<1>1. TypeOK'
    BY DEF Invariant, TypeOK, RecoveryInvariant, AttemptsFollow, Shutdown, State,
        Outcome
<1>2. OutcomesHonest'
    BY DEF Invariant, TypeOK, RecoveryInvariant, OutcomesHonest, Shutdown
<1>3. LeaseScoped'
    BY DEF Invariant, TypeOK, RecoveryInvariant, LeaseScoped, Shutdown
<1>4. OneRestart' /\ \A t \in Session : AttemptsFollow(t)' /\ PanicFollows(t)'
    BY DEF Invariant, TypeOK, RecoveryInvariant, OneRestart, AttemptsFollow,
        PanicFollows, Shutdown
<1> QED BY <1>1, <1>2, <1>3, <1>4 DEF Invariant, RecoveryInvariant

\* The first and only restart of a pending value whose caller is not unwinding.
LEMMA RestartKeeps ==
    ASSUME Invariant, NEW s \in Session, Restart(s)
    PROVE  Invariant'
<1>1. TypeOK'
    BY DEF Invariant, TypeOK, RecoveryInvariant, AttemptsFollow, Restart, State,
        Outcome
<1>2. OutcomesHonest'
    BY DEF Invariant, TypeOK, RecoveryInvariant, OutcomesHonest, Restart
<1>3. LeaseScoped'
    BY DEF Invariant, TypeOK, RecoveryInvariant, LeaseScoped, Restart
<1>4. OneRestart' /\ \A t \in Session : AttemptsFollow(t)' /\ PanicFollows(t)'
    BY DEF Invariant, TypeOK, RecoveryInvariant, OneRestart, AttemptsFollow,
        PanicFollows, Restart
<1> QED BY <1>1, <1>2, <1>3, <1>4 DEF Invariant, RecoveryInvariant

LEMMA LeaveStoppedKeeps ==
    ASSUME Invariant, NEW s \in Session, LeaveStopped(s)
    PROVE  Invariant'
<1>1. TypeOK'
    BY DEF Invariant, TypeOK, RecoveryInvariant, AttemptsFollow, LeaveStopped, State,
        Outcome
<1>2. OutcomesHonest'
    BY DEF Invariant, TypeOK, RecoveryInvariant, OutcomesHonest, LeaveStopped
<1>3. LeaseScoped'
    BY DEF Invariant, TypeOK, RecoveryInvariant, LeaseScoped, LeaveStopped
<1>4. OneRestart' /\ \A t \in Session : AttemptsFollow(t)' /\ PanicFollows(t)'
    BY DEF Invariant, TypeOK, RecoveryInvariant, OneRestart, AttemptsFollow,
        PanicFollows, LeaveStopped
<1> QED BY <1>1, <1>2, <1>3, <1>4 DEF Invariant, RecoveryInvariant

LEMMA CloseKeeps ==
    ASSUME Invariant, NEW s \in Session, Close(s)
    PROVE  Invariant'
<1>1. TypeOK'
    BY DEF Invariant, TypeOK, RecoveryInvariant, AttemptsFollow, Close, State, Outcome
<1>2. OutcomesHonest'
    BY DEF Invariant, TypeOK, RecoveryInvariant, OutcomesHonest, Close
<1>3. LeaseScoped'
    BY DEF Invariant, TypeOK, RecoveryInvariant, LeaseScoped, Close
<1>4. OneRestart' /\ \A t \in Session : AttemptsFollow(t)' /\ PanicFollows(t)'
    BY DEF Invariant, TypeOK, RecoveryInvariant, OneRestart, AttemptsFollow,
        PanicFollows, Close
<1> QED BY <1>1, <1>2, <1>3, <1>4 DEF Invariant, RecoveryInvariant

\* The callback's reports only mark the operation that holds the lease.
LEMMA MisreportKeeps ==
    ASSUME Invariant, NEW s \in Session, Misreport(s)
    PROVE  Invariant'
<1>1. TypeOK'
    BY DEF Invariant, TypeOK, RecoveryInvariant, AttemptsFollow, Misreport, State,
        Outcome
<1>2. OutcomesHonest'
    BY DEF Invariant, TypeOK, RecoveryInvariant, OutcomesHonest, Misreport
<1>3. LeaseScoped'
    BY DEF Invariant, TypeOK, RecoveryInvariant, LeaseScoped, Misreport
<1>4. OneRestart' /\ \A t \in Session : AttemptsFollow(t)' /\ PanicFollows(t)'
    BY DEF Invariant, TypeOK, RecoveryInvariant, OneRestart, AttemptsFollow,
        PanicFollows, Misreport
<1> QED BY <1>1, <1>2, <1>3, <1>4 DEF Invariant, RecoveryInvariant

LEMMA CallbackPanicsKeeps ==
    ASSUME Invariant, NEW s \in Session, CallbackPanics(s)
    PROVE  Invariant'
<1>1. TypeOK'
    BY DEF Invariant, TypeOK, RecoveryInvariant, AttemptsFollow, CallbackPanics,
        State, Outcome
<1>2. OutcomesHonest'
    BY DEF Invariant, TypeOK, RecoveryInvariant, OutcomesHonest, CallbackPanics
<1>3. LeaseScoped'
    BY DEF Invariant, TypeOK, RecoveryInvariant, LeaseScoped, CallbackPanics
<1>4. OneRestart' /\ \A t \in Session : AttemptsFollow(t)' /\ PanicFollows(t)'
    BY DEF Invariant, TypeOK, RecoveryInvariant, OneRestart, AttemptsFollow,
        PanicFollows, CallbackPanics
<1> QED BY <1>1, <1>2, <1>3, <1>4 DEF Invariant, RecoveryInvariant

\* The destructor's restart: the first, or the second after a panic.
LEMMA DropPendingKeeps ==
    ASSUME Invariant, NEW s \in Session, DropPending(s)
    PROVE  Invariant'
<1>1. TypeOK'
    BY DEF Invariant, TypeOK, RecoveryInvariant, AttemptsFollow, DropPending, State,
        Outcome
<1>2. OutcomesHonest'
    BY DEF Invariant, TypeOK, RecoveryInvariant, OutcomesHonest, DropPending
<1>3. LeaseScoped'
    BY DEF Invariant, TypeOK, RecoveryInvariant, LeaseScoped, DropPending
<1>4. OneRestart' /\ \A t \in Session : AttemptsFollow(t)' /\ PanicFollows(t)'
    BY DEF Invariant, TypeOK, RecoveryInvariant, OneRestart, AttemptsFollow,
        PanicFollows, DropPending
<1> QED BY <1>1, <1>2, <1>3, <1>4 DEF Invariant, RecoveryInvariant

LEMMA DropReturnKeeps ==
    ASSUME Invariant, NEW s \in Session, DropReturn(s)
    PROVE  Invariant'
<1>1. TypeOK'
    BY DEF Invariant, TypeOK, RecoveryInvariant, AttemptsFollow, DropReturn, State,
        Outcome
<1>2. OutcomesHonest'
    BY DEF Invariant, TypeOK, RecoveryInvariant, OutcomesHonest, DropReturn
<1>3. LeaseScoped'
    BY DEF Invariant, TypeOK, RecoveryInvariant, LeaseScoped, DropReturn
<1>4. OneRestart' /\ \A t \in Session : AttemptsFollow(t)' /\ PanicFollows(t)'
    BY DEF Invariant, TypeOK, RecoveryInvariant, OneRestart, AttemptsFollow,
        PanicFollows, DropReturn
<1> QED BY <1>1, <1>2, <1>3, <1>4 DEF Invariant, RecoveryInvariant

\* With the lease or without: in the second case nothing but the state changes.
LEMMA ShutdownWithProgressKeeps ==
    ASSUME Invariant, NEW s \in Session, ShutdownWithProgress(s)
    PROVE  Invariant'
<1>1. TypeOK'
    BY DEF Invariant, TypeOK, RecoveryInvariant, AttemptsFollow, ShutdownWithProgress, Install, Refused,
        State, Outcome
<1>2. OutcomesHonest'
    BY DEF Invariant, TypeOK, RecoveryInvariant, OutcomesHonest, ShutdownWithProgress, Install, Refused
<1>3. LeaseScoped'
    BY DEF Invariant, TypeOK, RecoveryInvariant, LeaseScoped, ShutdownWithProgress, Install, Refused
<1>4. OneRestart' /\ \A t \in Session : AttemptsFollow(t)' /\ PanicFollows(t)'
    BY DEF Invariant, TypeOK, RecoveryInvariant, OneRestart, AttemptsFollow,
        PanicFollows, ShutdownWithProgress, Install, Refused
<1> QED BY <1>1, <1>2, <1>3, <1>4 DEF Invariant, RecoveryInvariant

LEMMA RestartWithProgressKeeps ==
    ASSUME Invariant, NEW s \in Session, RestartWithProgress(s)
    PROVE  Invariant'
<1>1. TypeOK'
    <2>1. attempts[s] = 0
        BY DEF Invariant, RecoveryInvariant, AttemptsFollow, RestartWithProgress, Install, Refused
    <2>2. attempts' \in [Session -> 0 .. 2]
        BY <2>1 DEF Invariant, TypeOK, RestartWithProgress, Install, Refused
    <2>3. state' \in [Session -> State]
        BY DEF Invariant, TypeOK, RestartWithProgress, Install, Refused, State
    <2>4. lease' \in Session \cup {None} /\ malformed' \in [Session -> BOOLEAN]
        BY DEF Invariant, TypeOK, RestartWithProgress, Install, Refused
    <2> QED BY <2>2, <2>3, <2>4 DEF Invariant, TypeOK, RestartWithProgress, Install, Refused
<1>2. OutcomesHonest'
    BY DEF Invariant, TypeOK, RecoveryInvariant, OutcomesHonest, RestartWithProgress, Install, Refused
<1>3. LeaseScoped'
    BY DEF Invariant, TypeOK, RecoveryInvariant, LeaseScoped, RestartWithProgress, Install, Refused
<1>4. OneRestart' /\ \A t \in Session : AttemptsFollow(t)' /\ PanicFollows(t)'
    BY DEF Invariant, TypeOK, RecoveryInvariant, OneRestart, AttemptsFollow,
        PanicFollows, RestartWithProgress, Install, Refused
<1> QED BY <1>1, <1>2, <1>3, <1>4 DEF Invariant, RecoveryInvariant

\* The native call returns: what is retained is what happened, and a panic that is
\* resumed retains nothing.
LEMMA ShutdownReturnKeeps ==
    ASSUME Invariant, NEW s \in Session, NEW ok \in BOOLEAN, ShutdownReturn(s, ok)
    PROVE  Invariant'
<1>1. TypeOK'
    <2>1. Answer(Succeeded(s, ok)) \in Outcome
        BY DEF Answer, Outcome
    <2>2. truth' \in [Session -> [shutdown : Outcome, restart : Outcome]]
        BY <2>1 DEF Invariant, TypeOK, ShutdownReturn
    <2>3. state' \in [Session -> State]
        BY DEF Invariant, TypeOK, ShutdownReturn, State
    <2>5. shutdown' \in [Session -> Outcome]
        BY <2>1 DEF Invariant, TypeOK, ShutdownReturn
    <2>4. lease' \in Session \cup {None}
        BY DEF Invariant, TypeOK, ShutdownReturn, FreeLease
    <2> QED BY <2>2, <2>3, <2>4, <2>5 DEF Invariant, TypeOK, ShutdownReturn
<1>2. OutcomesHonest'
    BY DEF Invariant, TypeOK, RecoveryInvariant, OutcomesHonest, ShutdownReturn,
        FreeLease, Succeeded
<1>3. LeaseScoped'
    BY DEF Invariant, TypeOK, RecoveryInvariant, LeaseScoped, ShutdownReturn,
        FreeLease, Succeeded
<1>4. OneRestart' /\ \A t \in Session : AttemptsFollow(t)' /\ PanicFollows(t)'
    BY DEF Invariant, TypeOK, RecoveryInvariant, OneRestart, AttemptsFollow,
        PanicFollows, ShutdownReturn, FreeLease, Succeeded
<1> QED BY <1>1, <1>2, <1>3, <1>4 DEF Invariant, RecoveryInvariant

LEMMA RestartReturnKeeps ==
    ASSUME Invariant, NEW s \in Session, NEW ok \in BOOLEAN, RestartReturn(s, ok)
    PROVE  Invariant'
<1>1. TypeOK'
    <2>1. Answer(Succeeded(s, ok)) \in Outcome
        BY DEF Answer, Outcome
    <2>2. truth' \in [Session -> [shutdown : Outcome, restart : Outcome]]
        BY <2>1 DEF Invariant, TypeOK, RestartReturn
    <2>3. state' \in [Session -> State]
        BY DEF Invariant, TypeOK, RestartReturn, State
    <2>5. restart' \in [Session -> Outcome]
        BY <2>1 DEF Invariant, TypeOK, RestartReturn
    <2>4. lease' \in Session \cup {None}
        BY DEF Invariant, TypeOK, RestartReturn, FreeLease
    <2> QED BY <2>2, <2>3, <2>4, <2>5 DEF Invariant, TypeOK, RestartReturn
<1>2. OutcomesHonest'
    BY DEF Invariant, TypeOK, RecoveryInvariant, OutcomesHonest, RestartReturn,
        FreeLease, Succeeded
<1>3. LeaseScoped'
    BY DEF Invariant, TypeOK, RecoveryInvariant, LeaseScoped, RestartReturn,
        FreeLease, Succeeded
<1>4. OneRestart' /\ \A t \in Session : AttemptsFollow(t)' /\ PanicFollows(t)'
    BY DEF Invariant, TypeOK, RecoveryInvariant, OneRestart, AttemptsFollow,
        PanicFollows, RestartReturn, FreeLease, Succeeded
<1> QED BY <1>1, <1>2, <1>3, <1>4 DEF Invariant, RecoveryInvariant

LEMMA StepKeeps == Invariant /\ [Next]_vars => Invariant'
<1>1. ASSUME Invariant, NEW s \in Session, Step(s) PROVE Invariant'
    BY <1>1, ShutdownKeeps, ShutdownWithProgressKeeps, RestartKeeps,
        RestartWithProgressKeeps, LeaveStoppedKeeps, CloseKeeps, MisreportKeeps,
        CallbackPanicsKeeps, ShutdownReturnKeeps, RestartReturnKeeps,
        DropPendingKeeps, DropReturnKeeps DEF Step
<1>2. ASSUME Invariant, UNCHANGED vars PROVE Invariant'
    BY <1>2 DEF vars, Invariant, TypeOK, RecoveryInvariant, OutcomesHonest,
        LeaseScoped, OneRestart, AttemptsFollow, PanicFollows
<1> QED BY <1>1, <1>2 DEF Next, Terminated

----------------------------------------------------------------------------
(***************************************************************************)
(* The invariants.                                                         *)
(***************************************************************************)

THEOREM RecoveryInvariantHolds == Spec => []Invariant
BY InitInvariant, StepKeeps, PTL DEF Spec

\* Every session is in one of its typestates, with at most two restarts.
THEOREM RecoveryTypeCorrect == Spec => []TypeOK
BY RecoveryInvariantHolds, PTL DEF Invariant

\* A retained success is a success of Windows with well-formed progress
\* (session.rs:333, :271, :401).
THEOREM OutcomesAreHonest == Spec => []OutcomesHonest
BY RecoveryInvariantHolds, PTL DEF Invariant, RecoveryInvariant

\* The process-global callback lease is held across a native call only (sys.rs:820).
THEOREM LeaseIsScoped == Spec => []LeaseScoped
BY RecoveryInvariantHolds, PTL DEF Invariant, RecoveryInvariant

\* One restart, a second one only after a callback panicked, none after leave_stopped
\* (session.rs:369, :390, :447).
THEOREM RestartIsOnce == Spec => []OneRestart
BY RecoveryInvariantHolds, PTL DEF Invariant, RecoveryInvariant

----------------------------------------------------------------------------
(***************************************************************************)
(* Refinement.                                                             *)
(***************************************************************************)

\* A step of one session moves its phase alone.
LEMMA PhaseMoves ==
    ASSUME Invariant, NEW s \in Session,
           \A t \in Session \ {s} : state'[t] = state[t] /\ attempts'[t] = attempts[t]
    PROVE  phase' = [phase EXCEPT ![s] = PhaseOf(state'[s], attempts'[s])]
BY DEF phase

\* Every step is one of the contract, or none.
LEMMA StepRefines ==
    ASSUME Invariant, NEW s \in Session, Step(s)
    PROVE  Contract!Next \/ UNCHANGED <<phase, attempts>>
<1> DEFINE to == PhaseOf(state'[s], attempts'[s])
<1>1. attempts \in [Session -> 0 .. 2] /\ state \in [Session -> State]
    BY DEF Invariant, TypeOK
<1>2. phase[s] = PhaseOf(state[s], attempts[s])
    BY DEF phase
<1>3. AttemptsFollow(s)
    BY DEF Invariant, RecoveryInvariant
<1>4. ASSUME Shutdown(s) \/ (ShutdownWithProgress(s) /\ state'[s] = "shutting")
      PROVE  Contract!Shutdown(s)
    <2>1. phase' = [phase EXCEPT ![s] = to]
        BY <1>1, <1>4, PhaseMoves DEF Shutdown, ShutdownWithProgress, Install, Refused
    <2>2. phase[s] = "open" /\ to = "owed" /\ attempts' = attempts
        BY <1>1, <1>2, <1>3, <1>4 DEF Shutdown, ShutdownWithProgress, Install, Refused, PhaseOf,
            AttemptsFollow
    <2> QED BY <2>1, <2>2 DEF Contract!Shutdown, Contract!Move
<1>5. ASSUME \/ Restart(s) \/ DropPending(s)
             \/ RestartWithProgress(s) /\ state'[s] = "restarting"
      PROVE  Contract!Attempt(s)
    <2>1. /\ attempts' = [attempts EXCEPT ![s] = @ + 1]
          /\ \E at \in {"restarting", "recovering"} : state' = [state EXCEPT ![s] = at]
        BY <1>1, <1>5 DEF Restart, DropPending, RestartWithProgress, Install, Refused
    <2>2. phase' = [phase EXCEPT ![s] = to]
        BY <1>1, <2>1, PhaseMoves
    <2>3. state[s] \in {"pending", "pendingBack", "unwinding"}
        BY <1>5 DEF Restart, DropPending, RestartWithProgress, Install, Refused
    <2>4. phase[s] \in {"owed", "tried"} /\ to = "tried"
        BY <1>1, <1>2, <2>1, <2>3 DEF PhaseOf
    <2> QED BY <2>1, <2>2, <2>4 DEF Contract!Attempt, Contract!Move
<1>6. ASSUME LeaveStopped(s) PROVE Contract!Waive(s)
    <2>1. phase' = [phase EXCEPT ![s] = to]
        BY <1>1, <1>6, PhaseMoves DEF LeaveStopped
    <2>2. phase[s] = "owed" /\ to = "waived" /\ attempts' = attempts
        BY <1>1, <1>2, <1>3, <1>6 DEF LeaveStopped, PhaseOf, AttemptsFollow
    <2> QED BY <2>1, <2>2 DEF Contract!Waive, Contract!Move
<1>7. ASSUME Close(s) \/ DropReturn(s) PROVE Contract!End(s)
    <2>1. phase' = [phase EXCEPT ![s] = to]
        BY <1>1, <1>7, PhaseMoves DEF Close, DropReturn
    <2>2. phase[s] \in {"open", "tried", "waived"} /\ to = "ended" /\ attempts' = attempts
        BY <1>1, <1>2, <1>3, <1>7 DEF Close, DropReturn, PhaseOf, AttemptsFollow
    <2> QED BY <2>1, <2>2 DEF Contract!End, Contract!Move
\* A method refused, a report, and a native return: the promise is what it was.
<1>8. ASSUME \/ Misreport(s) \/ CallbackPanics(s)
             \/ ShutdownWithProgress(s) /\ state'[s] # "shutting"
             \/ RestartWithProgress(s) /\ state'[s] # "restarting"
             \/ \E ok \in BOOLEAN : ShutdownReturn(s, ok) \/ RestartReturn(s, ok)
      PROVE  UNCHANGED <<phase, attempts>>
    <2>1. attempts' = attempts /\ \E at \in State : state' = [state EXCEPT ![s] = at]
        BY <1>1, <1>8 DEF Misreport, CallbackPanics, ShutdownWithProgress,
            RestartWithProgress, Install, Refused, ShutdownReturn, RestartReturn, State
    <2>2. phase' = [phase EXCEPT ![s] = to]
        BY <1>1, <2>1, PhaseMoves
    <2>3. to = phase[s]
        BY <1>1, <1>2, <1>3, <1>8 DEF Misreport, CallbackPanics, ShutdownWithProgress,
            RestartWithProgress, Install, Refused, ShutdownReturn, RestartReturn, PhaseOf,
            AttemptsFollow
    <2> QED BY <2>1, <2>2, <2>3 DEF phase
<1> QED BY <1>4, <1>5, <1>6, <1>7, <1>8 DEF Step, Contract!Next

\* The blocking typestates implement the contract: after a shutdown attempt a session
\* does not end before a restart attempt or an explicit leave_stopped, whichever way its
\* methods are left (session.rs:325, :447).
THEOREM RecoveryImplementsContract == Spec => RecoveryContractHolds
<1>1. Init => Contract!Init
    BY DEF Init, phase, PhaseOf, Contract!Init
<1>2. Invariant /\ [Next]_vars => [Contract!Next]_<<phase, attempts>>
    <2>1. UNCHANGED vars => UNCHANGED <<phase, attempts>>
        BY DEF vars, phase
    <2> QED BY <2>1, StepRefines DEF Next, Terminated
<1> QED BY <1>1, <1>2, RecoveryInvariantHolds, PTL DEF Spec, RecoveryContractHolds,
    Contract!Spec, Contract!vars
=============================================================================
