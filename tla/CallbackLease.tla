--------------------------- MODULE CallbackLease ---------------------------
(***************************************************************************)
(* The process-global callback slot (src/src/sys.rs: CALLBACK_SLOT,        *)
(* CallbackState, CallbackLease, callback_trampoline, run_with_callback)   *)
(* and what session.rs delivers through it (deliver_progress).             *)
(*                                                                         *)
(* Windows calls a bare function with a percentage, so the slot tells the  *)
(* trampoline whose callback to run: it holds a pointer to the             *)
(* CallbackState on the stack of the thread that is inside RmShutdown or   *)
(* RmRestart.  Trampoline calls come from threads of Windows.  The user's  *)
(* callback runs with the slot's mutex held, may panic, and may itself     *)
(* start an operation with progress.                                       *)
(***************************************************************************)
EXTENDS Naturals, Sequences, FiniteSets, Functions

CONSTANTS
    Thread,     \* threads that run operations with progress
    Call,       \* trampoline calls that can be in progress at once
    None,       \* nobody
    MaxPercent, \* the largest valid percentage (100); larger values are malformed
    MaxOps,     \* operations the threads run in all (a bound of the model)
    MaxReports  \* trampoline calls Windows makes for the last operations of the
                \* threads in all (a bound of the model)

ASSUME LeaseAssumption ==
    /\ None \notin Thread \cup Call
    /\ Thread \cap Call = {} /\ IsFiniteSet(Call)
    /\ MaxPercent \in Nat /\ MaxOps \in Nat /\ MaxReports \in Nat

VARIABLES
    mutex,      \* who holds CALLBACK_SLOT
    slot,       \* whose CallbackState it points to
    thread,     \* program counter of each thread
    ops,        \* operations begun by each thread
    succeeded,  \* the code the native operation of a thread returned
    panic,      \* CallbackState.panic: a payload was captured
    malformed,  \* the flag of deliver_progress
    delivered,  \* values given to the user's callback in this operation
    reported,   \* history: values Windows reported to this operation
    result,     \* what the last operation of a thread came to
    call,       \* trampoline calls: where, of which operation, with which value, on whom
    late        \* history: a trampoline call has outlived its native operation

vars == <<mutex, slot, thread, ops, succeeded, panic, malformed, delivered,
          reported, result, call, late>>

Percent == 0 .. MaxPercent + 1
Operation == Thread \X Nat
Result == {"none", "refused", "succeeded", "failed", "malformed", "panicked"}

\* The two quantities the model bounds.
OpsBegun == FoldFunction(+, 0, ops)
ReportsMade == FoldFunction(LAMBDA values, n : Len(values) + n, 0, reported)

Idle == [at |-> "none"]
Waiting(op, value) == [at |-> "waiting", op |-> op, value |-> value]

\* The operation a thread is in, and the thread's CallbackState is on its stack.
Current(t) == <<t, ops[t]>>
FrameLive(t) == thread[t] \in {"installing", "native", "dropping", "clearing", "done"}
InUserCode(c) == call[c].at \in {"running", "nesting", "leaving"}

CallState ==
    {Idle}
    \cup [at : {"waiting"}, op : Operation, value : Percent]
    \cup [at : {"running", "nesting", "leaving"}, op : Operation, on : Thread]

TypeOK ==
    /\ mutex \in Thread \cup Call \cup {None}
    /\ slot \in Thread \cup {None}
    /\ thread \in [Thread ->
            {"idle", "installing", "native", "dropping", "clearing", "done"}]
    /\ ops \in [Thread -> Nat]
    /\ succeeded \in [Thread -> BOOLEAN]
    /\ panic \in [Thread -> BOOLEAN]
    /\ malformed \in [Thread -> BOOLEAN]
    /\ delivered \in [Thread -> Seq(0 .. MaxPercent)]
    /\ reported \in [Thread -> Seq(Percent)]
    /\ result \in [Thread -> Result]
    /\ call \in [Call -> CallState]
    /\ late \in BOOLEAN

Init ==
    /\ mutex = None /\ slot = None /\ late = FALSE
    /\ thread = [t \in Thread |-> "idle"]
    /\ ops = [t \in Thread |-> 0]
    /\ succeeded = [t \in Thread |-> FALSE]
    /\ panic = [t \in Thread |-> FALSE]
    /\ malformed = [t \in Thread |-> FALSE]
    /\ delivered = [t \in Thread |-> <<>>]
    /\ reported = [t \in Thread |-> <<>>]
    /\ result = [t \in Thread |-> "none"]
    /\ call = [c \in Call |-> Idle]

Goto(t, at) == thread' = [thread EXCEPT ![t] = at]

----------------------------------------------------------------------------
(***************************************************************************)
(* run_with_callback on thread t.                                          *)
(***************************************************************************)

\* CallbackLease::install: try_lock never waits.  (A variant waits for the mutex.)
BlockedWhileLocked(t) == FALSE
WouldBlock(t) == mutex # None

\* The state of the operation is made before the lease is asked for.
TryInstall(t) ==
    /\ thread[t] = "idle" /\ OpsBegun < MaxOps
    /\ ops' = [ops EXCEPT ![t] = @ + 1]
    /\ panic' = [panic EXCEPT ![t] = FALSE]
    /\ malformed' = [malformed EXCEPT ![t] = FALSE]
    /\ delivered' = [delivered EXCEPT ![t] = <<>>]
    /\ reported' = [reported EXCEPT ![t] = <<>>]
    /\ \/ /\ WouldBlock(t)
          /\ result' = [result EXCEPT ![t] = "refused"]
          /\ UNCHANGED <<mutex, thread>>
       \/ /\ mutex = None
          /\ mutex' = t
          /\ Goto(t, "installing")
          /\ result' = [result EXCEPT ![t] = "none"]
    /\ UNCHANGED <<slot, succeeded, call, late>>

\* With the mutex: an occupied slot refuses too, else the pointer is stored.
\* (A variant overwrites the slot of an operation in progress.)
InstallOver(t) ==
    /\ thread[t] = "installing"
    /\ mutex' = None
    /\ slot' = t
    /\ Goto(t, "native")
    /\ UNCHANGED <<ops, succeeded, panic, malformed, delivered, reported, result, call, late>>

Install(t) ==
    /\ thread[t] = "installing"
    /\ mutex' = None
    /\ IF slot = None
       THEN /\ slot' = t
            /\ Goto(t, "native")
            /\ UNCHANGED result
       ELSE /\ Goto(t, "idle")
            /\ result' = [result EXCEPT ![t] = "refused"]
            /\ UNCHANGED slot
    /\ UNCHANGED <<ops, succeeded, panic, malformed, delivered, reported, call, late>>

\* Windows returns, it may be before its last trampoline call does.
NativeReturn(t, ok) ==
    /\ thread[t] = "native"
    /\ late' = (late \/ \E c \in Call : call[c].at # "none" /\ call[c].op = Current(t))
    /\ succeeded' = [succeeded EXCEPT ![t] = ok]
    /\ Goto(t, "dropping")
    /\ UNCHANGED <<mutex, slot, ops, panic, malformed, delivered, reported, result, call>>

\* CallbackLease::drop takes the mutex, and so waits for a callback in progress.
\* (A variant clears the slot without it.)
LockDropAtOnce(t) ==
    /\ thread[t] = "dropping"
    /\ Goto(t, "clearing")
    /\ UNCHANGED <<mutex, slot, ops, succeeded, panic, malformed, delivered, reported, result, call, late>>

LockDrop(t) ==
    /\ thread[t] = "dropping"
    /\ mutex = None
    /\ mutex' = t
    /\ Goto(t, "clearing")
    /\ UNCHANGED <<slot, ops, succeeded, panic, malformed, delivered, reported, result, call, late>>

Clear(t) ==
    /\ thread[t] = "clearing"
    /\ slot' = None
    /\ mutex' = IF mutex = t THEN None ELSE mutex
    /\ Goto(t, "done")
    /\ UNCHANGED <<ops, succeeded, panic, malformed, delivered, reported, result, call, late>>

\* The captured panic is resumed, else the code and the malformed flag decide.
Finish(t) ==
    /\ thread[t] = "done"
    /\ Goto(t, "idle")
    /\ result' = [result EXCEPT ![t] =
            CASE panic[t] -> "panicked"
              [] ~panic[t] /\ ~succeeded[t] -> "failed"
              [] ~panic[t] /\ succeeded[t] /\ malformed[t] -> "malformed"
              [] OTHER -> "succeeded"]
    /\ UNCHANGED <<mutex, slot, ops, succeeded, panic, malformed, delivered, reported, call, late>>

----------------------------------------------------------------------------
(***************************************************************************)
(* callback_trampoline, call_callback and deliver_progress.                *)
(***************************************************************************)

\* Windows reports progress of the operation of t from a thread of its own.
Report(c, t, value) ==
    /\ call[c] = Idle
    /\ thread[t] = "native"
    /\ ReportsMade < MaxReports
    /\ reported' = [reported EXCEPT ![t] = Append(@, value)]
    /\ call' = [call EXCEPT ![c] = Waiting(Current(t), value)]
    /\ UNCHANGED <<mutex, slot, thread, ops, succeeded, panic, malformed, delivered, result, late>>

\* Progress::try_from_native, and strictly above everything delivered before.  (A
\* variant forgets the range.)
AcceptableUnbounded(t, value) ==
    \A i \in 1 .. Len(delivered[t]) : delivered[t][i] < value
Acceptable(t, value) ==
    /\ value <= MaxPercent
    /\ \A i \in 1 .. Len(delivered[t]) : delivered[t][i] < value

\* The mutex is free and the call has nothing to run: no operation is installed,
\* its callback panicked before, or the value is not acceptable.  (A variant
\* passes over a value that is not acceptable without a trace.)
DiscardQuietly(c) ==
    /\ call[c].at = "waiting" /\ mutex = None
    /\ slot # None => panic[slot] \/ malformed[slot] \/ ~Acceptable(slot, call[c].value)
    /\ call' = [call EXCEPT ![c] = Idle]
    /\ UNCHANGED <<mutex, slot, thread, ops, succeeded, panic, malformed, delivered, reported, result, late>>

Discard(c) ==
    /\ call[c].at = "waiting" /\ mutex = None
    /\ IF slot = None
       THEN UNCHANGED malformed
       ELSE /\ panic[slot] \/ malformed[slot] \/ ~Acceptable(slot, call[c].value)
            /\ malformed' = [malformed EXCEPT ![slot] = @ \/ ~panic[slot]]
    /\ call' = [call EXCEPT ![c] = Idle]
    /\ UNCHANGED <<mutex, slot, thread, ops, succeeded, panic, delivered, reported, result, late>>

\* The mutex is taken and the user's callback called on the state in the slot.
Enter(c) ==
    /\ call[c].at = "waiting" /\ mutex = None
    /\ slot # None
    /\ ~panic[slot] /\ ~malformed[slot] /\ Acceptable(slot, call[c].value)
    /\ mutex' = c
    /\ delivered' = [delivered EXCEPT ![slot] = Append(@, call[c].value)]
    /\ call' = [call EXCEPT ![c] = [at |-> "running", op |-> call[c].op, on |-> slot]]
    /\ UNCHANGED <<slot, thread, ops, succeeded, panic, malformed, reported, result, late>>

\* The user's callback starts an operation with progress, of any session, on this
\* thread, and is refused: CallbackInUse.
Nest(c) ==
    /\ call[c].at = "running"
    /\ call' = [call EXCEPT ![c].at = "nesting"]
    /\ UNCHANGED <<mutex, slot, thread, ops, succeeded, panic, malformed, delivered, reported, result, late>>

NestRefused(c) ==
    /\ call[c].at = "nesting"
    /\ WouldBlock(call[c].on)
    /\ call' = [call EXCEPT ![c].at = "leaving"]
    /\ UNCHANGED <<mutex, slot, thread, ops, succeeded, panic, malformed, delivered, reported, result, late>>

\* The user's callback returns or panics: caught, kept in the state.
Leave(c, panics) ==
    /\ call[c].at \in {"running", "leaving"}
    /\ panic' = [panic EXCEPT ![call[c].on] = panics]
    /\ mutex' = IF mutex = c THEN None ELSE mutex
    /\ call' = [call EXCEPT ![c] = Idle]
    /\ UNCHANGED <<slot, thread, ops, succeeded, malformed, delivered, reported, result, late>>

----------------------------------------------------------------------------
Terminated ==
    /\ OpsBegun = MaxOps
    /\ \A t \in Thread : thread[t] = "idle"
    /\ \A c \in Call : call[c] = Idle
    /\ UNCHANGED vars

ThreadStep(t) ==
    \/ TryInstall(t) \/ Install(t) \/ LockDrop(t) \/ Clear(t) \/ Finish(t)
    \/ \E ok \in BOOLEAN : NativeReturn(t, ok)

CallStep(c) ==
    \/ Discard(c) \/ Enter(c) \/ Nest(c) \/ NestRefused(c)
    \/ \E panics \in BOOLEAN : Leave(c, panics)

Next ==
    \/ \E t \in Thread : ThreadStep(t)
    \/ \E c \in Call, t \in Thread, value \in Percent : Report(c, t, value)
    \/ \E c \in Call : CallStep(c)
    \/ Terminated

Spec == Init /\ [][Next]_vars

\* An operation begun goes on: Windows returns from it, user code from its
\* callback, and the mutex is passed on.
CallProgress(c) ==
    \/ Discard(c) \/ Enter(c) \/ NestRefused(c)
    \/ \E panics \in BOOLEAN : Leave(c, panics)

ThreadProgress(t) ==
    \/ Install(t) \/ LockDrop(t) \/ Clear(t) \/ Finish(t)
    \/ \E ok \in BOOLEAN : NativeReturn(t, ok)

FairSpec ==
    /\ Spec
    /\ \A t \in Thread : WF_vars(ThreadProgress(t))
    /\ \A c \in Call : WF_vars(CallProgress(c))

----------------------------------------------------------------------------
(***************************************************************************)
(* Safety.                                                                 *)
(***************************************************************************)

\* The pointer in the slot is only followed while the stack frame it points into
\* is there, and by one trampoline at a time, whatever calls Windows makes late
\* or at once: the SAFETY argument of call_callback (sys.rs:740, :790, :829).
PointerValid ==
    /\ slot # None => FrameLive(slot)
    /\ \A c \in Call : InUserCode(c) =>
        /\ thread[call[c].on] \in {"native", "dropping"}
        /\ \A d \in Call : InUserCode(d) => d = c

\* As long as no trampoline call has outlived its operation, progress only ever
\* reaches the callback of the operation it is about (sys.rs:746).
DeliveredToOwner ==
    ~late => \A c \in Call : InUserCode(c) => call[c].op = Current(call[c].on)

\* A successful operation has given its callback exactly what Windows reported,
\* as often, and strictly increasing; anything else is not a success (session.rs:655).
\* Calls that outlive their operation void this too.
Increasing(values) == \A i, j \in 1 .. Len(values) : i < j => values[i] < values[j]
SuccessIsFaithful ==
    ~late => \A t \in Thread : thread[t] = "idle" /\ result[t] = "succeeded" =>
        /\ Increasing(delivered[t])
        /\ \A v \in Percent :
            (\E i \in 1 .. Len(delivered[t]) : delivered[t][i] = v)
                <=> (\E i \in 1 .. Len(reported[t]) : reported[t][i] = v)
        /\ Len(delivered[t]) = Len(reported[t])

----------------------------------------------------------------------------
(***************************************************************************)
(* Liveness.                                                               *)
(***************************************************************************)

\* Every operation comes to an end: no re-entrant call from a callback and no
\* waiting for the mutex can block the process for good (sys.rs:764, :781).
OperationsEnd == \A t \in Thread : thread[t] # "idle" ~> thread[t] = "idle"
=============================================================================
