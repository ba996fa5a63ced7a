---------------------------- MODULE AsyncSession ----------------------------
(***************************************************************************)
(* The Tokio facade over the native session (src/src/tokio.rs over         *)
(* src/src/session.rs and src/src/sys.rs): AsyncWorker, the worker and its *)
(* client, extended with SessionHandle, the handle the worker owns and the *)
(* client's ShutdownFuture reaches through its CancellationHandle.  The    *)
(* unprefixed names (vars, Receive, Cancel...) are those of AsyncWorker.   *)
(*                                                                         *)
(* The worker thread is the owner of session It.  The client is a          *)
(* cancelling thread: ShutdownFuture::drop runs cancel() step by step, and *)
(* its temporary reference may turn out to be the last one.  Steps of both *)
(* components are joined where one call of the code is a step of each.     *)
(* The other sessions of the process compete for the native numbers.       *)
(***************************************************************************)
EXTENDS AsyncWorker

CONSTANTS
    It,         \* the session of the worker
    Other,      \* the other sessions of the process
    Caller,     \* the thread that drops the futures
    User,       \* threads with a CancellationHandle of their own
    Slot,       \* raw values of the native session table
    None,       \* no session, no raw value
    MaxTries    \* cancel calls of each thread (a bound of the model)

\* Sessions and threads are told apart, and the worker is one of a primary session:
\* only that has a shutdown to cancel.
ASSUME AsyncSessionAssumption ==
    /\ Roles = {"Primary"}
    /\ It \notin Other /\ Caller \notin User
    /\ ({It} \cup Other) \cap ({Caller} \cup User) = {}
    /\ None \notin {It} \cup Other \cup Slot
    /\ MaxTries \in Nat

VARIABLES
    table, raw, ended, owner, canceller, weak, tries, task, endCalls, dropCalls,
    undo        \* how far the worker is with a restart made by RestartPending::drop

Handle == INSTANCE SessionHandle WITH
    Session <- {It} \cup Other, Thread <- {Caller} \cup User

handleVars == <<table, raw, ended, owner, canceller, weak, tries, task, endCalls, dropCalls>>
sessionVars == <<vars, handleVars, undo>>

\* The worker and the client go on, or the handle does, and the other rests.
HandleRests == UNCHANGED <<handleVars, undo>>
WorkerRests == UNCHANGED <<vars, undo>>

SessionTypeOK == TypeOK /\ Handle!TypeOK /\ undo \in {"none", "owed", "running", "done"}

SessionInit == Init /\ Handle!Init /\ undo = "none"

----------------------------------------------------------------------------
(***************************************************************************)
(* start_primary_worker on the worker thread: the session is made, a weak  *)
(* handle taken, and both announced.  When nobody waits for them any more, *)
(* the thread returns and the session is dropped.                          *)
(***************************************************************************)
Open ==
    /\ worker = "starting"
    /\ Handle!Start(It) \/ Handle!StartRefused(It) \/ Handle!GiveHandle(It, Caller)
    /\ WorkerRests

Announce ==
    /\ holds = "starting" /\ owner[It] = "live" /\ weak[Caller] = It
    /\ WorkerStart
    /\ HandleRests

AnnouncePanics ==
    /\ owner[It] = "live" /\ weak[Caller] = It
    /\ WorkerStartPanics
    /\ UNCHANGED handleVars
    /\ undo' = "done"

Unannounced ==
    /\ worker = "starting" /\ holds # "starting" /\ weak[Caller] = It
    /\ Handle!OwnerDrop(It)
    /\ WorkerRests

StartEnds ==
    /\ owner[It] = "gone"
    /\ IF weak[Caller] = It THEN WorkerStart ELSE WorkerStartFails
    /\ HandleRests

----------------------------------------------------------------------------
(***************************************************************************)
(* execute_command.  The commands that end the session run through         *)
(* SessionCore::end, the others are native operations of the owner.        *)
(***************************************************************************)
Execute ==
    /\ Receive
    /\ IF worker' # "native" THEN UNCHANGED handleVars
       ELSE IF job'.op \in Ending THEN Handle!EndCall(It)
       ELSE Handle!Operate(It)
    /\ UNCHANGED undo

OperationReturns ==
    /\ NativeReturn
    /\ job.op \notin Ending
    /\ Handle!OperateReturn(It)
    /\ UNCHANGED undo

EndReturns ==
    /\ NativeReturn
    /\ job.op \in Ending /\ owner[It] = "gone"
    /\ HandleRests

Replies == Reply /\ HandleRests

\* Locking the flag, RmEndSession, and releasing the reference: of an end() command,
\* of a session nobody waited for, or of a worker that lets go.
Ends(ok) ==
    /\ \/ Handle!EndLock(It) \/ Handle!OwnerRelease(It)
       \/ Handle!EndReturn(It, ok) \/ Handle!OwnerClosed(It, ok)
    /\ WorkerRests

----------------------------------------------------------------------------
(***************************************************************************)
(* The worker lets go.  RestartPending::drop restarts before it drops the  *)
(* session, whether run_worker returned or a waker panicked; undo is       *)
(* "done" at once when there is nothing to restart.                        *)
(***************************************************************************)
PanicUnwinds ==
    /\ ProgressPanics
    /\ Handle!OperateReturn(It)
    /\ undo' = "owed"

ReplyUnwinds ==
    /\ ReplyPanics
    /\ UNCHANGED handleVars
    /\ undo' = IF state = "Pending" THEN "owed" ELSE "done"

UndoInPanic ==
    /\ undo = "owed"
    /\ Handle!Operate(It)
    /\ undo' = "running"
    /\ UNCHANGED vars

UndoInDrop ==
    /\ state = "Pending"
    /\ Disconnected
    /\ Handle!Operate(It)
    /\ undo' = "running"

UndoReturns ==
    /\ undo = "running"
    /\ Handle!OperateReturn(It)
    /\ undo' = "done"
    /\ UNCHANGED vars

\* The typestate, or what the destructor took out of it, is dropped.  (A variant
\* forgets the one that is dropped without having been ended.)
LetGoOfPending ==
    /\ undo = "done"
    /\ Handle!OwnerDrop(It)
    /\ WorkerRests

LetGo ==
    /\ \/ undo = "done"
       \/ (worker = "ready" /\ queue = <<>> /\ ~connected /\ state # "Pending")
    /\ Handle!OwnerDrop(It)
    /\ WorkerRests

\* (The same variant.)
ExitAtOnce ==
    /\ Recovered \/ (state # "Pending" /\ Disconnected)
    /\ HandleRests

Exit ==
    /\ owner[It] = "gone"
    /\ Recovered \/ (state # "Pending" /\ Disconnected)
    /\ HandleRests

----------------------------------------------------------------------------
(***************************************************************************)
(* The client.  What it does short of dropping a shutdown future concerns  *)
(* the worker alone.                                                       *)
(***************************************************************************)
ClientActs ==
    /\ \/ Started \/ FirstPoll \/ Resolve
       \/ \E op \in Command : CallMethod(op)
       \/ DropTypestate \/ DropFuture
    /\ HandleRests

\* ShutdownFuture::drop: cancel() upgrades the weak reference, ...
BeginCancel ==
    /\ DropShutdown
    /\ Handle!Upgrade(Caller)
    /\ UNCHANGED undo

\* ... or finds the session gone, ...
CancelTooLate ==
    /\ future = "dropping" /\ canceller[Caller] = "idle"
    /\ Cancel(FALSE)
    /\ HandleRests

\* ... takes the mutex, ...
CancelLock ==
    /\ Handle!CancelLock(Caller)
    /\ IF canceller'[Caller] = "refused" THEN Cancel(FALSE) ELSE UNCHANGED vars
    /\ UNCHANGED undo

\* ... calls RmCancelCurrentTask, ...
CancelReturn(ok) ==
    /\ Handle!CancelReturn(Caller, ok)
    /\ Cancel(ok)
    /\ UNCHANGED undo

\* ... and lets go of the reference, with the session when it is the last one.
CancelReleases(ok) ==
    /\ Handle!CancellerRelease(Caller) \/ Handle!CancellerClosed(Caller, ok)
    /\ WorkerRests

\* Then the Sender goes.
DropSender ==
    /\ canceller[Caller] = "idle"
    /\ Disconnect
    /\ HandleRests

----------------------------------------------------------------------------
(***************************************************************************)
(* The rest of the process: other sessions, and handles given to a user    *)
(* interface.                                                              *)
(***************************************************************************)
OtherSession(s) == Handle!OwnerStep(s) /\ WorkerRests

HandleGiven(c) ==
    /\ holds = "Primary"
    /\ Handle!GiveHandle(It, c)
    /\ WorkerRests

UserCancels(c) == Handle!CancellerStep(c) /\ WorkerRests

AllGone ==
    /\ worker = "exited" /\ holds = "nothing" /\ future = "none"
    /\ \A s \in Other : owner[s] = "gone"
    /\ \A c \in User : canceller[c] = "idle" /\ (weak[c] = None \/ tries[c] = MaxTries)
    /\ UNCHANGED sessionVars

\* Everything the worker thread does but return from a native operation.
WorkerThread ==
    \/ Open \/ Announce \/ Unannounced \/ StartEnds
    \/ Execute \/ EndReturns \/ Replies
    \/ UndoInPanic \/ UndoInDrop \/ LetGo \/ Exit
    \/ \E ok \in BOOLEAN : Ends(ok)

Panics == AnnouncePanics \/ PanicUnwinds \/ ReplyUnwinds

NativeReturns == OperationReturns \/ UndoReturns

Cancels ==
    \/ CancelTooLate \/ CancelLock \/ DropSender
    \/ \E ok \in BOOLEAN : CancelReturn(ok) \/ CancelReleases(ok)

SessionNext ==
    \/ WorkerThread \/ NativeReturns \/ Panics
    \/ ClientActs \/ BeginCancel \/ Cancels
    \/ \E s \in Other : OtherSession(s)
    \/ \E c \in User : HandleGiven(c) \/ UserCancels(c)
    \/ AllGone

SessionSpec == SessionInit /\ [][SessionNext]_sessionVars

(***************************************************************************)
(* The worker thread runs, a drop once begun goes on, and so does a cancel *)
(* call.  A native operation need not return unless it was asked to stop.  *)
(***************************************************************************)
FairSessionSpec ==
    /\ SessionSpec
    /\ WF_sessionVars(WorkerThread) /\ WF_sessionVars(Cancels)
    /\ WF_sessionVars(task[It] /\ NativeReturns)
    /\ \A c \in User : WF_sessionVars(Handle!CancellerProgress(c) /\ WorkerRests)
    /\ \A s \in Other : WF_sessionVars(Handle!OwnerProgress(s) /\ WorkerRests)

----------------------------------------------------------------------------
(***************************************************************************)
(* Safety.                                                                 *)
(***************************************************************************)

\* Whatever the worker executes, and whatever it recovers, runs on a session that is
\* open and its own: no interleaving with a dropped future's cancel call can end it
\* before (tokio.rs:246, :783; session.rs:447).
CommandsFindOpenSession ==
    /\ worker \in {"native", "recovering", "unwinding"} /\ owner[It] \in {"live", "operating"}
        => Handle!Open(It) /\ ~ended[It]
    /\ worker = "ready" /\ state # "Empty" /\ owner[It] # "gone"
        => Handle!Open(It)

\* A worker thread that is gone has left no native session behind, except while a
\* cancel call that outlives it holds the reference, or if Windows refused to end it
\* in the destructor (tokio.rs:240, sys.rs:368).
WorkerLeavesNothing ==
    worker = "exited" /\ Handle!Cancelling(It, Handle!CancellerPC \ {"idle"}) = {}
        => ~Handle!Open(It) \/ dropCalls[It] = 1

----------------------------------------------------------------------------
(***************************************************************************)
(* Liveness.                                                               *)
(***************************************************************************)

\* Dropping a shutdown future never blocks its thread for good, even when Windows
\* does not return from the operation, whichever cancel calls compete with it.
DropReturns == future = "dropping" ~> future = "none"

\* When nobody waits for the worker any more, its session ends, on the worker or on
\* the thread whose cancel call outlived it, and a shutdown that was started has been
\* answered by a restart or left stopped; also when the future was dropped while
\* its command was still queued, so that the cancellation found nothing to stop.
\* Provided Windows returns from the operations it is not asked to stop
\* (tokio.rs:731, :783, ADR 0006).
AbandonedSessionRecovered ==
    []<>(owner[It] # "operating") =>
        (holds = "nothing" /\ ~connected ~>
            /\ Handle!Disposed(It)
            /\ Made("shutdown") => Made("restart") \/ Made("leave"))
=============================================================================
