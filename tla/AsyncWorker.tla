---------------------------- MODULE AsyncWorker ----------------------------
(***************************************************************************)
(* The Tokio facade (src/src/tokio.rs): one session, the worker thread     *)
(* that owns its blocking typestate, the FIFO channel of commands, the     *)
(* oneshot replies, and the client, which holds an async typestate or the  *)
(* future of one operation and may drop either at any point.               *)
(*                                                                         *)
(* The worker's typestate is named by its WorkerState variant; the async   *)
(* typestate the client holds has the same name.  What the native session  *)
(* went through is kept as a log of calls, for the properties.             *)
(***************************************************************************)
EXTENDS Naturals, Sequences, FiniteSets

CONSTANTS
    Roles,          \* the kinds of session opened: "Primary", "Joined"
    MaxCommands     \* commands the client sends (a bound of the model)

ASSUME WorkerAssumption ==
    /\ Roles \subseteq {"Primary", "Joined"}
    /\ MaxCommands \in Nat

VARIABLES
    holds,      \* the async typestate the client holds, or "nothing"
    future,     \* the operation whose future the client holds, or "none"
    sent,       \* did that future send its command
    connected,  \* is a Sender of the channel alive
    count,      \* commands sent so far: the ticket of the last one
    reply,      \* what the oneshot channel of that future holds
    queue,      \* the command channel
    worker,     \* program counter of the worker thread
    state,      \* WorkerState
    job,        \* the command being executed and what it answers
    log,        \* history: calls made on the native session, leave_stopped, and the
                \* panic of the worker thread
    struck      \* history: operations hit by the cancellation of a dropped future

vars == <<holds, future, sent, connected, count, reply, queue, worker, state, job, log, struck>>

\* WorkerState each command expects.  PrimaryRegister stands for the five commands
\* that borrow the primary session and leave its state alone.
Wanted == [
    PrimaryRegister |-> "Primary", Shutdown |-> "Primary", ShutdownWithProgress |-> "Primary",
    EndPrimary |-> "Primary", Restart |-> "Pending", RestartWithProgress |-> "Pending",
    LeaveStopped |-> "Pending", CompletionAffected |-> "Completion",
    EndCompletion |-> "Completion", JoinedRegister |-> "Joined", EndJoined |-> "Joined"]

Command == DOMAIN Wanted
Borrowing == {"PrimaryRegister", "CompletionAffected", "JoinedRegister"}
Ending == {"EndPrimary", "EndCompletion", "EndJoined"}
Shutdowns == {"Shutdown", "ShutdownWithProgress"}
Restarts == {"Restart", "RestartWithProgress"}
Eager == Shutdowns \cup Restarts        \* the others are async fns: nothing before the first poll
WithProgress == {"ShutdownWithProgress", "RestartWithProgress"}
Typestate == {"Primary", "Pending", "Completion", "Joined"}
Answer == Typestate \cup {"done", "wrong", "dropped"}
NoJob == [op |-> "none"]

TypeOK ==
    /\ holds \in Typestate \cup {"starting", "nothing"}
    /\ future \in Command \cup {"none", "dropping", "cancelled"}
    /\ sent \in BOOLEAN
    /\ connected \in BOOLEAN
    /\ count \in 0 .. MaxCommands
    /\ reply \in Answer \cup {"none"}
    /\ queue \in Seq([op : Command, n : 1 .. MaxCommands])
    /\ worker \in {"starting", "ready", "native", "replying", "recovering", "unwinding", "exited"}
    /\ state \in Typestate \cup {"Empty"}
    /\ job = NoJob \/ job \in [op : Command, n : 1 .. MaxCommands, answer : Answer \cup {"none"}]
    /\ log \in Seq({"shutdown", "restart", "leave", "end", "panic"})
    /\ struck \subseteq Command \cup {"unwinding"}

Init ==
    /\ holds = "starting" /\ future = "none" /\ sent = FALSE
    /\ connected = TRUE /\ count = 0 /\ reply = "none"
    /\ queue = <<>>
    /\ worker = "starting"
    /\ state \in Roles
    /\ job = NoJob /\ log = <<>> /\ struck = {}

clientVars == <<holds, future, sent, connected>>
workerVars == <<worker, state, job, log>>

----------------------------------------------------------------------------
(***************************************************************************)
(* Starting.  The worker makes the session and tells the client, which may *)
(* have dropped the future of new() or join(): then the worker returns and *)
(* the session is dropped.                                                 *)
(***************************************************************************)
WorkerStart ==
    /\ worker = "starting"
    /\ IF holds = "starting"
       THEN worker' = "ready" /\ reply' = state /\ UNCHANGED <<log, state>>
       ELSE worker' = "exited" /\ log' = <<"end">> /\ state' = "Empty" /\ UNCHANGED reply
    /\ UNCHANGED <<clientVars, count, queue, job, struck>>

\* The client is told, but waking it panics before run_worker is entered.
WorkerStartPanics ==
    /\ worker = "starting" /\ holds = "starting"
    /\ worker' = "unwinding" /\ reply' = state
    /\ log' = <<"panic">>
    /\ UNCHANGED <<clientVars, count, queue, state, job, struck>>

\* RestartSession::new or JoinedSession::join failed: there is no session to end, and
\* the thread is at its end whether or not telling the client panics.
WorkerStartFails ==
    /\ worker = "starting"
    /\ worker' = "exited"
    /\ state' = "Empty"
    /\ reply' = IF holds = "starting" THEN "dropped" ELSE reply
    /\ UNCHANGED <<clientVars, count, queue, job, log, struck>>

Started ==
    /\ holds = "starting" /\ reply # "none"
    /\ holds' = IF reply \in Typestate THEN reply ELSE "nothing"
    /\ connected' = (reply \in Typestate)
    /\ reply' = "none"
    /\ UNCHANGED <<future, sent, count, queue, workerVars, struck>>

----------------------------------------------------------------------------
(***************************************************************************)
(* The client.                                                             *)
(***************************************************************************)

\* Worker::send on a live channel; a dead worker drops the command and with it the
\* sender of its reply.
Send(op) ==
    /\ count < MaxCommands
    /\ count' = count + 1
    /\ IF worker = "exited"
       THEN reply' = "dropped" /\ UNCHANGED queue
       ELSE reply' = "none" /\ queue' = Append(queue, [op |-> op, n |-> count + 1])

\* A method is called: a borrowing one keeps the typestate, the others consume it.
CallMethod(op) ==
    /\ holds = Wanted[op] /\ future = "none"
    /\ future' = op
    /\ holds' = IF op \in Borrowing THEN holds ELSE "nothing"
    /\ sent' = (op \in Eager)
    /\ IF op \in Eager THEN Send(op) ELSE UNCHANGED <<count, reply, queue>>
    /\ UNCHANGED <<connected, workerVars, struck>>

FirstPoll ==
    /\ future \in Command /\ ~sent
    /\ sent' = TRUE
    /\ Send(future)
    /\ UNCHANGED <<holds, future, connected, workerVars, struck>>

\* The future is ready: the client has the typestate the worker answered, or none,
\* and then what was left of the future is dropped with its Sender.
Resolve ==
    /\ future \in Command /\ sent /\ reply # "none"
    /\ IF future \in Borrowing
       THEN UNCHANGED <<holds, connected>>
       ELSE /\ holds' = IF reply \in Typestate THEN reply ELSE "nothing"
            /\ connected' = (reply \in Typestate)
    /\ future' = "none" /\ sent' = FALSE /\ reply' = "none"
    /\ UNCHANGED <<count, queue, workerVars, struck>>

\* The client drops the typestate it holds, or the future of new() and join().
DropTypestate ==
    /\ holds # "nothing" /\ future = "none"
    /\ holds' = "nothing"
    /\ connected' = FALSE
    /\ reply' = "none"
    /\ UNCHANGED <<future, sent, count, queue, workerVars, struck>>

\* Any future but a shutdown's is dropped: the waiter goes, the command stays.
DropFuture ==
    /\ future \in Command \ Shutdowns
    /\ future' = "none" /\ sent' = FALSE /\ reply' = "none"
    /\ connected' = (future \in Borrowing)
    /\ UNCHANGED <<holds, count, queue, workerVars, struck>>

(***************************************************************************)
(* ShutdownFuture::drop, also when the reply is there but was not polled:  *)
(* cancel() is called first, then the fields of the future go, the Sender  *)
(* among them.                                                             *)
(***************************************************************************)
\* (A variant whose Sender goes before the cancellation.)
DropShutdownSenderFirst ==
    /\ future \in Shutdowns
    /\ future' = "dropping" /\ sent' = FALSE /\ reply' = "none"
    /\ connected' = FALSE
    /\ UNCHANGED <<holds, count, queue, workerVars, struck>>

DropShutdown ==
    /\ future \in Shutdowns
    /\ future' = "dropping" /\ sent' = FALSE /\ reply' = "none"
    /\ UNCHANGED <<holds, connected, count, queue, workerVars, struck>>

\* What RmCancelCurrentTask stops: the native operation that runs, whichever it is,
\* the destructor's restart too; what an unwinding thread does is told apart.
Running ==
    CASE worker = "native" -> {job.op}
      [] worker = "recovering" -> {"Restart"}
      [] worker = "unwinding" -> {"unwinding"}
      [] OTHER -> {}

\* cancel() returns: it got through, or it failed or came too late.
Cancel(strikes) ==
    /\ future = "dropping"
    /\ future' = "cancelled"
    /\ struck' = IF strikes THEN struck \cup Running ELSE struck
    /\ UNCHANGED <<holds, sent, connected, count, reply, queue, workerVars>>

\* The fields of the future go.
Disconnect ==
    /\ future = "cancelled"
    /\ future' = "none"
    /\ connected' = FALSE
    /\ UNCHANGED <<holds, sent, count, reply, queue, workerVars, struck>>

----------------------------------------------------------------------------
(***************************************************************************)
(* The worker: run_worker and execute_command.                             *)
(***************************************************************************)
Took(op) == job' = [op |-> op, n |-> Head(queue).n, answer |-> "none"]
Answered(op, answer) == job' = [op |-> op, n |-> Head(queue).n, answer |-> answer]

\* The command does not fit the typestate: OperationOutOfSequence, nothing changes.
WrongState(op) ==
    /\ state # Wanted[op]
    /\ Answered(op, "wrong")
    /\ worker' = "replying"
    /\ UNCHANGED <<state, log>>

\* The callback lease is taken: nothing native was done and the state is put back.
\* (A variant forgets to.)
LeaseRefusedLosingState(op) ==
    /\ state = Wanted[op] /\ op \in WithProgress
    /\ Answered(op, state)
    /\ worker' = "replying"
    /\ state' = "Empty"
    /\ UNCHANGED log

LeaseRefused(op) ==
    /\ state = Wanted[op] /\ op \in WithProgress
    /\ Answered(op, state)
    /\ worker' = "replying"
    /\ UNCHANGED <<state, log>>

\* The blocking method is called; the consuming ones leave Empty behind meanwhile.
Begin(op) ==
    /\ state = Wanted[op] /\ op # "LeaveStopped"
    /\ Took(op)
    /\ worker' = "native"
    /\ state' = IF op \in Borrowing THEN state ELSE "Empty"
    /\ log' = log \o
            (CASE op \in Shutdowns -> <<"shutdown">>
               [] op \in Restarts -> <<"restart">>
               [] op \in Ending -> <<"end">>
               [] OTHER -> <<>>)

LeaveStopped(op) ==
    /\ op = "LeaveStopped" /\ state = "Pending"
    /\ state' = "Completion"
    /\ Answered(op, "Completion")
    /\ worker' = "replying"
    /\ log' = Append(log, "leave")

Receive ==
    /\ worker = "ready" /\ queue # <<>>
    /\ queue' = Tail(queue)
    /\ LET op == Head(queue).op IN
        WrongState(op) \/ LeaseRefused(op) \/ Begin(op) \/ LeaveStopped(op)
    /\ UNCHANGED <<clientVars, count, reply, struck>>

\* The native operation returns, with success or not: the outcome is retained.
NativeReturn ==
    /\ worker = "native"
    /\ state' = CASE job.op \in Shutdowns -> "Pending"
                  [] job.op \in Restarts -> "Completion"
                  [] OTHER -> state
    /\ job' = [job EXCEPT !.answer = IF @ = "none" /\ job.op \in Eager THEN state' ELSE "done"]
    /\ worker' = "replying"
    /\ UNCHANGED <<clientVars, count, reply, queue, log, struck>>

\* (A variant waits for a receiver that is still interested.)
ReplyWaiting ==
    /\ worker = "replying" /\ sent /\ job.n = count
    /\ reply' = job.answer
    /\ worker' = "ready"
    /\ job' = NoJob
    /\ UNCHANGED <<clientVars, count, queue, state, log, struck>>

Reply ==
    /\ worker = "replying"
    /\ reply' = IF sent /\ job.n = count THEN job.answer ELSE reply
    /\ worker' = "ready"
    /\ job' = NoJob
    /\ UNCHANGED <<clientVars, count, queue, state, log, struck>>

(***************************************************************************)
(* A waker of the client's runtime panics on the worker thread: the stack  *)
(* unwinds, a RestartPending on it restarts, and the thread dies.          *)
(***************************************************************************)
\* Waking the receiver of a progress value: the blocking method unwinds, which holds
\* the RestartPending.
ProgressPanics ==
    /\ worker = "native" /\ job.op \in WithProgress
    /\ worker' = "unwinding"
    /\ log' = log \o <<"panic", "restart">>
    /\ UNCHANGED <<clientVars, count, reply, queue, state, job, struck>>

\* Waking the future that was answered, or the receiver of the progress whose Sender
\* goes after the answer: run_worker unwinds, which holds the state.  The answer is
\* there all the same.
ReplyPanics ==
    /\ worker = "replying"
    /\ (sent /\ job.n = count) \/ job.op \in WithProgress
    /\ reply' = IF sent /\ job.n = count THEN job.answer ELSE reply
    /\ worker' = "unwinding"
    /\ job' = NoJob
    /\ log' = log \o (IF state = "Pending" THEN <<"panic", "restart">> ELSE <<"panic">>)
    /\ UNCHANGED <<clientVars, count, queue, state, struck>>

\* No command is left and no Sender: run_worker returns and drops the state.  (A
\* variant forgets the pending state.)
DisconnectedForgetful ==
    /\ worker = "ready" /\ queue = <<>> /\ ~connected
    /\ state' = "Empty"
    /\ worker' = "exited"
    /\ log' = IF state = "Empty" THEN log ELSE Append(log, "end")
    /\ UNCHANGED <<clientVars, count, reply, queue, job, struck>>

Disconnected ==
    /\ worker = "ready" /\ queue = <<>> /\ ~connected
    /\ state' = "Empty"
    /\ IF state = "Pending"
       THEN worker' = "recovering" /\ log' = Append(log, "restart")
       ELSE /\ worker' = "exited"
            /\ log' = IF state = "Empty" THEN log ELSE Append(log, "end")
    /\ UNCHANGED <<clientVars, count, reply, queue, job, struck>>

\* What an unwinding thread may have ended already, by the command that it answered.
Bare == worker = "unwinding" /\ state = "Empty" /\ job = NoJob

\* The destructor's restart, if any, returned: the session ends, and what is still
\* queued goes with the channel, and the command whose execution unwound.  (A variant
\* shares the Receiver with the client: the channel outlives the thread.)
RecoveredKeepingChannel ==
    /\ worker \in {"recovering", "unwinding"}
    /\ worker' = "exited" /\ state' = "Empty" /\ job' = NoJob
    /\ log' = IF Bare THEN log ELSE Append(log, "end")
    /\ reply' = IF sent /\ reply = "none" /\ job # NoJob THEN "dropped" ELSE reply
    /\ UNCHANGED <<clientVars, count, queue, struck>>

Recovered ==
    /\ worker \in {"recovering", "unwinding"}
    /\ worker' = "exited" /\ state' = "Empty" /\ job' = NoJob
    /\ log' = IF Bare THEN log ELSE Append(log, "end")
    /\ queue' = <<>>
    /\ reply' = IF sent /\ reply = "none" THEN "dropped" ELSE reply
    /\ UNCHANGED <<clientVars, count, struck>>

----------------------------------------------------------------------------
\* The client holds nothing, or has made all its calls, and the worker is gone.
Terminated ==
    /\ worker = "exited"
    /\ holds = "nothing" /\ future = "none"
    /\ UNCHANGED vars

Client ==
    \/ Started \/ FirstPoll \/ Resolve
    \/ \E op \in Command : CallMethod(op)
    \/ DropTypestate \/ DropFuture \/ DropShutdown \/ Disconnect
    \/ \E strikes \in BOOLEAN : Cancel(strikes)

Work == WorkerStart \/ WorkerStartFails \/ Receive \/ NativeReturn \/ Reply \/ Disconnected \/ Recovered

WakerPanics == WorkerStartPanics \/ ProgressPanics \/ ReplyPanics

Next == Client \/ Work \/ WakerPanics \/ Terminated

Spec == Init /\ [][Next]_vars

\* The worker thread runs and native operations return; the client may hold what it
\* has for ever, but a drop once begun goes on.
FairSpec ==
    /\ Spec
    /\ WF_vars(Work)
    /\ WF_vars(Disconnect \/ \E strikes \in BOOLEAN : Cancel(strikes))

----------------------------------------------------------------------------
(***************************************************************************)
(* Refinement: the recovery contract, read off the log of calls.           *)
(***************************************************************************)
Made(c) == \E i \in DOMAIN log : log[i] = c
Attempts == Cardinality({i \in DOMAIN log : log[i] = "restart"})
Phase ==
    CASE Made("end") -> "ended"
      [] ~Made("end") /\ Made("leave") -> "waived"
      [] ~Made("end") /\ ~Made("leave") /\ Made("restart") -> "tried"
      [] ~Made("end") /\ ~Made("leave") /\ ~Made("restart") /\ Made("shutdown") -> "owed"
      [] OTHER -> "open"

Contract == INSTANCE RecoveryContract WITH
    Session <- {"it"}, phase <- [s \in {"it"} |-> Phase], attempts <- [s \in {"it"} |-> Attempts]

\* Whatever futures and typestates the client drops, and when, the worker keeps the
\* contract of the blocking typestates (ADR 0006; tokio.rs:731, :852).
RecoveryContractHolds == Contract!Spec

----------------------------------------------------------------------------
(***************************************************************************)
(* Safety.                                                                 *)
(***************************************************************************)

\* No command ever meets the worker in another typestate than the client meant, even
\* behind commands of dropped futures: OperationOutOfSequence is unreachable, and no
\* future fails with it (tokio.rs:246, :453).
NeverOutOfSequence ==
    /\ reply # "wrong"
    /\ job # NoJob => job.answer # "wrong"

\* While the client holds a typestate, a worker that lives is in the same one and
\* nothing that is still queued will change it, whatever futures were dropped
\* before; and nothing but the panic of a waker has killed it (tokio.rs:240, :246).
WorkerAgrees ==
    holds \in Typestate =>
        /\ worker \in {"ready", "native", "replying"} =>
            state = holds /\ \A i \in DOMAIN queue : queue[i].op \in Borrowing
        /\ worker \notin {"ready", "native", "replying"} => Made("panic")

\* A future that waits for an answer is going to get one: new() and join() wait for a
\* worker that is starting, an operation for its own command, which is queued before a
\* worker that still receives or is the one in execution (tokio.rs:246, :441).
NoFutureForgotten ==
    /\ holds = "starting" /\ reply = "none" => worker = "starting"
    /\ sent /\ reply = "none" =>
        \/ worker # "exited" /\ \E i \in DOMAIN queue : queue[i] = [op |-> future, n |-> count]
        \/ job # NoJob /\ job.op = future /\ job.n = count

\* The cancellation sent by a dropped shutdown future never stops the restart that
\* recovers from that very shutdown, unless the worker had begun it on its own,
\* unwinding from a panic (tokio.rs:783, and the fields of ShutdownFuture).
DropNeverCancelsRestart == struck \cap Restarts = {}

----------------------------------------------------------------------------
(***************************************************************************)
(* Liveness.                                                               *)
(***************************************************************************)

\* Once the client has let go of everything the worker ends the session and its
\* thread, whatever is queued (tokio.rs:240).
SessionEnds == ~connected ~> worker = "exited" /\ (log = <<>> \/ Made("end"))

\* A command that was sent is answered, or its channel closes: no future waits for
\* ever, even when the worker dies (tokio.rs:441).
FuturesResolve == sent ~> reply # "none" \/ ~sent
=============================================================================
