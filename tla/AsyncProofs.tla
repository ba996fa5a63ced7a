---------------------------- MODULE AsyncProofs ----------------------------
(***************************************************************************)
(* Proofs about the Tokio facade, for any number of commands, sessions,    *)
(* threads, receivers and percentages: the worker and its client, the      *)
(* worker over the native session, and at the end the progress stream.     *)
(***************************************************************************)
EXTENDS AsyncSession, ProgressWatch, FiniteSetTheorems, TLAPS

(***************************************************************************)
(* The inductive invariant of the worker and its client.  What makes it    *)
(* one is that a client about to consume a typestate is always met: the    *)
(* worker is in that typestate, and whatever is still queued before the    *)
(* command borrows; or a waker's panic has killed it.  So at most the last *)
(* command in the queue consumes.                                          *)
(***************************************************************************)
Consuming == Command \ Borrowing
Alive == worker \in {"ready", "native", "replying"}
Standing == Alive \/ worker = "unwinding"  \* the channel and the state are still there
Killed == worker = "exited" /\ Made("panic")
Unopened == {"Primary", "Joined"}

\* The client has the typestate s in its hands, or in a future not polled yet.
Calls(s) ==
    \/ holds = s
    \/ future \in Consuming /\ ~sent /\ Wanted[future] = s

ClientShape ==
    /\ connected <=> holds # "nothing" \/ future # "none"
    /\ holds = "starting" => future = "none"
    /\ future \in Borrowing => holds = Wanted[future]
    /\ future \in Consuming \cup {"dropping", "cancelled"} => holds = "nothing"
    /\ sent => future \in Command
    /\ reply # "none" => holds = "starting" \/ sent

Met(s) ==
    \/ /\ Standing /\ state = s
       /\ \A i \in DOMAIN queue : queue[i].op \in Borrowing
       /\ job # NoJob => job.op \in Borrowing
    \/ Killed

ClientMet == \A s \in Typestate : Calls(s) => Met(s)

\* An answer that carries a typestate is the last thing the worker did.
AnswerIsState ==
    reply \in Typestate =>
        \/ worker \in {"ready", "unwinding"} /\ job = NoJob /\ queue = <<>> /\ state = reply
        \/ Killed

Starting ==
    /\ holds = "starting" => worker \in {"starting", "ready", "unwinding", "exited"} /\ queue = <<>>
    /\ worker = "starting" =>
        /\ state \in Unopened /\ log = <<>>
        /\ holds \in {"starting", "nothing"} /\ future = "none"

DeadTakesNothing == ~Standing => queue = <<>>

QueueFits ==
    \A i \in DOMAIN queue :
        /\ Wanted[queue[i].op] = state
        /\ queue[i].op \notin Borrowing => i = Len(queue)

JobFits ==
    /\ worker \in {"starting", "ready", "recovering", "exited"} => job = NoJob
    /\ worker = "native" =>
        /\ job # NoJob /\ job.answer = "none" /\ job.op # "LeaveStopped"
        /\ state = IF job.op \in Borrowing THEN Wanted[job.op] ELSE "Empty"
    /\ worker = "replying" =>
        /\ job # NoJob
        /\ job.answer \in Typestate => job.answer = state /\ job.op \notin Borrowing
    /\ worker = "recovering" => ~connected
    /\ worker = "unwinding" /\ job # NoJob => state = "Empty" /\ job.op \in WithProgress
    /\ job # NoJob /\ job.op \notin Borrowing => queue = <<>>

\* While a shutdown future can still cancel, no restart is queued or running.
ShutdownWaits ==
    future \in Shutdowns \cup {"dropping", "cancelled"} =>
        /\ \A i \in DOMAIN queue : queue[i].op \notin Restarts
        /\ job # NoJob => job.op \notin Restarts

\* The log of native calls is where the worker's typestate says.
LogFollows ==
    /\ worker \in {"ready", "replying"} \/ (worker = "native" /\ job.op \in Borrowing) =>
        /\ state \in Unopened => Phase = "open"
        /\ state = "Pending" => Phase = "owed"
        /\ state = "Completion" => Phase \in {"tried", "waived"}
        /\ state = "Empty" => Phase = "ended"
    /\ worker = "native" =>
        /\ job.op \in Shutdowns => Phase = "owed"
        /\ job.op \in Restarts => Phase = "tried"
        /\ job.op \in Ending => Phase = "ended"
    /\ worker = "recovering" => Phase = "tried"
    /\ worker = "unwinding" =>
        /\ Made("panic")
        /\ state \in Unopened => Phase = "open"
        /\ state = "Pending" => Phase = "tried"
        /\ state = "Completion" => Phase \in {"tried", "waived"}
        /\ state = "Empty" => Phase = IF job = NoJob THEN "ended" ELSE "tried"

Fits == ClientShape /\ ClientMet /\ AnswerIsState /\ Starting /\ DeadTakesNothing /\ QueueFits /\ JobFits
WorkerInvariant ==
    TypeOK /\ NeverOutOfSequence /\ Fits /\ ShutdownWaits /\ DropNeverCancelsRestart /\ LogFollows

----------------------------------------------------------------------------
(***************************************************************************)
(* What the proofs need to know of the commands, and of the log.           *)
(***************************************************************************)
LEMMA Commands ==
    /\ Command = Borrowing \cup Ending \cup Shutdowns \cup Restarts \cup {"LeaveStopped"}
    /\ \A op \in Command : Wanted[op] \in Typestate
    /\ \A op \in Ending : Wanted[op] \in Unopened \cup {"Completion"}
    /\ \A op \in Shutdowns : Wanted[op] = "Primary"
    /\ \A op \in Restarts \cup {"LeaveStopped"} : Wanted[op] = "Pending"
BY DEF Command, Wanted, Borrowing, Ending, Shutdowns, Restarts, Typestate, Unopened

LEMMA Kinds ==
    /\ Consuming = Ending \cup Shutdowns \cup Restarts \cup {"LeaveStopped"}
    /\ Borrowing \cap Consuming = {}
    /\ Borrowing \cup Consuming = Command
    /\ WithProgress \subseteq Eager /\ Eager = Shutdowns \cup Restarts
    /\ Shutdowns \cap Restarts = {} /\ (Shutdowns \cup Restarts) \cap Ending = {}
    /\ "LeaveStopped" \notin Ending \cup Shutdowns \cup Restarts
    /\ {"none", "dropping", "cancelled"} \cap Command = {}
    /\ {"starting", "nothing", "none", "done", "wrong", "dropped", "Empty"} \cap Typestate = {}
BY Commands DEF Consuming, Borrowing, Ending, Shutdowns, Restarts, Eager, WithProgress, Typestate

LogCall == {"shutdown", "restart", "leave", "end", "panic"}

LEMMA MadeAfter ==
    ASSUME log \in Seq(LogCall), NEW c \in LogCall, log' = Append(log, c), NEW d
    PROVE  Made(d)' <=> Made(d) \/ c = d
<1>1. /\ DOMAIN log = 1 .. Len(log) /\ DOMAIN log' = 1 .. Len(log) + 1 /\ Len(log) \in Nat
      /\ log'[Len(log) + 1] = c /\ \A i \in 1 .. Len(log) : log'[i] = log[i]
    OBVIOUS
<1>2. Made(d)' <=> \E i \in 1 .. Len(log) + 1 : log'[i] = d
    BY <1>1 DEF Made
<1>3. Made(d) <=> \E i \in 1 .. Len(log) : log[i] = d
    BY <1>1 DEF Made
<1> QED BY <1>1, <1>2, <1>3

LEMMA AttemptsAfter ==
    ASSUME log \in Seq(LogCall), NEW c \in LogCall, log' = Append(log, c)
    PROVE  /\ Attempts \in Nat
           /\ Attempts' = IF c = "restart" THEN Attempts + 1 ELSE Attempts
<1> DEFINE old == {i \in DOMAIN log : log[i] = "restart"}
           new == {i \in DOMAIN log' : log'[i] = "restart"}
<1>1. /\ DOMAIN log = 1 .. Len(log) /\ DOMAIN log' = 1 .. Len(log) + 1 /\ Len(log) \in Nat
      /\ log'[Len(log) + 1] = c /\ \A i \in 1 .. Len(log) : log'[i] = log[i]
    OBVIOUS
<1>2. IsFiniteSet(old)
    <2>1. old \subseteq 1 .. Len(log) /\ IsFiniteSet(1 .. Len(log))
        BY <1>1, FS_Interval
    <2> HIDE DEF old
    <2> QED BY <2>1, FS_Subset
<1>3. c # "restart" => new = old
    BY <1>1
<1>4. c = "restart" => new = old \cup {Len(log) + 1} /\ Len(log) + 1 \notin old
    BY <1>1
<1>5. Attempts = Cardinality(old) /\ Attempts' = Cardinality(new)
    BY DEF Attempts
<1> HIDE DEF old, new
<1> QED BY <1>2, <1>3, <1>4, <1>5, FS_AddElement, FS_CardinalityType

\* What a call does to the phase of the contract.
LEMMA Logged ==
    ASSUME log \in Seq(LogCall), NEW c \in LogCall, log' = Append(log, c)
    PROVE  /\ c = "end" => Phase' = "ended"
           /\ c = "leave" /\ Phase = "owed" => Phase' = "waived"
           /\ c = "restart" /\ Phase \in {"owed", "tried"} => Phase' = "tried"
           /\ c = "shutdown" /\ Phase = "open" => Phase' = "owed"
           /\ c = "panic" => Phase' = Phase /\ Attempts' = Attempts
BY MadeAfter, AttemptsAfter DEF Phase

LEMMA NotLogged ==
    log' = log => Phase' = Phase /\ Attempts' = Attempts /\ \A d : Made(d)' <=> Made(d)
BY DEF Phase, Made, Attempts

\* A panic whose unwinding restarts.
LEMMA PanicLogged ==
    ASSUME log \in Seq(LogCall), log' = log \o <<"panic", "restart">>
    PROVE  /\ log' \in Seq(LogCall)
           /\ \A d : Made(d)' <=> Made(d) \/ d \in {"panic", "restart"}
           /\ Attempts' = Attempts + 1
           /\ Phase \in {"owed", "tried"} => Phase' = "tried"
<1> DEFINE n == Len(log)
           old == {i \in DOMAIN log : log[i] = "restart"}
           new == {i \in DOMAIN log' : log'[i] = "restart"}
<1>1. /\ DOMAIN log = 1 .. n /\ DOMAIN log' = 1 .. n + 2 /\ n \in Nat
      /\ log'[n + 1] = "panic" /\ log'[n + 2] = "restart"
      /\ \A i \in 1 .. n : log'[i] = log[i]
      /\ log' \in Seq(LogCall)
    <2>1. <<"panic", "restart">> \in Seq(LogCall) /\ Len(<<"panic", "restart">>) = 2
        BY DEF LogCall
    <2>2. DOMAIN log = 1 .. n /\ n \in Nat /\ log' \in Seq(LogCall)
        BY <2>1
    <2>3. DOMAIN log' = 1 .. n + 2
        BY <2>1
    <2> QED BY <2>1, <2>2, <2>3
<1>2. \A d : Made(d)' <=> Made(d) \/ d \in {"panic", "restart"}
    <2> TAKE d
    <2>1. Made(d)' <=> \E i \in 1 .. n + 2 : log'[i] = d
        BY <1>1 DEF Made
    <2>2. Made(d) <=> \E i \in 1 .. n : log[i] = d
        BY <1>1 DEF Made
    <2> QED BY <1>1, <2>1, <2>2
<1>3. IsFiniteSet(old)
    <2>1. old \subseteq 1 .. n /\ IsFiniteSet(1 .. n)
        BY <1>1, FS_Interval
    <2> HIDE DEF old
    <2> QED BY <2>1, FS_Subset
<1>4. new = old \cup {n + 2} /\ n + 2 \notin old
    BY <1>1
<1>5. Attempts = Cardinality(old) /\ Attempts' = Cardinality(new)
    BY DEF Attempts
<1>6. Attempts' = Attempts + 1
    <2> HIDE DEF old, new
    <2> QED BY <1>3, <1>4, <1>5, FS_AddElement
<1> QED BY <1>1, <1>2, <1>6 DEF Phase

----------------------------------------------------------------------------
LEMMA InitWorker == Init => WorkerInvariant
<1> SUFFICES ASSUME Init PROVE WorkerInvariant
    OBVIOUS
<1>1. state \in Unopened /\ Unopened \subseteq Typestate
    BY WorkerAssumption DEF Init, Unopened, Typestate
<1>2. queue \in Seq([op : Command, n : 1 .. MaxCommands]) /\ log \in Seq(LogCall)
    BY DEF Init
<1>3. TypeOK
    <2>1. count \in 0 .. MaxCommands
        BY WorkerAssumption DEF Init
    <2>2. state \in Typestate \cup {"Empty"} /\ log \in Seq({"shutdown", "restart", "leave", "end", "panic"})
        BY <1>1, <1>2 DEF LogCall
    <2> QED BY <1>2, <2>1, <2>2, Zenon DEF Init, TypeOK
<1>4. NeverOutOfSequence /\ DropNeverCancelsRestart
    BY DEF Init, NeverOutOfSequence, DropNeverCancelsRestart
<1>5. Fits
    BY <1>1, Kinds, Commands DEF Init, Fits, ClientShape, ClientMet, Met, AnswerIsState, Starting,
        DeadTakesNothing, QueueFits, JobFits, Calls, Typestate, Standing
<1>6. ShutdownWaits /\ LogFollows
    BY Kinds, Commands DEF Init, ShutdownWaits, LogFollows, Shutdowns
<1> QED BY <1>3, <1>4, <1>5, <1>6 DEF WorkerInvariant

\* What the queue looks like behind a command just sent, and before one received.
LEMMA QueueSteps ==
    ASSUME TypeOK
    PROVE  /\ DOMAIN queue = 1 .. Len(queue) /\ Len(queue) \in Nat
           /\ \A i \in 1 .. Len(queue) : queue[i] \in [op : Command, n : 1 .. MaxCommands]
           /\ \A e \in [op : Command, n : 1 .. MaxCommands] : queue' = Append(queue, e) =>
                /\ queue' \in Seq([op : Command, n : 1 .. MaxCommands])
                /\ Len(queue') = Len(queue) + 1 /\ DOMAIN queue' = 1 .. Len(queue')
                /\ queue'[Len(queue')] = e
                /\ \A i \in 1 .. Len(queue) : queue'[i] = queue[i]
           /\ queue # <<>> => Len(queue) > 0 /\ Head(queue) = queue[1]
           /\ queue # <<>> /\ queue' = Tail(queue) =>
                /\ queue' \in Seq([op : Command, n : 1 .. MaxCommands])
                /\ Len(queue') = Len(queue) - 1 /\ DOMAIN queue' = 1 .. Len(queue')
                /\ \A i \in 1 .. Len(queue') : queue'[i] = queue[i + 1]
                /\ Len(queue) = 1 => queue' = <<>>
<1> DEFINE E == [op : Command, n : 1 .. MaxCommands]
<1>1. queue \in Seq(E)
    BY DEF TypeOK
<1> HIDE DEF E
<1>2. DOMAIN queue = 1 .. Len(queue) /\ Len(queue) \in Nat /\ \A i \in 1 .. Len(queue) : queue[i] \in E
    BY <1>1
<1>3. ASSUME NEW e \in E, queue' = Append(queue, e)
      PROVE  /\ queue' \in Seq(E)
             /\ Len(queue') = Len(queue) + 1 /\ DOMAIN queue' = 1 .. Len(queue')
             /\ queue'[Len(queue')] = e
             /\ \A i \in 1 .. Len(queue) : queue'[i] = queue[i]
    BY <1>1, <1>3
<1>4. ASSUME queue # <<>> PROVE Len(queue) > 0 /\ Head(queue) = queue[1]
    BY <1>1, <1>4
<1>5. ASSUME queue # <<>>, queue' = Tail(queue)
      PROVE  /\ queue' \in Seq(E)
             /\ Len(queue') = Len(queue) - 1 /\ DOMAIN queue' = 1 .. Len(queue')
             /\ \A i \in 1 .. Len(queue') : queue'[i] = queue[i + 1]
             /\ Len(queue) = 1 => queue' = <<>>
    BY <1>1, <1>5
<1> QED BY <1>2, <1>3, <1>4, <1>5 DEF E

\* A command is only sent for a typestate that the worker is in, where it goes to the
\* end of a queue of commands that borrow, or to a worker that a panic has killed.
LEMMA SendFits ==
    ASSUME TypeOK, Fits, NEW op \in Command, Calls(Wanted[op]), Send(op)
    PROVE  /\ count' \in 0 .. MaxCommands
           /\ \/ /\ Standing /\ state = Wanted[op] /\ reply' = "none"
                 /\ queue' \in Seq([op : Command, n : 1 .. MaxCommands])
                 /\ Len(queue') = Len(queue) + 1 /\ DOMAIN queue' = 1 .. Len(queue')
                 /\ queue'[Len(queue')].op = op
                 /\ \A i \in DOMAIN queue' : i # Len(queue') =>
                        queue'[i] = queue[i] /\ i \in DOMAIN queue /\ queue'[i].op \in Borrowing
                 /\ job # NoJob => job.op \in Borrowing
              \/ Killed /\ reply' = "dropped" /\ queue' = queue
<1>1. Met(Wanted[op])
    BY Commands DEF Fits, ClientMet
<1>2. count' = count + 1 /\ count < MaxCommands /\ count' \in 0 .. MaxCommands
    BY WorkerAssumption DEF Send, TypeOK
<1>3. CASE Killed
    BY <1>2, <1>3 DEF Send, Killed
<1>4. CASE ~Killed
    <2>1. /\ Standing /\ state = Wanted[op]
          /\ \A i \in DOMAIN queue : queue[i].op \in Borrowing
          /\ job # NoJob => job.op \in Borrowing
        BY <1>1, <1>4 DEF Met
    <2> DEFINE e == [op |-> op, n |-> count + 1]
    <2>2. reply' = "none" /\ queue' = Append(queue, e)
        BY <2>1 DEF Send, Standing, Alive
    <2>3. e \in [op : Command, n : 1 .. MaxCommands] /\ e.op = op
        BY <1>2, WorkerAssumption DEF TypeOK
    <2> HIDE DEF e
    <2>4. /\ queue' \in Seq([op : Command, n : 1 .. MaxCommands])
          /\ Len(queue') = Len(queue) + 1 /\ DOMAIN queue' = 1 .. Len(queue')
          /\ queue'[Len(queue')] = e
          /\ DOMAIN queue = 1 .. Len(queue) /\ Len(queue) \in Nat
          /\ \A i \in 1 .. Len(queue) : queue'[i] = queue[i]
        BY <2>2, <2>3, QueueSteps, Zenon
    <2>5. ASSUME NEW i \in DOMAIN queue', i # Len(queue')
          PROVE  queue'[i] = queue[i] /\ i \in DOMAIN queue
        BY <2>4, <2>5
    <2> QED BY <1>2, <2>1, <2>2, <2>3, <2>4, <2>5
<1> QED BY <1>3, <1>4

----------------------------------------------------------------------------
(***************************************************************************)
(* The client's steps.  They leave the worker and its log alone.           *)
(***************************************************************************)
LEMMA LogRests ==
    ASSUME LogFollows, UNCHANGED workerVars
    PROVE  /\ LogFollows'
           /\ Killed' <=> Killed
           /\ Alive' <=> Alive
           /\ Standing' <=> Standing
<1>1. /\ UNCHANGED <<worker, state, job>>
      /\ Phase' = Phase /\ \A d : Made(d)' <=> Made(d)
    BY NotLogged DEF workerVars
<1> QED BY <1>1 DEF LogFollows, Killed, Alive, Standing

\* A command is sent, by a method or by the first poll of its future.
LEMMA SendKeeps ==
    ASSUME WorkerInvariant, NEW op \in Command, Calls(Wanted[op]), Send(op), connected,
           op \in Borrowing => holds = Wanted[op],
           future' = op, sent' = TRUE, holds' = IF op \in Borrowing THEN holds ELSE "nothing",
           UNCHANGED <<connected, workerVars, struck>>
    PROVE  WorkerInvariant'
<1> USE DEF WorkerInvariant, Fits, workerVars
<1>1. count' \in 0 .. MaxCommands /\ Wanted[op] \in Typestate /\ Met(Wanted[op])
    BY SendFits, Commands DEF ClientMet
<1>2. LogFollows' /\ (Killed' <=> Killed) /\ (Standing' <=> Standing)
    BY LogRests
<1>3. CASE Killed /\ reply' = "dropped" /\ queue' = queue
    <2>1. worker = "exited" /\ job = NoJob /\ queue = <<>>
        BY <1>3 DEF Killed, JobFits, DeadTakesNothing, Standing, Alive
    <2>2. TypeOK'
        BY <1>1, <1>3 DEF TypeOK, Answer
    <2>3. NeverOutOfSequence' /\ DropNeverCancelsRestart'
        BY <1>3, <2>1 DEF NeverOutOfSequence, DropNeverCancelsRestart
    <2>4. ClientShape' /\ AnswerIsState' /\ Starting'
        BY <1>1, <1>3, <2>1, Kinds DEF ClientShape, AnswerIsState, Starting
    <2>5. DeadTakesNothing' /\ QueueFits' /\ JobFits' /\ ShutdownWaits'
        BY <1>3, <2>1 DEF DeadTakesNothing, QueueFits, JobFits, ShutdownWaits
    <2>6. ClientMet'
        BY <1>2, <1>3 DEF ClientMet, Met
    <2> QED BY <1>2, <2>2, <2>3, <2>4, <2>5, <2>6
<1>4. CASE ~(Killed /\ reply' = "dropped" /\ queue' = queue)
    <2>1. /\ Standing /\ state = Wanted[op] /\ reply' = "none"
          /\ queue' \in Seq([op : Command, n : 1 .. MaxCommands])
          /\ Len(queue') = Len(queue) + 1 /\ DOMAIN queue' = 1 .. Len(queue')
          /\ queue'[Len(queue')].op = op
          /\ \A i \in DOMAIN queue' : i # Len(queue') =>
                queue'[i] = queue[i] /\ i \in DOMAIN queue /\ queue'[i].op \in Borrowing
          /\ job # NoJob => job.op \in Borrowing
        BY <1>4, SendFits, Zenon
    <2>2. TypeOK'
        BY <1>1, <2>1 DEF TypeOK
    <2>3. NeverOutOfSequence' /\ DropNeverCancelsRestart'
        BY <2>1 DEF NeverOutOfSequence, DropNeverCancelsRestart
    <2>4. ClientShape' /\ AnswerIsState' /\ DeadTakesNothing'
        <3>1. ClientShape'
            BY <1>1, <2>1, Kinds DEF ClientShape
        <3>2. AnswerIsState' /\ DeadTakesNothing'
            BY <1>2, <2>1, Kinds DEF AnswerIsState, DeadTakesNothing
        <3> QED BY <3>1, <3>2
    <2>5. Starting'
        BY <1>1, <2>1, Kinds DEF Starting, Standing, Alive
    <2>6. ClientMet'
        <3> SUFFICES ASSUME NEW s \in Typestate, Calls(s)' PROVE Met(s)'
            BY DEF ClientMet
        <3>1. s = Wanted[op] /\ op \in Borrowing
            BY Kinds DEF Calls
        <3>2. \A i \in DOMAIN queue' : queue'[i].op \in Borrowing
            BY <2>1, <3>1
        <3> QED BY <1>2, <2>1, <3>1, <3>2 DEF Met
    <2>7. QueueFits'
        BY <2>1 DEF QueueFits
    <2>8. JobFits'
        BY <2>1 DEF JobFits
    <2>9. ShutdownWaits'
        BY <2>1, Kinds, Commands DEF ShutdownWaits
    <2> QED BY <1>2, <2>2, <2>3, <2>4, <2>5, <2>6, <2>7, <2>8, <2>9
<1> QED BY <1>3, <1>4

LEMMA CallMethodKeeps ==
    ASSUME WorkerInvariant, NEW op \in Command, CallMethod(op)
    PROVE  WorkerInvariant'
<1> USE DEF WorkerInvariant, Fits, CallMethod, workerVars
<1>1. /\ holds = Wanted[op] /\ holds \in Typestate /\ future = "none" /\ Calls(Wanted[op])
      /\ ~sent /\ connected /\ holds \notin {"nothing", "starting"}
    BY Commands, Kinds DEF Calls, ClientShape
<1>2. CASE op \in Eager
    BY <1>1, <1>2, SendKeeps
<1>3. CASE op \notin Eager
    <2> USE <1>1, <1>3
    <2>1. TypeOK'
        BY DEF TypeOK
    <2>2. NeverOutOfSequence' /\ DropNeverCancelsRestart' /\ LogFollows'
        BY LogRests DEF NeverOutOfSequence, DropNeverCancelsRestart
    <2>3. ClientShape' /\ AnswerIsState' /\ DeadTakesNothing' /\ QueueFits' /\ JobFits'
        BY Kinds, LogRests DEF ClientShape, AnswerIsState, DeadTakesNothing, QueueFits, JobFits, Standing, Alive
    <2>4. Starting'
        <3>1. Standing \/ Killed
            BY DEF ClientMet, Met
        <3> QED BY <3>1 DEF Starting, Standing, Alive, Killed
    <2>5. ClientMet'
        <3>1. ASSUME NEW s \in Typestate, Calls(s)' PROVE Calls(s)
            BY <3>1, Kinds DEF Calls
        <3>2. /\ queue' = queue /\ state' = state /\ job' = job
              /\ (Standing' <=> Standing) /\ (Killed' <=> Killed)
            BY LogRests
        <3>3. ClientMet
            OBVIOUS
        <3> HIDE DEF WorkerInvariant, Fits, CallMethod, workerVars
        <3> QED BY <3>1, <3>2, <3>3, Zenon DEF ClientMet, Met
    <2>6. ShutdownWaits'
        BY Kinds DEF ShutdownWaits
    <2> QED BY <2>1, <2>2, <2>3, <2>4, <2>5, <2>6
<1> QED BY <1>2, <1>3

LEMMA FirstPollKeeps == WorkerInvariant /\ FirstPoll => WorkerInvariant'
<1> SUFFICES ASSUME WorkerInvariant, FirstPoll PROVE WorkerInvariant'
    OBVIOUS
<1>1. /\ future \in Command /\ connected
      /\ future \in Borrowing => holds = Wanted[future]
      /\ future \notin Borrowing => holds = "nothing"
    BY Kinds DEF FirstPoll, WorkerInvariant, Fits, ClientShape
<1>2. Calls(Wanted[future])
    BY <1>1, Kinds DEF FirstPoll, Calls
<1> QED BY <1>1, <1>2, SendKeeps DEF FirstPoll

\* What is left of a future that resolves, or of new() and join(): the typestate
\* answered, or nothing.
LEMMA AnsweredKeeps ==
    ASSUME WorkerInvariant, reply # "none", NEW Consumes \in BOOLEAN,
           Consumes => holds = "starting" \/ future \in Consuming,
           ~Consumes => future \in Borrowing,
           IF Consumes
           THEN /\ holds' = IF reply \in Typestate THEN reply ELSE "nothing"
                /\ connected' = (reply \in Typestate)
           ELSE UNCHANGED <<holds, connected>>,
           future' = "none", sent' = FALSE, reply' = "none",
           UNCHANGED <<count, queue, workerVars, struck>>
    PROVE  WorkerInvariant'
<1> USE DEF WorkerInvariant, Fits, workerVars
<1>1. TypeOK'
    <2>1. holds' \in Typestate \cup {"starting", "nothing"}
        BY DEF TypeOK
    <2>2. connected' \in BOOLEAN
        <3>1. CASE Consumes
            BY <3>1
        <3>2. CASE ~Consumes
            BY <3>2 DEF TypeOK
        <3> QED BY <3>1, <3>2
    <2> QED BY <2>1, <2>2 DEF TypeOK
<1>2. NeverOutOfSequence' /\ DropNeverCancelsRestart' /\ LogFollows'
    BY LogRests DEF NeverOutOfSequence, DropNeverCancelsRestart
<1>3. AnswerIsState' /\ DeadTakesNothing' /\ QueueFits'
    BY Kinds, LogRests DEF AnswerIsState, DeadTakesNothing, QueueFits, Standing, Alive
<1>4. ClientShape'
    BY Kinds, Commands DEF ClientShape
<1>5. JobFits' /\ ShutdownWaits'
    BY Kinds, Commands DEF JobFits, ClientShape, ShutdownWaits
<1>6. Starting'
    BY Kinds DEF Starting, AnswerIsState, ClientShape, Killed
<1>7. ClientMet'
    <2> SUFFICES ASSUME NEW s \in Typestate, Calls(s)'
                 PROVE  Met(s)'
        BY DEF ClientMet, Met
    <2>1. holds' = s
        BY Kinds DEF Calls
    <2>2. CASE Consumes
        <3>1. reply = s /\ reply \in Typestate
            BY <2>1, <2>2, Kinds
        <3>2. Killed \/ (Standing /\ queue = <<>> /\ state = s /\ job = NoJob)
            BY <3>1 DEF AnswerIsState, Standing, Alive
        <3> QED BY <3>2, LogRests DEF Met
    <2>3. CASE ~Consumes
        <3>1. Calls(s)
            BY <2>1, <2>3 DEF Calls
        <3> QED BY <3>1, LogRests DEF ClientMet, Met
    <2> QED BY <2>2, <2>3
<1> QED BY <1>1, <1>2, <1>3, <1>4, <1>5, <1>6, <1>7

LEMMA StartedKeeps == WorkerInvariant /\ Started => WorkerInvariant'
<1> SUFFICES ASSUME WorkerInvariant, Started PROVE WorkerInvariant'
    OBVIOUS
<1>1. future = "none" /\ sent = FALSE /\ reply # "none" /\ holds = "starting"
    BY Kinds DEF WorkerInvariant, Fits, ClientShape, TypeOK, Started
<1>2. /\ holds' = IF reply \in Typestate THEN reply ELSE "nothing"
      /\ connected' = (reply \in Typestate)
      /\ future' = "none" /\ sent' = FALSE /\ reply' = "none"
      /\ UNCHANGED <<count, queue, workerVars, struck>>
    BY <1>1 DEF Started
<1> QED BY <1>1, <1>2, AnsweredKeeps

LEMMA ResolveKeeps == WorkerInvariant /\ Resolve => WorkerInvariant'
<1> SUFFICES ASSUME WorkerInvariant, Resolve PROVE WorkerInvariant'
    OBVIOUS
<1>1. future \in Borrowing \/ future \in Consuming
    BY Kinds DEF Resolve
<1>2. CASE future \in Borrowing
    BY <1>2, AnsweredKeeps DEF Resolve
<1>3. CASE future \in Consuming
    BY <1>3, Kinds, AnsweredKeeps DEF Resolve
<1> QED BY <1>1, <1>2, <1>3

LEMMA DropTypestateKeeps == WorkerInvariant /\ DropTypestate => WorkerInvariant'
<1> SUFFICES ASSUME WorkerInvariant, DropTypestate PROVE WorkerInvariant'
    OBVIOUS
<1> USE DEF WorkerInvariant, Fits, DropTypestate, workerVars
<1>1. TypeOK' /\ NeverOutOfSequence' /\ DropNeverCancelsRestart' /\ LogFollows'
    BY LogRests DEF TypeOK, NeverOutOfSequence, DropNeverCancelsRestart
<1>2. ClientShape' /\ AnswerIsState' /\ Starting' /\ DeadTakesNothing' /\ QueueFits' /\ JobFits'
    BY Kinds, LogRests DEF ClientShape, AnswerIsState, Starting, DeadTakesNothing, QueueFits, JobFits, Standing, Alive
<1>3. ClientMet' /\ ShutdownWaits'
    BY Kinds, LogRests DEF ClientMet, Met, Calls, ShutdownWaits
<1> QED BY <1>1, <1>2, <1>3

LEMMA DropFutureKeeps == WorkerInvariant /\ DropFuture => WorkerInvariant'
<1> SUFFICES ASSUME WorkerInvariant, DropFuture PROVE WorkerInvariant'
    OBVIOUS
<1> USE DEF WorkerInvariant, Fits, DropFuture, workerVars
<1>0. connected' \in BOOLEAN
    OBVIOUS
<1>1. TypeOK' /\ NeverOutOfSequence' /\ DropNeverCancelsRestart' /\ LogFollows'
    BY <1>0, LogRests DEF TypeOK, NeverOutOfSequence, DropNeverCancelsRestart
<1>2. ClientShape'
    BY Kinds, Commands DEF ClientShape
<1>3. AnswerIsState' /\ DeadTakesNothing' /\ QueueFits'
    BY Kinds, LogRests DEF AnswerIsState, DeadTakesNothing, QueueFits, Standing, Alive
<1>4. JobFits' /\ Starting' /\ ShutdownWaits'
    BY Kinds DEF JobFits, ClientShape, Starting, ShutdownWaits
<1>5. ClientMet'
    <2>1. ASSUME NEW s \in Typestate, Calls(s)' PROVE Calls(s)
        BY <2>1, Kinds DEF Calls
    <2>2. /\ queue' = queue /\ state' = state /\ job' = job
          /\ (Standing' <=> Standing) /\ (Killed' <=> Killed)
        BY LogRests
    <2>3. ClientMet
        OBVIOUS
    <2> HIDE DEF WorkerInvariant, Fits, DropFuture, workerVars
    <2> QED BY <2>1, <2>2, <2>3, Zenon DEF ClientMet, Met
<1> QED BY <1>1, <1>2, <1>3, <1>4, <1>5

\* The drop of a shutdown future: the cancellation cannot strike a restart.
LEMMA DropShutdownKeeps == WorkerInvariant /\ DropShutdown => WorkerInvariant'
<1> SUFFICES ASSUME WorkerInvariant, DropShutdown PROVE WorkerInvariant'
    OBVIOUS
<1> USE DEF WorkerInvariant, Fits, DropShutdown, workerVars
<1>1. TypeOK' /\ NeverOutOfSequence' /\ DropNeverCancelsRestart' /\ LogFollows'
    BY LogRests DEF TypeOK, NeverOutOfSequence, DropNeverCancelsRestart
<1>2. ClientShape'
    BY Kinds, Commands DEF ClientShape
<1>3. AnswerIsState' /\ DeadTakesNothing' /\ QueueFits' /\ JobFits'
    BY Kinds, LogRests DEF AnswerIsState, DeadTakesNothing, QueueFits, JobFits, Standing, Alive
<1>4. Starting' /\ ShutdownWaits'
    BY Kinds DEF ClientShape, Starting, ShutdownWaits
<1>5. ClientMet'
    BY Kinds, LogRests DEF ClientMet, Met, ClientShape, Calls
<1> QED BY <1>1, <1>2, <1>3, <1>4, <1>5

LEMMA CancelKeeps ==
    ASSUME WorkerInvariant, NEW strikes \in BOOLEAN, Cancel(strikes)
    PROVE  WorkerInvariant'
<1> USE DEF WorkerInvariant, Fits, Cancel, workerVars
<1>1. Running \cap Restarts = {} /\ Running \subseteq Command \cup {"unwinding"}
    <2>1. connected /\ (job # NoJob => job.op \notin Restarts)
        BY DEF ClientShape, ShutdownWaits
    <2>2. worker = "native" => Running = {job.op} /\ job # NoJob /\ job.op \in Command
        BY DEF Running, JobFits, TypeOK
    <2>3. worker # "recovering"
        BY <2>1 DEF JobFits
    <2>4. worker # "native" => Running \subseteq {"unwinding"}
        BY <2>3 DEF Running
    <2>5. "unwinding" \notin Restarts
        BY DEF Restarts
    <2> QED BY <2>1, <2>2, <2>4, <2>5
<1>2. TypeOK' /\ NeverOutOfSequence' /\ LogFollows'
    BY <1>1, LogRests DEF TypeOK, NeverOutOfSequence
<1>3. DropNeverCancelsRestart'
    BY <1>1 DEF DropNeverCancelsRestart
<1>4. ClientShape' /\ AnswerIsState' /\ DeadTakesNothing' /\ QueueFits' /\ JobFits'
    BY Kinds, LogRests DEF ClientShape, AnswerIsState, DeadTakesNothing, QueueFits, JobFits, Standing, Alive
<1>5. ClientMet' /\ Starting' /\ ShutdownWaits'
    BY Kinds, LogRests DEF ClientMet, Met, ClientShape, Calls, Starting, ShutdownWaits
<1> QED BY <1>2, <1>3, <1>4, <1>5

LEMMA DisconnectKeeps == WorkerInvariant /\ Disconnect => WorkerInvariant'
<1> SUFFICES ASSUME WorkerInvariant, Disconnect PROVE WorkerInvariant'
    OBVIOUS
<1> USE DEF WorkerInvariant, Fits, Disconnect, workerVars
<1>1. TypeOK' /\ NeverOutOfSequence' /\ DropNeverCancelsRestart' /\ LogFollows'
    BY LogRests DEF TypeOK, NeverOutOfSequence, DropNeverCancelsRestart
<1>2. ClientShape' /\ AnswerIsState' /\ DeadTakesNothing' /\ QueueFits' /\ JobFits'
    BY Kinds, LogRests DEF ClientShape, AnswerIsState, DeadTakesNothing, QueueFits, JobFits, Standing, Alive
<1>3. ClientMet' /\ Starting' /\ ShutdownWaits'
    BY Kinds, LogRests DEF ClientMet, Met, ClientShape, Calls, Starting, ShutdownWaits
<1> QED BY <1>1, <1>2, <1>3

----------------------------------------------------------------------------
(***************************************************************************)
(* The worker's steps.  Each moves the recovery contract, or leaves it.    *)
(***************************************************************************)
ContractMoves ==
    \/ Phase = "open" /\ Phase' = "owed" /\ Attempts' = Attempts
    \/ Phase \in {"owed", "tried"} /\ Phase' = "tried" /\ Attempts' = Attempts + 1
    \/ Phase = "owed" /\ Phase' = "waived" /\ Attempts' = Attempts
    \/ Phase \in {"open", "tried", "waived"} /\ Phase' = "ended" /\ Attempts' = Attempts
    \/ Phase' = Phase /\ Attempts' = Attempts

LEMMA WorkerStartKeeps ==
    ASSUME WorkerInvariant, WorkerStart \/ WorkerStartFails
    PROVE  WorkerInvariant' /\ ContractMoves
<1> USE DEF WorkerInvariant, Fits, WorkerStart, WorkerStartFails, clientVars
<1>1. /\ worker = "starting" /\ state \in Unopened /\ log = <<>> /\ queue = <<>> /\ job = NoJob
      /\ holds \in {"starting", "nothing"} /\ future = "none" /\ ~sent /\ reply' \in Answer \cup {"none"}
      /\ holds # "starting" => reply = "none" /\ reply' = "none"
    <2>1. /\ worker = "starting" /\ state \in Unopened /\ log = <<>> /\ queue = <<>> /\ job = NoJob
          /\ holds \in {"starting", "nothing"} /\ future = "none"
        BY DEF Starting, DeadTakesNothing, JobFits, Standing, Alive
    <2>2. ~sent /\ (holds # "starting" => reply = "none" /\ reply' = "none")
        BY <2>1, Kinds DEF ClientShape
    <2>3. reply' \in Answer \cup {"none"}
        BY <2>1 DEF TypeOK, Unopened, Typestate, Answer
    <2> QED BY <2>1, <2>2, <2>3
<1>2. \A s \in Typestate : ~Calls(s)'
    BY <1>1, Kinds DEF Calls
<1>3. /\ Phase = "open" /\ log' \in Seq(LogCall)
      /\ log' = log \/ (Phase' = "ended" /\ Attempts' = Attempts)
    <2>1. Phase = "open"
        BY <1>1 DEF Phase, Made
    <2>2. CASE log' = log
        BY <2>1, <2>2, <1>1
    <2>3. CASE log' = <<"end">>
        <3>1. /\ log \in Seq(LogCall) /\ log' \in Seq(LogCall)
              /\ log' = Append(log, "end") /\ "end" \in LogCall
            BY <1>1, <2>3 DEF LogCall
        <3> HIDE DEF WorkerInvariant, Fits, WorkerStart, WorkerStartFails, clientVars
        <3>2. Phase' = "ended" /\ Attempts' = Attempts
            BY <3>1, Logged, AttemptsAfter
        <3> QED BY <2>1, <3>1, <3>2
    <2>4. log' = log \/ log' = <<"end">>
        OBVIOUS
    <2> QED BY <2>1, <2>2, <2>3, <2>4, Zenon
<1>4. ContractMoves
    BY <1>3, NotLogged DEF ContractMoves
<1>5. TypeOK'
    BY <1>1, <1>3 DEF TypeOK, LogCall
<1>6. NeverOutOfSequence' /\ DropNeverCancelsRestart' /\ ShutdownWaits'
    BY <1>1, Kinds DEF NeverOutOfSequence, DropNeverCancelsRestart, ShutdownWaits, Unopened
<1>7. ClientShape' /\ Starting' /\ DeadTakesNothing' /\ QueueFits' /\ JobFits'
    BY <1>1, Kinds DEF ClientShape, Starting, DeadTakesNothing, QueueFits, JobFits
<1>8. ClientMet' /\ AnswerIsState'
    BY <1>1, <1>2, Kinds DEF ClientMet, AnswerIsState
<1>9. LogFollows'
    BY <1>1, <1>3, NotLogged DEF LogFollows, Unopened
<1> QED BY <1>4, <1>5, <1>6, <1>7, <1>8, <1>9

\* The client learns that the session is there, and the worker is already dying.
LEMMA StartPanicsKeeps ==
    WorkerInvariant /\ WorkerStartPanics => WorkerInvariant' /\ ContractMoves
<1> SUFFICES ASSUME WorkerInvariant, WorkerStartPanics PROVE WorkerInvariant' /\ ContractMoves
    OBVIOUS
<1> USE DEF WorkerInvariant, Fits, clientVars
<1>1. /\ worker = "starting" /\ worker' = "unwinding" /\ state \in Unopened /\ holds = "starting"
      /\ log = <<>> /\ log' = <<"panic">> /\ queue = <<>> /\ job = NoJob /\ future = "none"
      /\ reply' = state
      /\ UNCHANGED <<holds, future, sent, connected, count, queue, state, job, struck>>
    BY DEF WorkerStartPanics, Starting, DeadTakesNothing, JobFits, Standing, Alive
<1>2. ~sent /\ \A s \in Typestate : ~Calls(s)'
    BY <1>1, Kinds DEF ClientShape, Calls
<1>3. log \in Seq(LogCall) /\ log' \in Seq(LogCall) /\ "panic" \in LogCall /\ log' = Append(log, "panic")
    BY <1>1 DEF TypeOK, LogCall
<1>4. Phase = "open" /\ Phase' = Phase /\ Attempts' = Attempts /\ Made("panic")'
    <2>1. Phase = "open"
        BY <1>1 DEF Phase, Made
    <2> QED BY <1>3, <2>1, Logged, MadeAfter
<1>5. TypeOK'
    <2>1. reply' \in Answer \cup {"none"}
        BY <1>1 DEF Answer, Typestate, Unopened
    <2> QED BY <1>1, <1>3, <2>1 DEF TypeOK, LogCall
<1>6. NeverOutOfSequence' /\ DropNeverCancelsRestart' /\ ShutdownWaits'
    BY <1>1, Kinds DEF NeverOutOfSequence, DropNeverCancelsRestart, ShutdownWaits, Unopened
<1>7. ClientShape' /\ Starting' /\ DeadTakesNothing'
    BY <1>1, <1>2, Kinds DEF ClientShape, Starting, DeadTakesNothing
<1>8. AnswerIsState' /\ QueueFits' /\ JobFits'
    BY <1>1 DEF AnswerIsState, QueueFits, JobFits
<1>9. ClientMet'
    BY <1>2 DEF ClientMet
<1>10. LogFollows'
    BY <1>1, <1>4 DEF LogFollows, Unopened
<1> QED BY <1>4, <1>5, <1>6, <1>7, <1>8, <1>9, <1>10 DEF ContractMoves

LEMMA Received ==
    ASSUME WorkerInvariant, Receive, NEW op, op = Head(queue).op
    PROVE  /\ op \in Command /\ Head(queue).n \in 1 .. MaxCommands
           /\ worker = "ready" /\ job = NoJob /\ state = Wanted[op]
           /\ queue' \in Seq([op : Command, n : 1 .. MaxCommands])
           /\ \A i \in DOMAIN queue' :
                /\ queue'[i] = queue[i + 1] /\ i + 1 \in DOMAIN queue
                /\ i = Len(queue') <=> i + 1 = Len(queue)
           /\ op \notin Borrowing => queue' = <<>>
           /\ reply \notin Typestate /\ holds # "starting"
           /\ \A s \in Typestate : Calls(s) => op \in Borrowing
           /\ future \in Shutdowns \cup {"dropping", "cancelled"} => op \notin Restarts
<1>1. /\ worker = "ready" /\ queue # <<>> /\ queue' = Tail(queue)
      /\ TypeOK /\ QueueFits /\ JobFits /\ AnswerIsState /\ Starting /\ ClientMet /\ ShutdownWaits
    BY DEF Receive, WorkerInvariant, Fits
<1>2. /\ DOMAIN queue = 1 .. Len(queue) /\ Len(queue) \in Nat
      /\ \A i \in 1 .. Len(queue) : queue[i] \in [op : Command, n : 1 .. MaxCommands]
      /\ Len(queue) > 0 /\ Head(queue) = queue[1]
      /\ queue' \in Seq([op : Command, n : 1 .. MaxCommands])
      /\ Len(queue') = Len(queue) - 1 /\ DOMAIN queue' = 1 .. Len(queue')
      /\ \A i \in 1 .. Len(queue') : queue'[i] = queue[i + 1]
      /\ Len(queue) = 1 => queue' = <<>>
    BY <1>1, QueueSteps
<1>3. 1 \in DOMAIN queue /\ queue[1].op = op /\ op \in Command /\ Head(queue).n \in 1 .. MaxCommands
    BY <1>2
<1>4. state = Wanted[op] /\ (op \notin Borrowing => queue' = <<>>)
    BY <1>1, <1>2, <1>3 DEF QueueFits
<1>5. job = NoJob /\ reply \notin Typestate /\ holds # "starting"
    BY <1>1 DEF JobFits, AnswerIsState, Starting, Killed
<1>6. \A s \in Typestate : Calls(s) => op \in Borrowing
    BY <1>1, <1>3 DEF ClientMet, Met, Killed
<1>7. future \in Shutdowns \cup {"dropping", "cancelled"} => op \notin Restarts
    BY <1>1, <1>3 DEF ShutdownWaits
<1>8. \A i \in DOMAIN queue' :
        /\ queue'[i] = queue[i + 1] /\ i + 1 \in DOMAIN queue
        /\ i = Len(queue') <=> i + 1 = Len(queue)
    BY <1>2
<1> QED BY <1>1, <1>2, <1>3, <1>4, <1>5, <1>6, <1>7, <1>8

\* Whatever a command turns out to be, it is executed in its typestate.
LEMMA ExecuteKeeps ==
    ASSUME WorkerInvariant, Receive, NEW op, op = Head(queue).op, NEW answer,
           job' = [op |-> op, n |-> Head(queue).n, answer |-> answer],
           state' \in Typestate \cup {"Empty"}, op \in Borrowing => state' = state,
           \/ /\ worker' = "native" /\ answer = "none" /\ op # "LeaveStopped"
              /\ state' = IF op \in Borrowing THEN state ELSE "Empty"
           \/ worker' = "replying" /\ answer = state' /\ answer \in Typestate /\ op \notin Borrowing,
           log' \in Seq(LogCall), LogFollows'
    PROVE  WorkerInvariant'
<1>1. /\ op \in Command /\ Head(queue).n \in 1 .. MaxCommands
      /\ worker = "ready" /\ job = NoJob /\ state = Wanted[op]
      /\ queue' \in Seq([op : Command, n : 1 .. MaxCommands])
      /\ \A i \in DOMAIN queue' :
            /\ queue'[i] = queue[i + 1] /\ i + 1 \in DOMAIN queue
            /\ i = Len(queue') <=> i + 1 = Len(queue)
      /\ op \notin Borrowing => queue' = <<>>
      /\ reply \notin Typestate /\ holds # "starting"
      /\ \A s \in Typestate : Calls(s) => op \in Borrowing
      /\ future \in Shutdowns \cup {"dropping", "cancelled"} => op \notin Restarts
    BY Received
<1>2. UNCHANGED <<holds, future, sent, connected, count, reply, struck>>
    BY DEF Receive, clientVars
<1>3. /\ answer \in Answer \cup {"none"} /\ answer # "wrong"
      /\ job' # NoJob /\ job'.op = op /\ job'.answer = answer
    BY Kinds DEF Answer, NoJob
<1> USE DEF WorkerInvariant, Fits
<1>4. TypeOK'
    <2>1. job' \in [op : Command, n : 1 .. MaxCommands, answer : Answer \cup {"none"}]
        BY <1>1, <1>3
    <2> QED BY <1>1, <1>2, <2>1 DEF TypeOK, LogCall
<1>5. NeverOutOfSequence' /\ DropNeverCancelsRestart'
    BY <1>2, <1>3 DEF NeverOutOfSequence, DropNeverCancelsRestart
<1>6. ClientShape' /\ AnswerIsState' /\ Starting' /\ DeadTakesNothing'
    BY <1>1, <1>2 DEF ClientShape, AnswerIsState, Starting, DeadTakesNothing, Standing, Alive
<1>7. QueueFits'
    <2>1. CASE op \in Borrowing
        BY <1>1, <2>1 DEF QueueFits
    <2>2. CASE op \notin Borrowing
        BY <1>1, <2>2 DEF QueueFits
    <2> QED BY <2>1, <2>2
<1>8. JobFits'
    BY <1>1, <1>2, <1>3 DEF JobFits
<1>9. ClientMet'
    <2> SUFFICES ASSUME NEW s \in Typestate, Calls(s)' PROVE Met(s)'
        BY DEF ClientMet
    <2>1. Calls(s)
        BY <1>2 DEF Calls
    <2>2. Met(s) /\ op \in Borrowing /\ state' = state
        BY <1>1, <2>1 DEF ClientMet
    <2>3. state = s /\ \A i \in DOMAIN queue' : queue'[i].op \in Borrowing
        BY <1>1, <2>2 DEF Met, Killed
    <2> QED BY <1>3, <2>2, <2>3 DEF Met, Standing, Alive
<1>10. ShutdownWaits'
    BY <1>1, <1>2, <1>3 DEF ShutdownWaits
<1> QED BY <1>4, <1>5, <1>6, <1>7, <1>8, <1>9, <1>10

\* What Begin appends to the log, and what that means for the contract.
LEMMA BeginLogs ==
    ASSUME WorkerInvariant, NEW op \in Command \ {"LeaveStopped"}, Begin(op),
           worker = "ready"
    PROVE  /\ log' \in Seq(LogCall) /\ ContractMoves
           /\ op \in Borrowing => Phase' = Phase
           /\ op \in Shutdowns => Phase' = "owed"
           /\ op \in Restarts => Phase' = "tried"
           /\ op \in Ending => Phase' = "ended"
<1>1. log \in Seq(LogCall) /\ LogCall = {"shutdown", "restart", "leave", "end", "panic"}
    BY DEF WorkerInvariant, TypeOK, LogCall
<1>2. state = Wanted[op]
    BY DEF Begin
<1>3. /\ op \in Shutdowns => Phase = "open"
      /\ op \in Restarts => Phase = "owed"
      /\ op \in Ending => Phase \in {"open", "tried", "waived"}
    BY <1>2, Commands DEF WorkerInvariant, LogFollows, Unopened
<1>4. /\ op \in Shutdowns => log' = Append(log, "shutdown")
      /\ op \in Restarts => log' = Append(log, "restart")
      /\ op \in Ending => log' = Append(log, "end")
      /\ op \in Borrowing => log' = log
    <2>1. \A c \in LogCall : log \o <<c>> = Append(log, c)
        BY <1>1
    <2>2. log \o <<>> = log
        BY <1>1
    <2> QED BY <1>1, <2>1, <2>2, Kinds DEF Begin
<1>5. op \in Shutdowns \/ op \in Restarts \/ op \in Ending \/ op \in Borrowing
    BY Kinds
<1>6. CASE op \in Borrowing
    BY <1>1, <1>4, <1>6, NotLogged, Kinds DEF ContractMoves
<1>7. ASSUME NEW c \in LogCall, log' = Append(log, c)
      PROVE  /\ log' \in Seq(LogCall)
             /\ c = "end" => Phase' = "ended"
             /\ c = "restart" /\ Phase \in {"owed", "tried"} => Phase' = "tried"
             /\ c = "shutdown" /\ Phase = "open" => Phase' = "owed"
             /\ Attempts' = IF c = "restart" THEN Attempts + 1 ELSE Attempts
    <2>1. log' \in Seq(LogCall)
        BY <1>1, <1>7
    <2> QED BY <1>1, <1>7, <2>1, Logged, AttemptsAfter
<1>8. CASE op \in Shutdowns
    BY <1>1, <1>3, <1>4, <1>7, <1>8, Kinds DEF ContractMoves
<1>9. CASE op \in Restarts
    BY <1>1, <1>3, <1>4, <1>7, <1>9, Kinds DEF ContractMoves
<1>10. CASE op \in Ending
    BY <1>1, <1>3, <1>4, <1>7, <1>10, Kinds DEF ContractMoves
<1> QED BY <1>5, <1>6, <1>8, <1>9, <1>10

LEMMA ReceiveKeeps == WorkerInvariant /\ Receive => WorkerInvariant' /\ ContractMoves
<1> SUFFICES ASSUME WorkerInvariant, Receive PROVE WorkerInvariant' /\ ContractMoves
    OBVIOUS
<1> DEFINE op == Head(queue).op
<1>1. op \in Command /\ worker = "ready" /\ state = Wanted[op] /\ state \in Typestate
    BY Received, Commands
<1>2. LeaseRefused(op) \/ Begin(op) \/ LeaveStopped(op)
    BY <1>1 DEF Receive, WrongState
<1>3. LogFollows /\ log \in Seq(LogCall)
    BY DEF WorkerInvariant, TypeOK, LogCall
<1> HIDE DEF op
<1>4. CASE LeaseRefused(op)
    <2>1. /\ job' = [op |-> op, n |-> Head(queue).n, answer |-> state]
          /\ worker' = "replying" /\ state' = state /\ log' = log /\ op \notin Borrowing
        BY <1>4, Kinds DEF LeaseRefused, Answered
    <2>2. LogFollows'
        BY <1>1, <1>3, <2>1, NotLogged DEF LogFollows
    <2>3. WorkerInvariant'
        BY <1>1, <1>3, <2>1, <2>2, ExecuteKeeps DEF op
    <2> QED BY <2>1, <2>3, NotLogged DEF ContractMoves
<1>5. CASE LeaveStopped(op)
    <2>1. /\ job' = [op |-> op, n |-> Head(queue).n, answer |-> "Completion"]
          /\ worker' = "replying" /\ state' = "Completion" /\ log' = Append(log, "leave")
          /\ state = "Pending" /\ op \notin Borrowing /\ "Completion" \in Typestate
        BY <1>5, Kinds DEF LeaveStopped, Answered, Consuming, Borrowing, Typestate
    <2>2. log' \in Seq(LogCall) /\ "leave" \in LogCall
        BY <1>3, <2>1 DEF LogCall
    <2>3. Phase = "owed" /\ Phase' = "waived" /\ Attempts' = Attempts
        BY <1>1, <1>3, <2>1, <2>2, Logged, AttemptsAfter DEF LogFollows
    <2>4. LogFollows'
        BY <2>1, <2>3 DEF LogFollows, Unopened
    <2>5. WorkerInvariant'
        BY <2>1, <2>2, <2>4, ExecuteKeeps DEF op
    <2> QED BY <2>3, <2>5 DEF ContractMoves
<1>6. CASE Begin(op)
    <2>1. /\ job' = [op |-> op, n |-> Head(queue).n, answer |-> "none"]
          /\ worker' = "native" /\ op # "LeaveStopped"
          /\ state' = IF op \in Borrowing THEN state ELSE "Empty"
        BY <1>6 DEF Begin, Took, op
    <2>2. /\ log' \in Seq(LogCall) /\ ContractMoves
          /\ op \in Borrowing => Phase' = Phase
          /\ op \in Shutdowns => Phase' = "owed"
          /\ op \in Restarts => Phase' = "tried"
          /\ op \in Ending => Phase' = "ended"
        BY <1>1, <1>6, <2>1, BeginLogs
    <2>3. LogFollows'
        BY <1>1, <1>3, <2>1, <2>2, Kinds DEF LogFollows
    <2>4. WorkerInvariant'
        BY <1>1, <2>1, <2>2, <2>3, ExecuteKeeps DEF op
    <2> QED BY <2>2, <2>4
<1> QED BY <1>2, <1>4, <1>5, <1>6

LEMMA NativeReturnKeeps == WorkerInvariant /\ NativeReturn => WorkerInvariant' /\ ContractMoves
<1> SUFFICES ASSUME WorkerInvariant, NativeReturn PROVE WorkerInvariant' /\ ContractMoves
    OBVIOUS
<1> USE DEF WorkerInvariant, Fits
<1>1. /\ worker = "native" /\ worker' = "replying"
      /\ UNCHANGED <<holds, future, sent, connected, count, reply, queue, log, struck>>
    BY DEF NativeReturn, clientVars
<1>2. /\ job \in [op : Command, n : 1 .. MaxCommands, answer : Answer \cup {"none"}]
      /\ job # NoJob /\ job.answer = "none" /\ job.op # "LeaveStopped" /\ job.op \in Command
      /\ state = IF job.op \in Borrowing THEN Wanted[job.op] ELSE "Empty"
      /\ job.op \notin Borrowing => queue = <<>>
    BY <1>1 DEF TypeOK, JobFits
<1>3. /\ job.op \in Shutdowns => state' = "Pending"
      /\ job.op \in Restarts => state' = "Completion"
      /\ job.op \in Borrowing \cup Ending => state' = state
    BY <1>2, Kinds DEF NativeReturn
<1>4. /\ job' \in [op : Command, n : 1 .. MaxCommands, answer : Answer \cup {"none"}]
      /\ job' # NoJob /\ job'.op = job.op
      /\ job'.answer = IF job.op \in Eager THEN state' ELSE "done"
      /\ state' \in Typestate \cup {"Empty"} /\ job'.answer # "wrong"
    <2>1. state' \in Typestate \cup {"Empty"} /\ (job.op \in Eager => state' \in Typestate)
        BY <1>2, <1>3, Kinds, Commands DEF Typestate
    <2>2. job' = [job EXCEPT !.answer = IF job.op \in Eager THEN state' ELSE "done"]
        BY <1>2 DEF NativeReturn
    <2>3. (IF job.op \in Eager THEN state' ELSE "done") \in Answer
        BY <2>1 DEF Answer
    <2>4. /\ job' \in [op : Command, n : 1 .. MaxCommands, answer : Answer \cup {"none"}]
          /\ job'.op = job.op /\ job'.answer = IF job.op \in Eager THEN state' ELSE "done"
        BY <1>2, <2>2, <2>3
    <2>5. job' # NoJob
        <3>1. "none" \notin Command
            BY Kinds
        <3> QED BY <2>4, <3>1 DEF NoJob
    <2> QED BY <2>1, <2>4, <2>5, Kinds
<1>5. TypeOK' /\ NeverOutOfSequence' /\ DropNeverCancelsRestart'
    BY <1>1, <1>4 DEF TypeOK, NeverOutOfSequence, DropNeverCancelsRestart
<1>6. ClientShape' /\ AnswerIsState' /\ Starting' /\ DeadTakesNothing'
    BY <1>1 DEF ClientShape, AnswerIsState, Starting, DeadTakesNothing, Killed, Standing, Alive
<1>7. QueueFits' /\ JobFits'
    BY <1>1, <1>2, <1>3, <1>4, Kinds DEF QueueFits, JobFits
<1>8. ClientMet'
    <2> SUFFICES ASSUME NEW s \in Typestate, Calls(s)' PROVE Met(s)'
        BY DEF ClientMet
    <2>1. Met(s)
        BY <1>1 DEF Calls, ClientMet
    <2> QED BY <1>1, <1>2, <1>3, <1>4, <2>1 DEF Met, Killed, Standing, Alive
<1>9. ShutdownWaits'
    BY <1>1, <1>2, <1>4 DEF ShutdownWaits
<1>10. Phase' = Phase /\ Attempts' = Attempts
    BY <1>1, NotLogged
<1>11. LogFollows'
    <2>1. CASE job.op \in Borrowing
        BY <1>1, <1>3, <1>10, <2>1 DEF LogFollows
    <2>2. CASE job.op \in Shutdowns \cup Restarts
        BY <1>1, <1>3, <1>10, <2>2, Kinds DEF LogFollows, Unopened
    <2>3. CASE job.op \in Ending
        BY <1>1, <1>2, <1>3, <1>10, <2>3, Kinds DEF LogFollows, Unopened
    <2> QED BY <1>2, <2>1, <2>2, <2>3, Kinds
<1> QED BY <1>5, <1>6, <1>7, <1>8, <1>9, <1>10, <1>11 DEF ContractMoves

\* What the answer of a command does, whether the worker goes on or dies of it.
LEMMA AnswerKeeps ==
    ASSUME WorkerInvariant, worker = "replying", worker' \in {"ready", "unwinding"}, job' = NoJob,
           reply' = (IF sent /\ job.n = count THEN job.answer ELSE reply),
           UNCHANGED <<holds, future, sent, connected, count, queue, state, struck>>,
           log' \in Seq(LogCall), LogFollows'
    PROVE  WorkerInvariant'
<1> USE DEF WorkerInvariant, Fits
<1>1. reply' = reply \/ (sent /\ reply' = job.answer)
    OBVIOUS
<1>2. /\ job \in [op : Command, n : 1 .. MaxCommands, answer : Answer \cup {"none"}]
      /\ job # NoJob /\ (job.answer \in Typestate => job.answer = state /\ queue = <<>>)
    BY DEF TypeOK, JobFits
<1>3. TypeOK' /\ NeverOutOfSequence' /\ DropNeverCancelsRestart'
    BY <1>1, <1>2 DEF TypeOK, NeverOutOfSequence, DropNeverCancelsRestart, LogCall
<1>4. ClientShape' /\ Starting' /\ DeadTakesNothing'
    BY <1>1 DEF ClientShape, Starting, DeadTakesNothing, Standing, Alive
<1>5. AnswerIsState' /\ QueueFits' /\ JobFits' /\ ShutdownWaits'
    BY <1>1, <1>2 DEF AnswerIsState, QueueFits, JobFits, ShutdownWaits, Killed
<1>6. ClientMet'
    <2> SUFFICES ASSUME NEW s \in Typestate, Calls(s)' PROVE Met(s)'
        BY DEF ClientMet
    <2>1. Met(s)
        BY DEF Calls, ClientMet
    <2> QED BY <2>1 DEF Met, Killed, Standing, Alive
<1> QED BY <1>3, <1>4, <1>5, <1>6

LEMMA ReplyKeeps == WorkerInvariant /\ Reply => WorkerInvariant' /\ ContractMoves
<1> SUFFICES ASSUME WorkerInvariant, Reply PROVE WorkerInvariant' /\ ContractMoves
    OBVIOUS
<1>1. /\ worker = "replying" /\ worker' = "ready" /\ job' = NoJob
      /\ UNCHANGED <<holds, future, sent, connected, count, queue, state, log, struck>>
      /\ reply' = IF sent /\ job.n = count THEN job.answer ELSE reply
    BY DEF Reply, clientVars
<1>2. Phase' = Phase /\ Attempts' = Attempts
    BY <1>1, NotLogged
<1>3. LogFollows' /\ log' \in Seq(LogCall)
    BY <1>1, <1>2 DEF WorkerInvariant, TypeOK, LogCall, LogFollows
<1> QED BY <1>1, <1>2, <1>3, AnswerKeeps DEF ContractMoves

\* Waking the client kills the worker: it is answered all the same, and what the
\* unwinding does is a move of the contract.
LEMMA ReplyPanicsKeeps == WorkerInvariant /\ ReplyPanics => WorkerInvariant' /\ ContractMoves
<1> SUFFICES ASSUME WorkerInvariant, ReplyPanics PROVE WorkerInvariant' /\ ContractMoves
    OBVIOUS
<1>1. /\ worker = "replying" /\ worker' = "unwinding" /\ job' = NoJob
      /\ UNCHANGED <<holds, future, sent, connected, count, queue, state, struck>>
      /\ reply' = IF sent /\ job.n = count THEN job.answer ELSE reply
      /\ log' = log \o (IF state = "Pending" THEN <<"panic", "restart">> ELSE <<"panic">>)
    BY DEF ReplyPanics, clientVars
<1>2. log \in Seq(LogCall) /\ "panic" \in LogCall
    BY DEF WorkerInvariant, TypeOK, LogCall
<1>3. CASE state = "Pending"
    <2>1. log' = log \o <<"panic", "restart">> /\ Phase = "owed"
        BY <1>1, <1>3 DEF WorkerInvariant, LogFollows
    <2>2. /\ log' \in Seq(LogCall) /\ Made("panic")'
          /\ Phase' = "tried" /\ Attempts' = Attempts + 1
        BY <1>2, <2>1, PanicLogged
    <2>3. LogFollows'
        BY <1>1, <1>3, <2>2 DEF LogFollows, Unopened
    <2> QED BY <1>1, <2>1, <2>2, <2>3, AnswerKeeps DEF ContractMoves
<1>4. CASE state # "Pending"
    <2>1. log' = Append(log, "panic") /\ log' \in Seq(LogCall)
        BY <1>1, <1>2, <1>4
    <2>2. Made("panic")' /\ Phase' = Phase /\ Attempts' = Attempts
        BY <1>2, <2>1, Logged, MadeAfter
    <2>3. LogFollows'
        BY <1>1, <1>4, <2>2 DEF WorkerInvariant, LogFollows
    <2> QED BY <1>1, <2>1, <2>2, <2>3, AnswerKeeps DEF ContractMoves
<1> QED BY <1>3, <1>4

\* The worker dies of a panic in an operation that consumed the typestate: nobody is
\* left who could call it.
LEMMA ProgressPanicsKeeps == WorkerInvariant /\ ProgressPanics => WorkerInvariant' /\ ContractMoves
<1> SUFFICES ASSUME WorkerInvariant, ProgressPanics PROVE WorkerInvariant' /\ ContractMoves
    OBVIOUS
<1> USE DEF WorkerInvariant, Fits
<1>1. /\ worker = "native" /\ worker' = "unwinding" /\ log' = log \o <<"panic", "restart">>
      /\ job.op \in WithProgress /\ job.op \in Shutdowns \cup Restarts
      /\ UNCHANGED <<holds, future, sent, connected, count, reply, queue, state, job, struck>>
    BY Kinds DEF ProgressPanics, clientVars
<1>2. job # NoJob /\ job.op \notin Borrowing /\ queue = <<>> /\ state = "Empty"
    BY <1>1, Kinds DEF JobFits
<1>3. log \in Seq(LogCall)
    BY DEF TypeOK, LogCall
<1>4. /\ Phase \in {"owed", "tried"} /\ Phase' = "tried" /\ Attempts' = Attempts + 1
      /\ log' \in Seq(LogCall) /\ Made("panic")'
    <2>1. Phase \in {"owed", "tried"}
        BY <1>1 DEF LogFollows
    <2> QED BY <1>1, <1>3, <2>1, PanicLogged
<1>5. TypeOK' /\ NeverOutOfSequence' /\ DropNeverCancelsRestart'
    BY <1>1, <1>4 DEF TypeOK, NeverOutOfSequence, DropNeverCancelsRestart, LogCall
<1>6. ClientShape' /\ AnswerIsState' /\ Starting' /\ DeadTakesNothing'
    BY <1>1, <1>2 DEF ClientShape, AnswerIsState, Starting, DeadTakesNothing, Killed
<1>7. QueueFits' /\ JobFits' /\ ShutdownWaits'
    BY <1>1, <1>2 DEF QueueFits, JobFits, ShutdownWaits
<1>8. ClientMet'
    BY <1>1, <1>2 DEF Calls, ClientMet, Met, Killed
<1>9. LogFollows'
    BY <1>1, <1>2, <1>4, Kinds DEF LogFollows, Unopened
<1> QED BY <1>4, <1>5, <1>6, <1>7, <1>8, <1>9 DEF ContractMoves

LEMMA DisconnectedKeeps == WorkerInvariant /\ Disconnected => WorkerInvariant' /\ ContractMoves
<1> SUFFICES ASSUME WorkerInvariant, Disconnected PROVE WorkerInvariant' /\ ContractMoves
    OBVIOUS
<1> USE DEF WorkerInvariant, Fits
<1>1. /\ worker = "ready" /\ queue = <<>> /\ ~connected /\ state' = "Empty" /\ job = NoJob
      /\ UNCHANGED <<holds, future, sent, connected, count, reply, queue, job, struck>>
    BY DEF Disconnected, clientVars, JobFits
<1>2. holds = "nothing" /\ future = "none" /\ ~sent /\ reply = "none"
    BY <1>1, Kinds DEF ClientShape
<1>3. log \in Seq(LogCall) /\ {"restart", "end"} \subseteq LogCall
    BY DEF TypeOK, LogCall
<1>4. /\ ContractMoves /\ log' \in Seq(LogCall)
      /\ worker' = "exited" \/ (worker' = "recovering" /\ Phase' = "tried")
    <2>1. CASE state = "Pending"
        <3>1. log' = Append(log, "restart") /\ worker' = "recovering" /\ Phase = "owed"
            BY <1>1, <2>1 DEF Disconnected, LogFollows
        <3>2. Phase' = "tried" /\ Attempts' = Attempts + 1 /\ log' \in Seq(LogCall)
            BY <1>3, <3>1, Logged, AttemptsAfter
        <3> QED BY <3>1, <3>2 DEF ContractMoves
    <2>2. CASE state = "Empty"
        BY <1>1, <1>3, <2>2, NotLogged DEF Disconnected, ContractMoves
    <2>3. CASE state \in Unopened \cup {"Completion"}
        <3>1. log' = Append(log, "end") /\ worker' = "exited" /\ Phase \in {"open", "tried", "waived"}
            BY <1>1, <2>3 DEF Disconnected, LogFollows, Unopened
        <3>2. Phase' = "ended" /\ Attempts' = Attempts /\ log' \in Seq(LogCall)
            BY <1>3, <3>1, Logged, AttemptsAfter
        <3> QED BY <3>1, <3>2 DEF ContractMoves
    <2> QED BY <2>1, <2>2, <2>3 DEF TypeOK, Typestate, Unopened
<1>5. TypeOK' /\ NeverOutOfSequence' /\ DropNeverCancelsRestart'
    BY <1>1, <1>4 DEF TypeOK, NeverOutOfSequence, DropNeverCancelsRestart, LogCall
<1>6. ClientShape' /\ AnswerIsState' /\ Starting' /\ DeadTakesNothing'
    BY <1>1, <1>2, <1>4, Kinds DEF ClientShape, AnswerIsState, Starting, DeadTakesNothing
<1>7. QueueFits' /\ JobFits' /\ ShutdownWaits'
    BY <1>1, <1>4 DEF QueueFits, JobFits, ShutdownWaits
<1>8. ClientMet'
    BY <1>1, <1>2, Kinds DEF Calls, ClientMet
<1>9. LogFollows'
    BY <1>1, <1>4 DEF LogFollows
<1> QED BY <1>4, <1>5, <1>6, <1>7, <1>8, <1>9

\* The worker is at its end: its session ends, unless a command has ended it.
LEMMA RecoveredKeeps == WorkerInvariant /\ Recovered => WorkerInvariant' /\ ContractMoves
<1> SUFFICES ASSUME WorkerInvariant, Recovered PROVE WorkerInvariant' /\ ContractMoves
    OBVIOUS
<1> USE DEF WorkerInvariant, Fits
<1>1. /\ worker \in {"recovering", "unwinding"} /\ worker' = "exited"
      /\ job' = NoJob /\ state' = "Empty" /\ queue' = <<>>
      /\ log' = IF Bare THEN log ELSE Append(log, "end")
      /\ reply' = reply \/ (sent /\ reply' = "dropped")
      /\ UNCHANGED <<holds, future, sent, connected, count, struck>>
    BY DEF Recovered, clientVars
<1>2. log \in Seq(LogCall) /\ log' \in Seq(LogCall) /\ "end" \in LogCall
    BY <1>1 DEF TypeOK, LogCall
<1>3. /\ Bare => Phase = "ended"
      /\ ~Bare => Phase \in {"open", "tried", "waived"}
    BY <1>1 DEF LogFollows, Bare, TypeOK, Unopened, Typestate
<1>4. ContractMoves
    <2>1. CASE Bare
        BY <1>1, <2>1, NotLogged DEF ContractMoves
    <2>2. CASE ~Bare
        BY <1>1, <1>2, <1>3, <2>2, Logged, AttemptsAfter DEF ContractMoves
    <2> QED BY <2>1, <2>2
<1>5. worker = "unwinding" => Killed'
    <2>1. worker = "unwinding" => Made("panic")
        BY DEF LogFollows
    <2>2. Made("panic") => Made("panic")'
        BY <1>1, <1>2, MadeAfter, NotLogged
    <2> QED BY <1>1, <2>1, <2>2 DEF Killed
<1>6. TypeOK'
    <2>1. queue' \in Seq([op : Command, n : 1 .. MaxCommands]) /\ reply' \in Answer \cup {"none"}
        BY <1>1 DEF TypeOK, Answer
    <2> QED BY <1>1, <1>2, <2>1 DEF TypeOK, LogCall
<1>7. NeverOutOfSequence' /\ DropNeverCancelsRestart'
    BY <1>1 DEF NeverOutOfSequence, DropNeverCancelsRestart
<1>8. ClientShape' /\ Starting' /\ DeadTakesNothing'
    BY <1>1, Kinds DEF ClientShape, Starting, DeadTakesNothing
<1>9. QueueFits' /\ JobFits' /\ ShutdownWaits'
    BY <1>1 DEF QueueFits, JobFits, ShutdownWaits
<1>10. AnswerIsState'
    BY <1>1, <1>5, Kinds DEF AnswerIsState, Killed
<1>11. ClientMet'
    <2> SUFFICES ASSUME NEW s \in Typestate, Calls(s)' PROVE Met(s)'
        BY DEF ClientMet
    <2>1. Met(s)
        BY <1>1 DEF Calls, ClientMet
    <2>2. worker = "unwinding"
        BY <1>1, <2>1 DEF Met, Standing, Alive, Killed
    <2> QED BY <1>5, <2>2 DEF Met
<1>12. LogFollows'
    BY <1>1 DEF LogFollows
<1> QED BY <1>4, <1>6, <1>7, <1>8, <1>9, <1>10, <1>11, <1>12

----------------------------------------------------------------------------
(***************************************************************************)
(* The worker and its client.                                              *)
(***************************************************************************)
LEMMA ClientKeeps ==
    ASSUME WorkerInvariant, Client
    PROVE  WorkerInvariant' /\ ContractMoves
<1>1. WorkerInvariant'
    BY StartedKeeps, FirstPollKeeps, ResolveKeeps, CallMethodKeeps, DropTypestateKeeps,
        DropFutureKeeps, DropShutdownKeeps, DisconnectKeeps, CancelKeeps
    DEF Client
<1>2. log' = log
    BY DEF Client, Started, FirstPoll, Resolve, CallMethod, DropTypestate, DropFuture,
        DropShutdown, Disconnect, Cancel, workerVars
<1> QED BY <1>1, <1>2, NotLogged DEF ContractMoves

LEMMA WorkerStep == WorkerInvariant /\ [Next]_vars => WorkerInvariant' /\ ContractMoves
<1> SUFFICES ASSUME WorkerInvariant, [Next]_vars PROVE WorkerInvariant' /\ ContractMoves
    OBVIOUS
<1>1. CASE Client
    BY <1>1, ClientKeeps
<1>2. CASE Work \/ WakerPanics
    BY <1>2, WorkerStartKeeps, ReceiveKeeps, NativeReturnKeeps, ReplyKeeps, DisconnectedKeeps,
        RecoveredKeeps, StartPanicsKeeps, ProgressPanicsKeeps, ReplyPanicsKeeps
    DEF Work, WakerPanics
<1>3. CASE UNCHANGED vars
    <2>1. /\ UNCHANGED <<holds, future, sent, connected, count, reply, queue, struck>>
          /\ UNCHANGED workerVars /\ log' = log
        BY <1>3 DEF vars, workerVars
    <2>0. /\ (Killed' <=> Killed) /\ (Standing' <=> Standing) /\ LogFollows'
        BY <2>1, LogRests DEF WorkerInvariant
    <2>2. TypeOK' /\ NeverOutOfSequence' /\ DropNeverCancelsRestart' /\ ShutdownWaits'
        BY <2>1 DEF WorkerInvariant, TypeOK, NeverOutOfSequence, DropNeverCancelsRestart,
            ShutdownWaits, workerVars
    <2>3. ClientShape' /\ AnswerIsState' /\ Starting' /\ DeadTakesNothing' /\ QueueFits' /\ JobFits'
        BY <2>0, <2>1 DEF WorkerInvariant, Fits, ClientShape, AnswerIsState, Starting,
            DeadTakesNothing, QueueFits, JobFits, workerVars
    <2>4. ClientMet'
        BY <2>0, <2>1 DEF WorkerInvariant, Fits, ClientMet, Met, Calls, workerVars
    <2>5. ContractMoves
        BY <2>1, NotLogged DEF ContractMoves
    <2> QED BY <2>0, <2>2, <2>3, <2>4, <2>5 DEF WorkerInvariant, Fits
<1> QED BY <1>1, <1>2, <1>3 DEF Next, Terminated

\* Between the client's typestates, the queue and the worker's state nothing ever
\* disagrees, for any number of commands (tokio.rs:246, :453).
THEOREM WorkerInvariantHolds == Spec => []WorkerInvariant
<1>1. WorkerInvariant /\ [Next]_vars => WorkerInvariant'
    BY WorkerStep
<1> QED BY InitWorker, <1>1, PTL DEF Spec

\* Types are kept; every command carries a ticket of the client's.
THEOREM WorkerTypeCorrect == Spec => []TypeOK
<1>1. WorkerInvariant => TypeOK
    BY DEF WorkerInvariant
<1> QED BY <1>1, WorkerInvariantHolds, PTL

\* OperationOutOfSequence is unreachable through the typed facade, whatever futures are
\* dropped and however many commands are queued (tokio.rs:246, :453).
THEOREM NothingIsOutOfSequence == Spec => []NeverOutOfSequence
<1>1. WorkerInvariant => NeverOutOfSequence
    BY DEF WorkerInvariant
<1> QED BY <1>1, WorkerInvariantHolds, PTL

\* A typestate in the client's hands is that of the worker, as long as this lives, with
\* only borrowing commands before it; and if it does not live, the panic of a waker has
\* killed it: no error of Windows, dropped future or order of commands does.
THEOREM WorkerAgreesHolds == Spec => []WorkerAgrees
<1>1. WorkerInvariant => WorkerAgrees
    <2> SUFFICES ASSUME WorkerInvariant, holds \in Typestate
                 PROVE  /\ Alive => state = holds /\ \A i \in DOMAIN queue : queue[i].op \in Borrowing
                        /\ ~Alive => Made("panic")
        BY Zenon DEF WorkerAgrees, Alive
    <2>1. Met(holds)
        BY DEF WorkerInvariant, Fits, ClientMet, Calls
    <2>2. worker = "unwinding" => Made("panic")
        BY DEF WorkerInvariant, LogFollows
    <2> QED BY <2>1, <2>2 DEF Met, Standing, Alive, Killed
<1> QED BY <1>1, WorkerInvariantHolds, PTL

\* Dropping a shutdown future never cancels the restart that recovers from it: the
\* worker waits for the Sender, and that goes last (tokio.rs:783).
THEOREM RestartIsNotCancelled == Spec => []DropNeverCancelsRestart
<1>1. WorkerInvariant => DropNeverCancelsRestart
    BY DEF WorkerInvariant
<1> QED BY <1>1, WorkerInvariantHolds, PTL

----------------------------------------------------------------------------
(***************************************************************************)
(* No future waits for an answer that nobody will give.  An answer, once   *)
(* the worker has one, is never the empty one.                             *)
(***************************************************************************)
Awaited == NoFutureForgotten /\ (worker = "replying" => job.answer # "none")

\* A command just sent is at the end of the queue of a worker that receives, or has
\* been dropped by one that is dead.
LEMMA SendAwaited ==
    ASSUME WorkerInvariant, Awaited, NEW op \in Command, Send(op),
           future' = op, holds' # "starting", UNCHANGED workerVars
    PROVE  Awaited'
<1>1. CASE worker = "exited"
    BY <1>1 DEF Send, Awaited, NoFutureForgotten, workerVars
<1>2. CASE worker # "exited"
    <2>1. queue' = Append(queue, [op |-> op, n |-> count + 1]) /\ count' = count + 1
        BY <1>2 DEF Send
    <2>2. queue'[Len(queue) + 1] = [op |-> op, n |-> count + 1] /\ Len(queue) + 1 \in DOMAIN queue'
        BY <2>1 DEF WorkerInvariant, TypeOK
    <2> QED BY <1>2, <2>1, <2>2 DEF Awaited, NoFutureForgotten, workerVars
<1> QED BY <1>1, <1>2

LEMMA ClientAwaited ==
    ASSUME WorkerInvariant, Awaited, Client
    PROVE  Awaited'
<1>1. CASE FirstPoll
    <2>1. future \in Command /\ holds' # "starting"
        BY <1>1, Kinds DEF FirstPoll, WorkerInvariant, Fits, ClientShape
    <2> QED BY <1>1, <2>1, SendAwaited DEF FirstPoll
<1>2. ASSUME NEW op \in Command, CallMethod(op) PROVE Awaited'
    <2>1. holds' # "starting"
        BY <1>2, Commands, Kinds DEF CallMethod
    <2>2. CASE op \in Eager
        BY <1>2, <2>1, <2>2, SendAwaited DEF CallMethod
    <2>3. CASE op \notin Eager
        BY <1>2, <2>1, <2>3 DEF CallMethod, Awaited, NoFutureForgotten, workerVars
    <2> QED BY <2>2, <2>3
<1>3. CASE ~FirstPoll /\ ~\E op \in Command : CallMethod(op)
    <2>1. /\ ~sent' /\ holds' # "starting" /\ UNCHANGED <<worker, job>>
        BY <1>3, Kinds DEF WorkerInvariant, TypeOK, Fits, ClientShape, Client, Started, Resolve,
            DropTypestate, DropFuture, DropShutdown, Disconnect, Cancel, workerVars
    <2> QED BY <2>1 DEF Awaited, NoFutureForgotten
<1> QED BY <1>1, <1>2, <1>3

LEMMA ReceiveAwaited ==
    ASSUME WorkerInvariant, Awaited, Receive
    PROVE  Awaited'
<1> DEFINE op == Head(queue).op
<1>1. op \in Command /\ job = NoJob /\ state \in Typestate /\ holds # "starting"
    BY Received, Commands
<1>2. /\ UNCHANGED <<holds, future, sent, count, reply>>
      /\ worker' \in {"native", "replying"}
      /\ job' # NoJob /\ job'.op = op /\ job'.n = Head(queue).n
      /\ worker' = "replying" => job'.answer # "none"
    BY <1>1, Kinds DEF Receive, WrongState, LeaseRefused, Begin, LeaveStopped, Answered, Took,
        NoJob, clientVars
<1>3. /\ queue # <<>> /\ queue' = Tail(queue) /\ DOMAIN queue = 1 .. Len(queue)
      /\ Len(queue) \in Nat /\ Head(queue) = queue[1] /\ DOMAIN queue' = 1 .. Len(queue) - 1
      /\ \A i \in 1 .. Len(queue) - 1 : queue'[i] = queue[i + 1]
    <2>1. queue # <<>> /\ queue' = Tail(queue) /\ TypeOK
        BY DEF Receive, WorkerInvariant
    <2> QED BY <2>1, QueueSteps
<1> HIDE DEF op
<1>4. ASSUME NEW i \in DOMAIN queue, queue[i] = [op |-> future, n |-> count]
      PROVE  \/ \E j \in DOMAIN queue' : queue'[j] = [op |-> future, n |-> count]
             \/ job'.op = future /\ job'.n = count
    <2>1. CASE i = 1
        BY <1>2, <1>3, <1>4, <2>1 DEF op
    <2>2. CASE i # 1
        <3>1. i - 1 \in DOMAIN queue' /\ queue'[i - 1] = queue[i]
            BY <1>3, <2>2
        <3> QED BY <1>4, <3>1
    <2> QED BY <2>1, <2>2
<1> QED BY <1>1, <1>2, <1>4 DEF Awaited, NoFutureForgotten

LEMMA WorkAwaited ==
    ASSUME WorkerInvariant, Awaited, Work \/ WakerPanics
    PROVE  Awaited'
<1> USE DEF Awaited, NoFutureForgotten
<1>1. CASE WorkerStart \/ WorkerStartFails \/ WorkerStartPanics
    <2>1. ~sent /\ state # "none" /\ worker = "starting"
        BY <1>1, Kinds DEF WorkerStart, WorkerStartFails, WorkerStartPanics, WorkerInvariant,
            Fits, Starting, ClientShape, Unopened
    <2> QED BY <1>1, <2>1 DEF WorkerStart, WorkerStartFails, WorkerStartPanics, clientVars
<1>2. CASE NativeReturn
    <2>1. /\ UNCHANGED <<holds, future, sent, count, reply, queue>>
          /\ worker = "native" /\ worker' = "replying"
          /\ job # NoJob /\ job' # NoJob /\ job'.op = job.op /\ job'.n = job.n
          /\ job'.answer = IF job.op \in Eager THEN state' ELSE "done"
        BY <1>2 DEF NativeReturn, WorkerInvariant, TypeOK, Fits, JobFits, NoJob, clientVars
    <2>2. job.op \in Eager => state' # "none"
        BY <1>2, Kinds DEF NativeReturn
    <2> QED BY <2>1, <2>2 DEF WorkerInvariant, Fits, Starting
<1>3. CASE Reply \/ ReplyPanics
    BY <1>3 DEF Reply, ReplyPanics, WorkerInvariant, Fits, Starting, clientVars
<1>4. CASE ProgressPanics
    BY <1>4 DEF ProgressPanics, WorkerInvariant, Fits, Starting, clientVars
<1>5. CASE Disconnected
    BY <1>5, Kinds DEF Disconnected, WorkerInvariant, Fits, ClientShape, clientVars
<1>6. CASE Recovered
    BY <1>6 DEF Recovered, WorkerInvariant, Fits, Starting, clientVars
<1> QED BY <1>1, <1>2, <1>3, <1>4, <1>5, <1>6, ReceiveAwaited DEF Work, WakerPanics

\* Whatever is dropped, and wherever the worker dies: what a future waits for is still
\* on its way to it (tokio.rs:246, :441).  That it arrives is FuturesResolve.
THEOREM NoFutureIsForgotten == Spec => []NoFutureForgotten
<1>1. Init => Awaited
    BY DEF Init, Awaited, NoFutureForgotten
<1>2. WorkerInvariant /\ Awaited /\ [Next]_vars => Awaited'
    <2>1. UNCHANGED vars /\ Awaited => Awaited'
        BY DEF vars, Awaited, NoFutureForgotten
    <2> QED BY <2>1, ClientAwaited, WorkAwaited DEF Next, Terminated
<1>3. Awaited => NoFutureForgotten
    BY DEF Awaited
<1> QED BY <1>1, <1>2, <1>3, WorkerInvariantHolds, PTL DEF Spec

----------------------------------------------------------------------------
(***************************************************************************)
(* A worker that is gone has answered its shutdown.  The log only grows,   *)
(* and a shutdown is never the last call before the end.                   *)
(***************************************************************************)
Recovers == Made("end") /\ Made("shutdown") => Made("restart") \/ Made("leave")
EndsWell == worker = "exited" => log = <<>> \/ Made("end")

LEMMA LogGrows ==
    ASSUME WorkerInvariant, Work \/ WakerPanics
    PROVE  \/ log' = log
           \/ \E c \in LogCall : log' = Append(log, c) /\ (c = "shutdown" => ~Made("end")')
           \/ log' = log \o <<"panic", "restart">>
<1>1. log \in Seq(LogCall) /\ log \o <<>> = log /\ \A c \in LogCall : log \o <<c>> = Append(log, c)
    BY DEF WorkerInvariant, TypeOK, LogCall
<1>2. CASE WorkerStart \/ WorkerStartPanics
    <2>1. log = <<>> /\ log' \in {log, <<"end">>, <<"panic">>}
        BY <1>2 DEF WorkerStart, WorkerStartPanics, WorkerInvariant, Fits, Starting
    <2>2. \A c \in LogCall : <<c>> = Append(log, c)
        BY <2>1
    <2> QED BY <2>1, <2>2 DEF LogCall
<1>3. CASE Receive
    <2> DEFINE op == Head(queue).op
    <2>1. op \in Command /\ worker = "ready"
        BY <1>3, Received
    <2> HIDE DEF op
    <2>2. CASE Begin(op)
        <3>1. op # "LeaveStopped"
            BY <2>2 DEF Begin
        <3>2. op \in Shutdowns => ~Made("end")'
            BY <2>1, <2>2, <3>1, BeginLogs DEF Phase
        <3> QED BY <1>1, <2>2, <3>2 DEF Begin, LogCall
    <2>3. CASE ~Begin(op)
        BY <1>3, <2>3 DEF Receive, op, WrongState, LeaseRefused, LeaveStopped, LogCall
    <2> QED BY <2>2, <2>3
<1>4. CASE WorkerStartFails \/ NativeReturn \/ Reply
    BY <1>4 DEF WorkerStartFails, NativeReturn, Reply
<1>5. CASE Disconnected \/ Recovered
    BY <1>5 DEF Disconnected, Recovered, LogCall
<1>6. CASE ProgressPanics
    BY <1>6 DEF ProgressPanics
<1>7. CASE ReplyPanics
    BY <1>1, <1>7 DEF ReplyPanics, LogCall
<1> QED BY <1>2, <1>3, <1>4, <1>5, <1>6, <1>7 DEF Work, WakerPanics

\* A step that is neither the worker's nor a panic calls nothing.
LEMMA OthersLogNothing == [Next]_vars /\ ~(Work \/ WakerPanics) => log' = log /\ worker' = worker
BY DEF Next, Client, Started, FirstPoll, Resolve, CallMethod, DropTypestate, DropFuture,
    DropShutdown, Disconnect, Cancel, Terminated, vars, workerVars

LEMMA RecoversStep == WorkerInvariant /\ Recovers /\ [Next]_vars => Recovers'
<1> SUFFICES ASSUME WorkerInvariant, Recovers, [Next]_vars PROVE Recovers'
    OBVIOUS
<1>1. log \in Seq(LogCall)
    BY DEF WorkerInvariant, TypeOK, LogCall
<1>2. CASE log' = log
    BY <1>2 DEF Recovers, Made
<1>3. ASSUME NEW c \in LogCall, log' = Append(log, c), c = "shutdown" => ~Made("end")'
      PROVE  Recovers'
    <2>1. \A d : Made(d)' <=> Made(d) \/ c = d
        BY <1>1, <1>3, MadeAfter
    <2>2. CASE c = "end" /\ ~Made("end")
        <3>1. ContractMoves /\ Phase' = "ended"
            BY <1>1, <1>3, <2>2, WorkerStep, Logged
        <3>2. Phase \in {"open", "tried", "waived"}
            BY <2>2, <3>1 DEF ContractMoves, Phase
        <3> QED BY <2>1, <3>2 DEF Recovers, Phase
    <2>3. CASE c # "end" \/ Made("end")
        BY <1>3, <2>1, <2>3 DEF Recovers
    <2> QED BY <2>2, <2>3
<1>4. CASE log' = log \o <<"panic", "restart">>
    <2>1. Made("restart")'
        BY <1>1, <1>4, PanicLogged
    <2> QED BY <2>1 DEF Recovers
<1> QED BY <1>2, <1>3, <1>4, LogGrows, OthersLogNothing

LEMMA EndsWellStep == WorkerInvariant /\ EndsWell /\ [Next]_vars => EndsWell'
<1> SUFFICES ASSUME WorkerInvariant, EndsWell, [Next]_vars, worker' = "exited"
             PROVE  log' = <<>> \/ Made("end")'
    BY DEF EndsWell
<1>1. log \in Seq(LogCall) /\ "end" \in LogCall
    BY DEF WorkerInvariant, TypeOK, LogCall
<1>2. log' = Append(log, "end") => Made("end")'
    BY <1>1, MadeAfter
<1>3. CASE log' = log /\ (worker = "exited" \/ Phase = "ended")
    <2>1. log = <<>> \/ Made("end")
        BY <1>3 DEF EndsWell, Phase
    <2> QED BY <1>3, <2>1, NotLogged
<1>4. CASE WorkerStart \/ WorkerStartFails
    <2>1. log = <<>> /\ (log' = <<>> \/ log' = <<"end">>)
        BY <1>4 DEF WorkerStart, WorkerStartFails, WorkerInvariant, Fits, Starting
    <2>2. log' = <<"end">> => log' = Append(log, "end")
        BY <2>1
    <2> QED BY <1>2, <2>1, <2>2
<1>5. CASE Recovered
    <2>1. Bare => Phase = "ended"
        BY DEF WorkerInvariant, LogFollows, Bare
    <2>2. log' = IF Bare THEN log ELSE Append(log, "end")
        BY <1>5 DEF Recovered
    <2> QED BY <1>2, <1>3, <2>1, <2>2
<1>6. CASE Disconnected
    <2>1. CASE state = "Empty"
        <3>1. Phase = "ended" /\ log' = log
            BY <1>6, <2>1 DEF Disconnected, WorkerInvariant, LogFollows
        <3> QED BY <1>3, <3>1
    <2>2. CASE state # "Empty"
        BY <1>2, <1>6, <2>2 DEF Disconnected
    <2> QED BY <2>1, <2>2
<1>7. CASE Receive \/ NativeReturn \/ Reply \/ WakerPanics
    BY <1>7 DEF Receive, WrongState, LeaseRefused, Begin, LeaveStopped, NativeReturn, Reply,
        WakerPanics, WorkerStartPanics, ProgressPanics, ReplyPanics
<1> QED BY <1>3, <1>4, <1>5, <1>6, <1>7, OthersLogNothing DEF Work

\* The safety half of SessionEnds and AbandonedSessionRecovered: when the worker thread
\* is gone, the session it opened was ended, and a shutdown it made was answered by an
\* attempt to restart or left stopped (tokio.rs:240, :731, ADR 0006).
THEOREM WorkerEndsWell == Spec => [](EndsWell /\ Recovers)
<1>1. Init => EndsWell /\ Recovers
    BY DEF Init, EndsWell, Recovers, Made
<1>2. WorkerInvariant /\ EndsWell /\ Recovers /\ [Next]_vars => EndsWell' /\ Recovers'
    BY EndsWellStep, RecoversStep
<1> QED BY <1>1, <1>2, WorkerInvariantHolds, PTL DEF Spec

----------------------------------------------------------------------------
(***************************************************************************)
(* The worker keeps the recovery contract: a move of the log is an action  *)
(* of RecoveryContract, of the one session there is.                       *)
(***************************************************************************)
LEMMA MovesAreSteps == ContractMoves => [Contract!Next]_(Contract!vars)
<1> SUFFICES ASSUME ContractMoves PROVE [Contract!Next]_(Contract!vars)
    OBVIOUS
<1> DEFINE phase == [s \in {"it"} |-> Phase]
           attempts == [s \in {"it"} |-> Attempts]
<1>1. /\ phase["it"] = Phase /\ attempts["it"] = Attempts
      /\ phase' = [phase EXCEPT !["it"] = Phase']
      /\ attempts' = [attempts EXCEPT !["it"] = Attempts']
    OBVIOUS
<1>2. /\ Attempts' = Attempts => attempts' = attempts
      /\ Phase' = Phase => phase' = phase
    OBVIOUS
<1>3. CASE Phase = "open" /\ Phase' = "owed" /\ Attempts' = Attempts
    <2>1. Contract!Shutdown("it")
        BY <1>1, <1>2, <1>3 DEF Contract!Shutdown, Contract!Move
    <2> QED BY <2>1 DEF Contract!Next
<1>4. CASE Phase \in {"owed", "tried"} /\ Phase' = "tried" /\ Attempts' = Attempts + 1
    <2>1. Contract!Attempt("it")
        BY <1>1, <1>4 DEF Contract!Attempt, Contract!Move
    <2> QED BY <2>1 DEF Contract!Next
<1>5. CASE Phase = "owed" /\ Phase' = "waived" /\ Attempts' = Attempts
    <2>1. Contract!Waive("it")
        BY <1>1, <1>2, <1>5 DEF Contract!Waive, Contract!Move
    <2> QED BY <2>1 DEF Contract!Next
<1>6. CASE Phase \in {"open", "tried", "waived"} /\ Phase' = "ended" /\ Attempts' = Attempts
    <2>1. Contract!End("it")
        BY <1>1, <1>2, <1>6 DEF Contract!End, Contract!Move
    <2> QED BY <2>1 DEF Contract!Next
<1>7. CASE Phase' = Phase /\ Attempts' = Attempts
    BY <1>2, <1>7 DEF Contract!vars
<1> QED BY <1>3, <1>4, <1>5, <1>6, <1>7 DEF ContractMoves

LEMMA InitContract == Init => Contract!Init
<1> SUFFICES ASSUME Init PROVE Contract!Init
    OBVIOUS
<1>1. log = <<>> /\ DOMAIN log = {}
    BY DEF Init
<1>2. Phase = "open"
    BY <1>1 DEF Phase, Made
<1>3. Attempts = 0
    <2>1. {i \in DOMAIN log : log[i] = "restart"} = {}
        BY <1>1
    <2> QED BY <2>1, FS_EmptySet DEF Attempts
<1> QED BY <1>2, <1>3 DEF Contract!Init

\* Whatever the client drops, and when: no session ends with a shutdown that was not
\* followed by an attempt to restart, unless it was left stopped (tokio.rs:731, :852).
THEOREM WorkerImplementsContract == Spec => RecoveryContractHolds
<1>1. WorkerInvariant /\ [Next]_vars => [Contract!Next]_(Contract!vars)
    BY WorkerStep, MovesAreSteps
<1> QED BY <1>1, InitContract, WorkerInvariantHolds, PTL DEF Spec, Contract!Spec, RecoveryContractHolds

----------------------------------------------------------------------------
(***************************************************************************)
(* The worker over the native session.  What is proved of SessionHandle is *)
(* proved of the handle in AsyncSession, which is an instance of it.       *)
(***************************************************************************)
Ownership == INSTANCE SessionHandleProofs WITH
    Session <- {It} \cup Other, Thread <- {Caller} \cup User

LEMMA HandleAssumption == Ownership!SessionAssumption
BY AsyncSessionAssumption DEF Ownership!SessionAssumption

LEMMA SameVars == Handle!vars = Ownership!vars
BY DEF Handle!vars, Ownership!vars

LEMMA SameInit == Handle!Init <=> Ownership!Init
BY Zenon DEF Handle!Init, Ownership!Init

LEMMA SameNext == Handle!Next <=> Ownership!Next
BY Zenon DEF Handle!Next, Handle!OwnerStep, Handle!CancellerStep, Handle!Terminated, Handle!vars,
    Handle!Start, Handle!StartRefused, Handle!GiveHandle, Handle!Operate, Handle!OperateReturn,
    Handle!EndCall, Handle!EndLock, Handle!EndReturn, Handle!OwnerDrop, Handle!OwnerRelease,
    Handle!OwnerClosed, Handle!Upgrade, Handle!CancelLock, Handle!CancelReturn,
    Handle!CancellerRelease, Handle!CancellerClosed, Handle!NativeEnd, Handle!Strong,
    Handle!Cancelling, Handle!OwnerHolds, Handle!CancellerHolds, Handle!RunDrop,
    Handle!Destroys, Handle!Unlocked,
    Ownership!Next, Ownership!OwnerStep, Ownership!CancellerStep, Ownership!Terminated,
    Ownership!vars, Ownership!Start, Ownership!StartRefused, Ownership!GiveHandle,
    Ownership!Operate, Ownership!OperateReturn, Ownership!EndCall, Ownership!EndLock,
    Ownership!EndReturn, Ownership!OwnerDrop, Ownership!OwnerRelease, Ownership!OwnerClosed,
    Ownership!Upgrade, Ownership!CancelLock, Ownership!CancelReturn,
    Ownership!CancellerRelease, Ownership!CancellerClosed, Ownership!NativeEnd,
    Ownership!Strong, Ownership!Cancelling, Ownership!OwnerHolds, Ownership!CancellerHolds,
    Ownership!RunDrop, Ownership!Destroys, Ownership!Unlocked

Owned == Handle!TypeOK /\ Handle!OwnershipInvariant

LEMMA SameOwned ==
    /\ Owned <=> Ownership!TypeOK /\ Ownership!OwnershipInvariant
    /\ Owned' <=> Ownership!TypeOK' /\ Ownership!OwnershipInvariant'
<1> USE DEF Owned, Handle!TypeOK, Handle!OwnerPC, Handle!CancellerPC, Handle!OwnerHolds,
    Handle!CancellerHolds, Handle!OwnershipInvariant, Handle!HandlesKnown, Handle!HeldIsOpen,
    Handle!MutexHeld, Handle!DestructorAlone, Handle!EndedMeans, Handle!Closing, Handle!Strong,
    Handle!Open, Handle!Cancelling,
    Ownership!TypeOK, Ownership!OwnerPC, Ownership!CancellerPC, Ownership!OwnerHolds,
    Ownership!CancellerHolds, Ownership!OwnershipInvariant, Ownership!HandlesKnown,
    Ownership!HeldIsOpen, Ownership!MutexHeld, Ownership!DestructorAlone, Ownership!EndedMeans,
    Ownership!Closing, Ownership!Strong, Ownership!Open, Ownership!Cancelling
<1>1. Owned <=> Ownership!TypeOK /\ Ownership!OwnershipInvariant
    BY Zenon
<1>2. Owned' <=> Ownership!TypeOK' /\ Ownership!OwnershipInvariant'
    BY Zenon
<1> HIDE DEF Owned, Ownership!TypeOK, Ownership!OwnershipInvariant
<1> QED BY <1>1, <1>2

LEMMA HandleInit == Handle!Init => Owned
BY SameInit, SameOwned, HandleAssumption, Ownership!InitTypeOK, Ownership!InitOwnership

LEMMA HandleStep == Owned /\ [Handle!Next]_(Handle!vars) => Owned'
<1> SUFFICES ASSUME Owned, [Handle!Next]_(Handle!vars) PROVE Owned'
    OBVIOUS
<1>1. [Ownership!Next]_(Ownership!vars)
    <2>1. CASE Handle!Next
        BY <2>1, SameNext
    <2>2. CASE UNCHANGED Handle!vars
        BY <2>2 DEF Handle!vars, Ownership!vars
    <2> QED BY <2>1, <2>2
<1>2. Ownership!TypeOK /\ Ownership!OwnershipInvariant
    BY SameOwned
<1>3. Ownership!TypeOK'
    BY <1>1, <1>2, HandleAssumption, Ownership!TypeStep
<1>4. Ownership!OwnershipInvariant'
    BY <1>1, <1>2, HandleAssumption, Ownership!OwnershipStep
<1> QED BY <1>3, <1>4, SameOwned
----------------------------------------------------------------------------
(***************************************************************************)
(* Every step of AsyncSession is a step, or none, of either component.     *)
(***************************************************************************)
LEMMA HandleActs ==
    /\ \A s \in {It} \cup Other : Handle!OwnerStep(s) => Handle!Next
    /\ \A c \in {Caller} \cup User : Handle!CancellerStep(c) => Handle!Next
    /\ \A c \in {Caller} \cup User : Handle!GiveHandle(It, c) => Handle!Next
BY DEF Handle!Next

LEMMA WorkerThreadSteps == WorkerThread => [Next]_vars /\ [Handle!Next]_(Handle!vars)
<1> SUFFICES ASSUME WorkerThread PROVE [Next]_vars /\ [Handle!Next]_(Handle!vars)
    OBVIOUS
<1> USE DEF HandleRests, WorkerRests, handleVars, Handle!vars
<1>1. CASE Open
    BY <1>1, HandleActs DEF Open, Handle!OwnerStep
<1>2. CASE Announce \/ StartEnds
    BY <1>2 DEF Announce, StartEnds, Next, Work
<1>3. CASE Unannounced \/ LetGo
    BY <1>3, HandleActs DEF Unannounced, LetGo, Handle!OwnerStep
<1>4. CASE Execute
    BY <1>4, HandleActs DEF Execute, Handle!OwnerStep, Next, Work
<1>5. CASE EndReturns \/ Replies
    BY <1>5 DEF EndReturns, Replies, Next, Work
<1>6. CASE UndoInPanic
    BY <1>6, HandleActs DEF UndoInPanic, Handle!OwnerStep
<1>7. CASE UndoInDrop
    BY <1>7, HandleActs DEF UndoInDrop, Handle!OwnerStep, Next, Work
<1>8. CASE Exit
    BY <1>8 DEF Exit, Next, Work
<1>9. ASSUME NEW ok \in BOOLEAN, Ends(ok) PROVE [Next]_vars /\ [Handle!Next]_(Handle!vars)
    BY <1>9, HandleActs DEF Ends, Handle!OwnerStep
<1> QED BY <1>1, <1>2, <1>3, <1>4, <1>5, <1>6, <1>7, <1>8, <1>9 DEF WorkerThread

LEMMA CancelSteps ==
    BeginCancel \/ Cancels => [Next]_vars /\ [Handle!Next]_(Handle!vars)
<1> SUFFICES ASSUME BeginCancel \/ Cancels PROVE [Next]_vars /\ [Handle!Next]_(Handle!vars)
    OBVIOUS
<1> USE DEF HandleRests, WorkerRests, handleVars, Handle!vars
<1>1. CASE BeginCancel
    BY <1>1, HandleActs DEF BeginCancel, Handle!CancellerStep, Next, Client
<1>2. CASE CancelTooLate \/ DropSender
    BY <1>2 DEF CancelTooLate, DropSender, Next, Client
<1>3. CASE CancelLock
    BY <1>3, HandleActs DEF CancelLock, Handle!CancellerStep, Next, Client
<1>4. ASSUME NEW ok \in BOOLEAN, CancelReturn(ok)
      PROVE [Next]_vars /\ [Handle!Next]_(Handle!vars)
    BY <1>4, HandleActs DEF CancelReturn, Handle!CancellerStep, Next, Client
<1>5. ASSUME NEW ok \in BOOLEAN, CancelReleases(ok)
      PROVE [Next]_vars /\ [Handle!Next]_(Handle!vars)
    BY <1>5, HandleActs DEF CancelReleases, Handle!CancellerStep
<1> QED BY <1>1, <1>2, <1>3, <1>4, <1>5 DEF Cancels

LEMMA BothStep == [SessionNext]_sessionVars => [Next]_vars /\ [Handle!Next]_(Handle!vars)
<1> SUFFICES ASSUME [SessionNext]_sessionVars PROVE [Next]_vars /\ [Handle!Next]_(Handle!vars)
    OBVIOUS
<1>1. CASE WorkerThread
    BY <1>1, WorkerThreadSteps
<1>2. CASE NativeReturns
    <2>1. Handle!OperateReturn(It) /\ (NativeReturn \/ UNCHANGED vars)
        BY <1>2 DEF NativeReturns, OperationReturns, UndoReturns
    <2> QED BY <2>1, HandleActs DEF Handle!OwnerStep, Next, Work
<1>3. CASE Panics
    <2>1. CASE PanicUnwinds
        BY <2>1, HandleActs DEF PanicUnwinds, Handle!OwnerStep, Next, WakerPanics
    <2>2. CASE AnnouncePanics \/ ReplyUnwinds
        BY <2>2 DEF AnnouncePanics, ReplyUnwinds, handleVars, Handle!vars, Next, WakerPanics
    <2> QED BY <1>3, <2>1, <2>2 DEF Panics
<1>4. CASE ClientActs
    BY <1>4 DEF ClientActs, HandleRests, handleVars, Handle!vars, Next, Client
<1>5. CASE BeginCancel \/ Cancels
    BY <1>5, CancelSteps
<1>6. ASSUME NEW s \in Other, OtherSession(s) PROVE [Next]_vars /\ [Handle!Next]_(Handle!vars)
    BY <1>6, HandleActs DEF OtherSession, WorkerRests
<1>7. ASSUME NEW c \in User, HandleGiven(c) \/ UserCancels(c)
      PROVE [Next]_vars /\ [Handle!Next]_(Handle!vars)
    BY <1>7, HandleActs DEF HandleGiven, UserCancels, WorkerRests
<1>8. CASE AllGone \/ UNCHANGED sessionVars
    BY <1>8 DEF AllGone, sessionVars, handleVars, Handle!vars
<1> QED BY <1>1, <1>2, <1>3, <1>4, <1>5, <1>6, <1>7, <1>8 DEF SessionNext

----------------------------------------------------------------------------
(***************************************************************************)
(* The coupling of the two components: at each point of the worker thread, *)
(* what it may be doing with the handle.  The thread lets go of a session  *)
(* before it begins, when nobody waits for it, through a command that ends *)
(* it, or at the end, when no Sender is left that could send another.      *)
(***************************************************************************)
LettingGo == {"releasing", "closing", "gone"}

Starts ==
    worker = "starting" =>
        /\ owner[It] \in {"unborn", "live"} \cup LettingGo
        /\ weak[Caller] \in {None, It}
        /\ weak[Caller] = It /\ owner[It] # "live" => holds # "starting"

Rests ==
    worker = "ready" =>
        /\ state = "Empty" => owner[It] = "gone"
        /\ owner[It] \in {"live"} \cup LettingGo
        /\ state # "Empty" /\ owner[It] # "live" =>
            ~connected /\ queue = <<>> /\ state # "Pending"
        /\ owner[It] = "releasing" => ~ended[It]

Executes ==
    /\ worker = "native" =>
        IF job.op \in Ending THEN owner[It] \in {"locking", "ending"} \cup LettingGo
        ELSE owner[It] = "operating"
    /\ worker = "replying" => owner[It] = IF state = "Empty" THEN "gone" ELSE "live"

Undoes ==
    /\ undo \in {"none", "owed", "running", "done"}
    /\ undo = "none" /\ worker # "exited" <=> worker = "starting" \/ Alive
    /\ worker \in {"recovering", "unwinding"} =>
        \/ undo = "owed" /\ owner[It] = "live"
        \/ undo = "running" /\ owner[It] = "operating"
        \/ undo = "done" /\ owner[It] \in {"live"} \cup LettingGo
    /\ worker = "exited" => owner[It] = "gone"

Coupled == Starts /\ Rests /\ Executes /\ Undoes
SessionInvariant == WorkerInvariant /\ Owned /\ Coupled

----------------------------------------------------------------------------
(***************************************************************************)
(* What the steps of the handle do to session It.                          *)
(***************************************************************************)
LEMMA OwnerMoves ==
    ASSUME Owned
    PROVE
    /\ Handle!Start(It) =>
        owner[It] = "unborn" /\ owner'[It] \in {"live", "closing"} /\ UNCHANGED weak
    /\ Handle!StartRefused(It) =>
        owner[It] = "unborn" /\ owner'[It] = "gone" /\ UNCHANGED weak
    /\ Handle!Operate(It) => owner[It] = "live" /\ owner'[It] = "operating" /\ UNCHANGED weak
    /\ Handle!OperateReturn(It) =>
        owner[It] = "operating" /\ owner'[It] = "live" /\ UNCHANGED weak
    /\ Handle!EndCall(It) => owner[It] = "live" /\ owner'[It] = "locking" /\ UNCHANGED weak
    /\ Handle!OwnerDrop(It) =>
        owner[It] = "live" /\ owner'[It] = "releasing" /\ UNCHANGED <<weak, ended>>
BY DEF Owned, Handle!TypeOK, Handle!Start, Handle!StartRefused, Handle!Operate,
    Handle!OperateReturn, Handle!EndCall, Handle!OwnerDrop

LEMMA OwnerEnds ==
    ASSUME Owned, NEW ok \in BOOLEAN
    PROVE
    /\ Handle!EndLock(It) =>
        owner[It] = "locking" /\ owner'[It] \in {"ending"} \cup LettingGo /\ UNCHANGED weak
    /\ Handle!EndReturn(It, ok) =>
        owner[It] = "ending" /\ owner'[It] = "releasing" /\ UNCHANGED weak
    /\ Handle!OwnerRelease(It) =>
        owner[It] = "releasing" /\ owner'[It] \in {"closing", "gone"} /\ UNCHANGED weak
    /\ Handle!OwnerClosed(It, ok) =>
        owner[It] = "closing" /\ owner'[It] = "gone" /\ UNCHANGED weak
BY DEF Owned, Handle!TypeOK, LettingGo, Handle!EndLock, Handle!EndReturn,
    Handle!OwnerRelease, Handle!OwnerClosed

\* What the rest of the process does leaves the worker's part of the handle alone: no
\* other thread ends a session that its owner has not released.
Undisturbed ==
    /\ owner'[It] = owner[It] /\ weak'[Caller] = weak[Caller]
    /\ owner[It] = "releasing" /\ ~ended[It] => ~ended'[It]

LEMMA OthersKeep ==
    ASSUME Owned, NEW s \in Other, Handle!OwnerStep(s)
    PROVE  Undisturbed
<1>1. s # It /\ owner' = [owner EXCEPT ![s] = owner'[s]] /\ UNCHANGED weak
    BY AsyncSessionAssumption DEF Owned, Handle!TypeOK, Handle!OwnerStep, Handle!Start,
        Handle!StartRefused, Handle!Operate, Handle!OperateReturn, Handle!EndCall,
        Handle!EndLock, Handle!OwnerDrop, Handle!OwnerRelease, Handle!EndReturn,
        Handle!OwnerClosed
<1>2. ended'[It] = ended[It]
    BY <1>1 DEF Owned, Handle!TypeOK, Handle!OwnerStep, Handle!Start,
        Handle!StartRefused, Handle!Operate, Handle!OperateReturn, Handle!EndCall,
        Handle!EndLock, Handle!OwnerDrop, Handle!OwnerRelease, Handle!RunDrop,
        Handle!EndReturn, Handle!OwnerClosed
<1> QED BY <1>1, <1>2 DEF Undisturbed, Owned, Handle!TypeOK

LEMMA CancellersKeep ==
    ASSUME Owned, NEW c \in {Caller} \cup User, Handle!CancellerStep(c)
    PROVE  Undisturbed /\ UNCHANGED <<owner, weak>>
<1>1. UNCHANGED <<owner, weak>>
    BY DEF Handle!CancellerStep, Handle!Upgrade, Handle!CancelLock, Handle!CancellerRelease,
        Handle!CancelReturn, Handle!CancellerClosed
<1>2. CASE Handle!CancellerRelease(c)
    <2>1. ASSUME owner[It] = "releasing" PROVE ended'[It] = ended[It]
        <3>1. CASE weak[c] = It
            <4>1. It \in Handle!Strong(It) \ {c}
                BY <2>1, AsyncSessionAssumption DEF Handle!Strong, Handle!OwnerHolds
            <4>2. ~Handle!Destroys(It, Handle!Strong(It) \ {c})
                BY <4>1 DEF Handle!Destroys
            <4> QED BY <1>2, <3>1, <4>2 DEF Handle!CancellerRelease, Handle!RunDrop
        <3>2. CASE weak[c] # It
            BY <1>2, <3>2 DEF Handle!CancellerRelease, Handle!RunDrop, Owned, Handle!TypeOK
        <3> QED BY <3>1, <3>2
    <2> QED BY <1>1, <2>1 DEF Undisturbed
<1>3. CASE ~Handle!CancellerRelease(c)
    <2>1. UNCHANGED ended
        BY <1>3 DEF Handle!CancellerStep, Handle!Upgrade, Handle!CancelLock,
            Handle!CancelReturn, Handle!CancellerClosed
    <2> QED BY <1>1, <2>1 DEF Undisturbed
<1> QED BY <1>1, <1>2, <1>3

----------------------------------------------------------------------------
(***************************************************************************)
(* The coupling is kept: the client and the rest of the process first,     *)
(* then the worker thread, one action at a time.                           *)
(***************************************************************************)
LEMMA CoupledRests ==
    ASSUME Coupled, Undisturbed, UNCHANGED <<vars, undo>>
    PROVE  Coupled'
<1>1. /\ UNCHANGED <<worker, state, job, holds, connected, queue, undo>>
      /\ owner'[It] = owner[It] /\ weak'[Caller] = weak[Caller]
    BY DEF Undisturbed, vars
<1> QED BY <1>1 DEF Coupled, Starts, Rests, Executes, Undoes, Alive, Undisturbed, LettingGo

\* A client that sends a command, or ever starts anew, has a Sender.
LEMMA ClientMoves ==
    ASSUME WorkerInvariant, Client
    PROVE
    /\ UNCHANGED <<worker, state, job>>
    /\ connected
    /\ holds # "starting" => holds' # "starting"
<1> USE DEF Client, Started, FirstPoll, Resolve, CallMethod, DropTypestate, DropFuture,
    DropShutdown, Disconnect, Cancel
<1>1. UNCHANGED <<worker, state, job>>
    BY DEF workerVars
<1>2. connected
    BY Commands, Kinds DEF WorkerInvariant, Fits, ClientShape
<1>3. holds # "starting" => holds' # "starting"
    BY Kinds
<1> QED BY <1>1, <1>2, <1>3

LEMMA ClientCoupled ==
    ASSUME SessionInvariant, Undisturbed, UNCHANGED undo, Client \/ UNCHANGED vars
    PROVE  Coupled'
<1>1. CASE UNCHANGED vars
    BY <1>1, CoupledRests DEF SessionInvariant
<1>2. CASE Client
    <2>1. /\ UNCHANGED <<worker, state, job, undo>>
          /\ connected
          /\ holds # "starting" => holds' # "starting"
          /\ owner'[It] = owner[It] /\ weak'[Caller] = weak[Caller]
        BY <1>2, ClientMoves DEF SessionInvariant, Undisturbed
    <2>2. Starts' /\ Executes' /\ Undoes'
        BY <2>1 DEF SessionInvariant, Coupled, Starts, Executes, Undoes, Alive, LettingGo
    <2>3. Rests'
        BY <2>1 DEF SessionInvariant, Coupled, Rests, LettingGo, Undisturbed
    <2> QED BY <2>2, <2>3 DEF Coupled
<1> QED BY <1>1, <1>2

LEMMA HandleUndisturbed == UNCHANGED handleVars => Undisturbed
BY DEF handleVars, Undisturbed

LEMMA EnvironmentCoupled ==
    ASSUME SessionInvariant,
           \/ ClientActs \/ BeginCancel \/ Cancels
           \/ \E s \in Other : OtherSession(s)
           \/ \E c \in User : HandleGiven(c) \/ UserCancels(c)
           \/ AllGone \/ UNCHANGED sessionVars
    PROVE  Coupled'
<1>1. Owned /\ Coupled
    BY DEF SessionInvariant
<1>2. CASE ClientActs
    BY <1>2, ClientCoupled, HandleUndisturbed DEF ClientActs, HandleRests, Client
<1>3. CASE BeginCancel
    BY <1>1, <1>3, ClientCoupled, CancellersKeep
    DEF BeginCancel, Client, Handle!CancellerStep
<1>4. CASE CancelTooLate \/ DropSender
    BY <1>4, ClientCoupled, HandleUndisturbed DEF CancelTooLate, DropSender, HandleRests, Client
<1>5. CASE CancelLock
    BY <1>1, <1>5, ClientCoupled, CancellersKeep DEF CancelLock, Client, Handle!CancellerStep
<1>6. ASSUME NEW ok \in BOOLEAN, CancelReturn(ok) PROVE Coupled'
    BY <1>1, <1>6, ClientCoupled, CancellersKeep DEF CancelReturn, Client, Handle!CancellerStep
<1>7. ASSUME NEW ok \in BOOLEAN, CancelReleases(ok) PROVE Coupled'
    BY <1>1, <1>7, CoupledRests, CancellersKeep
    DEF CancelReleases, WorkerRests, Handle!CancellerStep
<1>8. ASSUME NEW s \in Other, OtherSession(s) PROVE Coupled'
    BY <1>1, <1>8, CoupledRests, OthersKeep DEF OtherSession, WorkerRests
<1>9. ASSUME NEW c \in User, HandleGiven(c) PROVE Coupled'
    <2>1. UNCHANGED <<owner, ended, vars, undo>> /\ weak' = [weak EXCEPT ![c] = It]
        BY <1>9 DEF HandleGiven, Handle!GiveHandle, WorkerRests
    <2>2. weak'[Caller] = weak[Caller]
        BY <1>1, <2>1, AsyncSessionAssumption DEF Owned, Handle!TypeOK
    <2> QED BY <1>1, <2>1, <2>2, CoupledRests DEF Undisturbed
<1>10. ASSUME NEW c \in User, UserCancels(c) PROVE Coupled'
    BY <1>1, <1>10, CoupledRests, CancellersKeep DEF UserCancels, WorkerRests
<1>11. CASE AllGone \/ UNCHANGED sessionVars
    BY <1>1, <1>11, CoupledRests, HandleUndisturbed DEF AllGone, sessionVars
<1> QED BY <1>2, <1>3, <1>4, <1>5, <1>6, <1>7, <1>8, <1>9, <1>10, <1>11 DEF Cancels

LEMMA StartingCoupled ==
    ASSUME SessionInvariant, Open \/ Announce \/ Unannounced \/ StartEnds
    PROVE  Coupled'
<1> USE DEF SessionInvariant, Coupled, Starts, Rests, Executes, Undoes, Alive, LettingGo
<1>1. CASE Open
    <2>1. worker = "starting" /\ UNCHANGED <<worker, holds, undo>>
        BY <1>1 DEF Open, WorkerRests, vars
    <2>2. owner[It] = "unborn" => weak[Caller] # It
        BY DEF Owned, Handle!OwnershipInvariant, Handle!HandlesKnown
    <2>3. CASE Handle!Start(It) \/ Handle!StartRefused(It)
        BY <2>1, <2>2, <2>3, OwnerMoves
    <2>4. CASE Handle!GiveHandle(It, Caller)
        <3>1. owner[It] = "live" /\ UNCHANGED owner /\ weak' = [weak EXCEPT ![Caller] = It]
            BY <2>4 DEF Handle!GiveHandle
        <3>2. weak'[Caller] = It
            BY <3>1 DEF Owned, Handle!TypeOK
        <3> QED BY <2>1, <3>1, <3>2
    <2> QED BY <1>1, <2>3, <2>4 DEF Open
<1>2. CASE Announce
    <2>1. /\ worker' = "ready" /\ UNCHANGED <<state, undo, owner>>
          /\ undo = "none" /\ owner[It] = "live" /\ state # "Empty"
        BY <1>2 DEF Announce, WorkerStart, HandleRests, handleVars, WorkerInvariant, Fits,
            Starting, Unopened
    <2> QED BY <2>1
<1>3. CASE Unannounced
    BY <1>3, OwnerMoves DEF Unannounced, WorkerRests, vars
<1>4. CASE StartEnds
    <2>1. worker' = "exited" /\ UNCHANGED <<owner, undo>> /\ owner[It] = "gone"
        BY <1>4 DEF StartEnds, WorkerStart, WorkerStartFails, HandleRests, handleVars
    <2> QED BY <2>1
<1> QED BY <1>1, <1>2, <1>3, <1>4

\* A command is received on an open session: the thread only lets go of one when the
\* queue is empty and stays so.
LEMMA ExecuteCoupled ==
    ASSUME SessionInvariant, Execute
    PROVE  Coupled'
<1> USE DEF SessionInvariant, Coupled, Starts, Rests, Executes, Undoes, Alive, LettingGo
<1>1. worker = "ready" /\ queue # <<>> /\ undo = "none" /\ undo' = "none"
    BY DEF Execute, Receive
<1>2. state # "Empty" /\ owner[It] = "live"
    <2>1. state \in Typestate
        BY Received, Commands DEF Execute
    <2> QED BY <1>1, <2>1, Kinds
<1>3. CASE worker' = "native"
    BY <1>1, <1>2, <1>3, OwnerMoves DEF Execute
<1>4. CASE worker' # "native"
    <2>1. worker' = "replying" /\ UNCHANGED owner
        BY <1>4 DEF Execute, Receive, WrongState, LeaseRefused, Begin, LeaveStopped, handleVars
    <2>2. state' # "Empty"
        BY <1>2, <2>1 DEF Execute, Receive, WrongState, LeaseRefused, Begin, LeaveStopped
    <2>3. owner'[It] = "live" /\ undo' = "none"
        BY <1>1, <1>2, <2>1
    <2> QED BY <2>1, <2>2, <2>3
<1> QED BY <1>3, <1>4

LEMMA ReturnsCoupled ==
    ASSUME SessionInvariant, OperationReturns \/ EndReturns \/ Replies
    PROVE  Coupled'
<1> USE DEF SessionInvariant, Coupled, Starts, Rests, Executes, Undoes, Alive, LettingGo
<1>1. CASE OperationReturns
    <2>1. worker = "native" /\ worker' = "replying" /\ undo = "none" /\ undo' = "none"
        BY <1>1 DEF OperationReturns, NativeReturn
    <2>2. state' # "Empty"
        BY <1>1, Commands, Kinds DEF OperationReturns, NativeReturn, WorkerInvariant, TypeOK,
            Fits, JobFits, NoJob
    <2> QED BY <1>1, <2>1, <2>2, OwnerMoves DEF OperationReturns
<1>2. CASE EndReturns
    <2>1. worker' = "replying" /\ undo = "none" /\ undo' = "none" /\ owner'[It] = "gone"
        BY <1>2 DEF EndReturns, NativeReturn, HandleRests, handleVars
    <2>2. state' = "Empty"
        BY <1>2, Commands, Kinds DEF EndReturns, NativeReturn, WorkerInvariant, Fits, JobFits
    <2> QED BY <2>1, <2>2
<1>3. CASE Replies
    BY <1>3 DEF Replies, Reply, HandleRests, handleVars
<1> QED BY <1>1, <1>2, <1>3

LEMMA EndsCoupled ==
    ASSUME SessionInvariant, NEW ok \in BOOLEAN, Ends(ok)
    PROVE  Coupled'
<1> USE DEF SessionInvariant, Coupled, Starts, Rests, Executes, Undoes, Alive, LettingGo
<1>1. /\ UNCHANGED <<worker, state, job, holds, connected, queue, undo, weak>>
      /\ \/ owner[It] = "locking" /\ owner'[It] \in {"ending"} \cup LettingGo
         \/ owner[It] = "ending" /\ owner'[It] = "releasing"
         \/ owner[It] \in {"releasing", "closing"} /\ owner'[It] \in {"closing", "gone"}
    BY OwnerEnds DEF Ends, WorkerRests, vars
<1>2. worker \in {"starting", "ready", "native", "replying", "recovering", "unwinding", "exited"}
    BY DEF WorkerInvariant, TypeOK
<1>3. Starts' /\ Executes' /\ Undoes'
    BY <1>1, <1>2
<1>4. Rests'
    BY <1>1, <1>2
<1> QED BY <1>3, <1>4

\* A waker panics: the worker is unwinding, and what it holds is as it was.
LEMMA PanicCoupled ==
    ASSUME SessionInvariant, Panics
    PROVE  Coupled'
<1> USE DEF SessionInvariant, Coupled, Starts, Rests, Executes, Undoes, Alive, LettingGo
<1>1. CASE AnnouncePanics
    BY <1>1 DEF AnnouncePanics, WorkerStartPanics, handleVars
<1>2. CASE PanicUnwinds
    BY <1>2, OwnerMoves DEF PanicUnwinds, ProgressPanics
<1>3. CASE ReplyUnwinds
    BY <1>3 DEF ReplyUnwinds, ReplyPanics, handleVars
<1> QED BY <1>1, <1>2, <1>3 DEF Panics

LEMMA UndoCoupled ==
    ASSUME SessionInvariant, UndoInPanic \/ UndoInDrop \/ UndoReturns
    PROVE  Coupled'
<1> USE DEF SessionInvariant, Coupled, Starts, Rests, Executes, Undoes, Alive, LettingGo
<1>1. worker \in {"starting", "ready", "native", "replying", "recovering", "unwinding", "exited"}
    BY DEF WorkerInvariant, TypeOK
<1>2. CASE UndoInPanic
    BY <1>1, <1>2, OwnerMoves DEF UndoInPanic, vars
<1>3. CASE UndoInDrop
    BY <1>3, OwnerMoves DEF UndoInDrop, Disconnected
<1>4. CASE UndoReturns
    BY <1>1, <1>4, OwnerMoves DEF UndoReturns, vars
<1> QED BY <1>2, <1>3, <1>4

LEMMA LeavesCoupled ==
    ASSUME SessionInvariant, LetGo \/ Exit
    PROVE  Coupled'
<1> USE DEF SessionInvariant, Coupled, Starts, Rests, Executes, Undoes, Alive, LettingGo
<1>1. CASE LetGo
    <2>1. /\ UNCHANGED <<worker, state, job, holds, connected, queue, undo, weak, ended>>
          /\ owner[It] = "live" /\ owner'[It] = "releasing"
          /\ undo = "done" \/ (worker = "ready" /\ queue = <<>> /\ ~connected /\ state # "Pending")
        BY <1>1, OwnerMoves DEF LetGo, WorkerRests, vars
    <2>2. ~ended[It]
        BY <2>1 DEF Owned, Handle!OwnershipInvariant, Handle!HeldIsOpen
    <2>3. worker \in {"starting", "ready", "native", "replying", "recovering", "unwinding", "exited"}
        BY DEF WorkerInvariant, TypeOK
    <2> QED BY <2>1, <2>2, <2>3
<1>2. CASE Exit
    BY <1>2 DEF Exit, Recovered, Disconnected, HandleRests, handleVars
<1> QED BY <1>1, <1>2

LEMMA SessionStep == SessionInvariant /\ [SessionNext]_sessionVars => SessionInvariant'
<1> SUFFICES ASSUME SessionInvariant, [SessionNext]_sessionVars PROVE SessionInvariant'
    OBVIOUS
<1>1. WorkerInvariant' /\ Owned'
    BY BothStep, WorkerStep, HandleStep DEF SessionInvariant
<1>2. ASSUME WorkerThread PROVE Coupled'
    BY <1>2, StartingCoupled, ExecuteCoupled, ReturnsCoupled, EndsCoupled, UndoCoupled,
        LeavesCoupled
    DEF WorkerThread
<1>3. ASSUME NativeReturns \/ Panics PROVE Coupled'
    BY <1>3, ReturnsCoupled, UndoCoupled, PanicCoupled DEF NativeReturns
<1>4. ASSUME ~(WorkerThread \/ NativeReturns \/ Panics) PROVE Coupled'
    BY <1>4, EnvironmentCoupled DEF SessionNext
<1>5. Coupled'
    BY <1>2, <1>3, <1>4
<1> QED BY <1>1, <1>5 DEF SessionInvariant

LEMMA InitSession == SessionInit => SessionInvariant
<1> SUFFICES ASSUME SessionInit PROVE SessionInvariant
    OBVIOUS
<1>1. WorkerInvariant /\ Owned
    BY InitWorker, HandleInit DEF SessionInit
<1>2. owner[It] = "unborn" /\ weak[Caller] = None /\ worker = "starting" /\ undo = "none"
    BY DEF SessionInit, Init, Handle!Init
<1> QED BY <1>1, <1>2, AsyncSessionAssumption
    DEF SessionInvariant, Coupled, Starts, Rests, Executes, Undoes, Alive

----------------------------------------------------------------------------
(***************************************************************************)
(* The theorems about the worker over the native session.                  *)
(***************************************************************************)

\* Worker, client and handle, and what each may be doing while the others go on, for
\* any number of commands, other sessions and cancelling threads (tokio.rs, sys.rs).
THEOREM SessionInvariantHolds == SessionSpec => []SessionInvariant
<1>1. SessionInvariant /\ [SessionNext]_sessionVars => SessionInvariant'
    BY SessionStep
<1> QED BY InitSession, <1>1, PTL DEF SessionSpec

\* Types are kept, those of the handle and of the interrupted restart among them.
THEOREM SessionTypeCorrect == SessionSpec => []SessionTypeOK
<1>1. SessionInvariant => SessionTypeOK
    BY DEF SessionInvariant, SessionTypeOK, WorkerInvariant, Owned, Coupled, Undoes
<1> QED BY <1>1, SessionInvariantHolds, PTL

\* The facade over the native session behaves as AsyncWorker says, which knows only
\* the log of the calls: nothing the handle does adds a step of the worker or client.
THEOREM SessionImplementsWorker == SessionSpec => Spec
<1>1. [SessionNext]_sessionVars => [Next]_vars
    BY BothStep
<1>2. SessionInit => Init
    BY DEF SessionInit
<1> QED BY <1>1, <1>2, PTL DEF SessionSpec, Spec

\* And the worker thread, the dropped futures and the other threads use the native
\* sessions as SessionHandle says, whatever the order of the calls they make.
THEOREM SessionImplementsHandle == SessionSpec => Handle!Spec
<1>1. [SessionNext]_sessionVars => [Handle!Next]_(Handle!vars)
    BY BothStep
<1>2. SessionInit => Handle!Init
    BY DEF SessionInit
<1> QED BY <1>1, <1>2, PTL DEF SessionSpec, Handle!Spec

\* So the recovery contract holds of the whole: a drop that is overtaken by its own
\* cancel call never loses the attempt to restart (tokio.rs:731, :783).
THEOREM SessionKeepsContract == SessionSpec => RecoveryContractHolds
BY SessionImplementsWorker, WorkerImplementsContract

\* No native call of the worker, of a dropped future or of a user's thread is made on
\* a raw value that Windows has released (sys.rs:345, :357, tokio.rs:783).
THEOREM AsyncNativeCallsSafe == SessionSpec => []Handle!NativeCallsOwnSession
<1>1. [Handle!Next]_(Handle!vars) => [Ownership!Next]_(Ownership!vars)
    BY SameNext, SameVars DEF Handle!vars, Ownership!vars
<1>2. Ownership!NativeCallsOwnSession => Handle!NativeCallsOwnSession
    BY Zenon DEF Handle!NativeCallsOwnSession, Handle!InNative, Handle!Open, Handle!Cancelling,
        Ownership!NativeCallsOwnSession, Ownership!InNative, Ownership!Open, Ownership!Cancelling
<1>3. Ownership!Spec => []Ownership!NativeCallsOwnSession
    BY HandleAssumption, Ownership!NativeCallsSafe
<1> QED BY SessionImplementsHandle, SameInit, <1>1, <1>2, <1>3, PTL DEF Handle!Spec, Ownership!Spec

\* A command never runs on a session that someone else, or the worker before it, has
\* ended, and a worker that is not letting go has an open one (tokio.rs:246, :783;
\* session.rs:447).
THEOREM CommandsRunOnOpenSession == SessionSpec => []CommandsFindOpenSession
<1>1. SessionInvariant => CommandsFindOpenSession
    <2> SUFFICES ASSUME SessionInvariant PROVE CommandsFindOpenSession
        OBVIOUS
    <2>1. Handle!HeldIsOpen(It) /\ Handle!DestructorAlone(It)
        BY DEF SessionInvariant, Owned, Handle!OwnershipInvariant
    <2>2. ASSUME owner[It] \in {"live", "operating"} PROVE Handle!Open(It) /\ ~ended[It]
        BY <2>1, <2>2 DEF Handle!HeldIsOpen, Handle!Strong, Handle!OwnerHolds
    <2>3. ASSUME worker = "ready", state # "Empty", owner[It] # "gone" PROVE Handle!Open(It)
        <3>1. CASE owner[It] \in {"live", "releasing"}
            <4>1. ~ended[It]
                BY <2>1, <2>3, <3>1 DEF SessionInvariant, Coupled, Rests, Handle!HeldIsOpen
            <4> QED BY <2>1, <3>1, <4>1 DEF Handle!HeldIsOpen, Handle!Strong, Handle!OwnerHolds
        <3>2. CASE owner[It] = "closing"
            BY <2>1, <3>2 DEF Handle!DestructorAlone, Handle!Closing
        <3> QED BY <2>3, <3>1, <3>2 DEF SessionInvariant, Coupled, Rests, LettingGo
    <2> QED BY <2>2, <2>3 DEF CommandsFindOpenSession
<1> QED BY <1>1, SessionInvariantHolds, PTL

\* When the worker thread is gone and no cancel call is running, the native session is
\* ended, unless the destructor tried and Windows refused (tokio.rs:240, sys.rs:368).
THEOREM WorkerLeavesNothingBehind == SessionSpec => []WorkerLeavesNothing
<1>1. SessionInvariant => WorkerLeavesNothing
    <2> SUFFICES ASSUME SessionInvariant, worker = "exited",
                        Handle!Cancelling(It, Handle!CancellerPC \ {"idle"}) = {},
                        Handle!Open(It)
                 PROVE  dropCalls[It] = 1
        BY DEF WorkerLeavesNothing
    <2>1. owner[It] = "gone"
        BY DEF SessionInvariant, Coupled, Undoes
    <2>2. Handle!Strong(It) = {}
        BY <2>1 DEF Handle!Strong, Handle!Cancelling, Handle!CancellerPC, Handle!CancellerHolds,
            Handle!OwnerHolds
    <2>3. dropCalls[It] # 0
        BY <2>2 DEF SessionInvariant, Owned, Handle!OwnershipInvariant, Handle!EndedMeans
    <2> QED BY <2>3 DEF SessionInvariant, Owned, Handle!TypeOK
<1> QED BY <1>1, SessionInvariantHolds, PTL

----------------------------------------------------------------------------
(***************************************************************************)
(* The progress stream.  Values increase, so there are no more             *)
(* versions than values; no receiver is ahead of the channel; and one that *)
(* has marked a version as seen since it was made has read something, and  *)
(* the current value if that version is the current one.                   *)
(***************************************************************************)
USE WatchAssumption

VersionsCounted == version <= value + 1

NobodyAhead ==
    \A r \in Receiver :
        /\ born[r] <= seen[r] /\ seen[r] <= version
        /\ at[r] = "changed" => born[r] < seen[r]
        /\ at[r] = "ended" => closed /\ seen[r] = version

ReadsBounded ==
    \A r \in Receiver : \A i \in DOMAIN received[r] : received[r][i] <= value

SeenIsRead ==
    \A r \in Receiver : born[r] < seen[r] /\ at[r] # "changed" =>
        /\ received[r] # <<>>
        /\ seen[r] = version => received[r][Len(received[r])] = value

StreamInvariant ==
    StreamTypeOK /\ VersionsCounted /\ NobodyAhead /\ ReadsBounded /\ SeenIsRead /\ NeverGoesBack

LEMMA InitStream == StreamInit => StreamInvariant
<1> SUFFICES ASSUME StreamInit PROVE StreamInvariant
    OBVIOUS
<1>1. StreamTypeOK
    <2>1. received \in [Receiver -> Seq(0 .. MaxPercent)]
        <3>1. <<>> \in Seq(0 .. MaxPercent)
            OBVIOUS
        <3>2. QED BY <3>1 DEF StreamInit
    <2>2. at \in [Receiver -> {"unborn", "idle", "changed", "ended"}]
        BY DEF StreamInit
    <2>3. seen \in [Receiver -> 0 .. MaxPercent + 1] /\ born \in [Receiver -> 0 .. MaxPercent + 1]
        BY DEF StreamInit
    <2>4. QED
        <3>1. value \in NoValue .. MaxPercent /\ version \in 0 .. MaxPercent + 1
            BY DEF StreamInit, NoValue
        <3>2. closed \in BOOLEAN
            BY DEF StreamInit
        <3>3. QED BY <2>1, <2>2, <2>3, <3>1, <3>2 DEF StreamTypeOK
<1>2. VersionsCounted /\ NobodyAhead
    BY DEF StreamInit, VersionsCounted, NobodyAhead, NoValue
<1>3. ReadsBounded /\ SeenIsRead /\ NeverGoesBack
    BY DEF StreamInit, ReadsBounded, SeenIsRead, NeverGoesBack
<1>4. QED BY <1>1, <1>2, <1>3 DEF StreamInvariant

\* The types, variable by variable, as the arithmetic of the steps needs them.
LEMMA StreamNumbers ==
    ASSUME StreamTypeOK, NEW r \in Receiver
    PROVE  /\ value \in Int /\ version \in Nat /\ seen[r] \in Nat /\ born[r] \in Nat
           /\ DOMAIN received[r] = 1 .. Len(received[r]) /\ Len(received[r]) \in Nat
           /\ \A i \in 1 .. Len(received[r]) : received[r][i] \in Nat
<1>1. received[r] \in Seq(0 .. MaxPercent)
    BY DEF StreamTypeOK
<1> QED BY <1>1 DEF StreamTypeOK, NoValue

LEMMA SendStep ==
    ASSUME StreamInvariant, NEW percent \in 0 .. MaxPercent, SendReplace(percent)
    PROVE  StreamInvariant'
<1> USE DEF StreamInvariant, SendReplace, NoValue
<1>1. StreamTypeOK'
    BY DEF StreamTypeOK, VersionsCounted
<1>2. VersionsCounted'
    BY DEF StreamTypeOK, VersionsCounted
<1>3. NobodyAhead'
    BY DEF StreamTypeOK, NobodyAhead
<1>4. ReadsBounded'
    <2> SUFFICES ASSUME NEW r \in Receiver, NEW i \in DOMAIN received[r]
                 PROVE  received[r][i] <= percent
        BY DEF ReadsBounded
    <2>1. received[r][i] <= value
        BY DEF ReadsBounded
    <2> QED BY <2>1, StreamNumbers
<1>5. SeenIsRead'
    BY DEF StreamTypeOK, SeenIsRead, NobodyAhead
<1>6. NeverGoesBack'
    BY DEF NeverGoesBack
<1>7. QED BY <1>1, <1>2, <1>3, <1>4, <1>5, <1>6

LEMMA PeekStep ==
    ASSUME StreamInvariant, NEW r \in Receiver, Peek(r)
    PROVE  StreamInvariant'
<1> USE DEF StreamInvariant, NoValue
<1>1. value \in 0 .. MaxPercent
    BY DEF Peek, StreamTypeOK, VersionsCounted, NobodyAhead
<1>2. /\ received'[r] = Append(received[r], value)
      /\ \A q \in Receiver \ {r} : received'[q] = received[q] /\ at'[q] = at[q]
      /\ at'[r] = "idle"
    BY DEF Peek, StreamTypeOK
<1>3. /\ Len(received'[r]) = Len(received[r]) + 1
      /\ \A i \in 1 .. Len(received[r]) : received'[r][i] = received[r][i]
      /\ received'[r][Len(received[r]) + 1] = value
      /\ received[r] \in Seq(0 .. MaxPercent)
      /\ received'[r] \in Seq(0 .. MaxPercent)
    BY <1>1, <1>2 DEF StreamTypeOK
<1>4. DOMAIN received'[r] = 1 .. Len(received[r]) + 1
    BY <1>3
<1>5. StreamTypeOK'
    BY <1>3 DEF Peek, StreamTypeOK
<1>6. VersionsCounted' /\ NobodyAhead'
    BY <1>2 DEF Peek, StreamTypeOK, VersionsCounted, NobodyAhead
<1>7. ReadsBounded'
    BY <1>1, <1>2, <1>3 DEF Peek, StreamTypeOK, ReadsBounded
<1>8. SeenIsRead'
    <2>1. received'[r] # <<>> /\ received'[r][Len(received'[r])] = value
        BY <1>3
    <2>2. QED BY <1>2, <2>1 DEF Peek, StreamTypeOK, SeenIsRead
<1>9. NeverGoesBack'
    <2> SUFFICES ASSUME NEW q \in Receiver, NEW i \in DOMAIN received'[q],
                        NEW j \in DOMAIN received'[q], i < j
                 PROVE  received'[q][i] <= received'[q][j]
        BY DEF NeverGoesBack
    <2>1. CASE q # r
        BY <1>2, <2>1 DEF NeverGoesBack
    <2>2. CASE q = r
        <3>1. DOMAIN received[r] = 1 .. Len(received[r]) /\ Len(received[r]) \in Nat
            BY StreamNumbers
        <3>2. i \in 1 .. Len(received[r]) + 1 /\ j \in 1 .. Len(received[r]) + 1
            BY <1>4, <2>2
        <3>3. i \in DOMAIN received[r] /\ received'[r][i] = received[r][i]
            <4>1. i \in 1 .. Len(received[r])
                BY <3>1, <3>2
            <4> QED BY <1>3, <3>1, <4>1
        <3>4. CASE j = Len(received[r]) + 1
            BY <1>3, <2>2, <3>3, <3>4 DEF ReadsBounded
        <3>5. CASE j # Len(received[r]) + 1
            <4>1. j \in 1 .. Len(received[r])
                BY <3>1, <3>2, <3>5
            <4>2. j \in DOMAIN received[r] /\ received'[r][j] = received[r][j]
                BY <1>3, <3>1, <4>1
            <4> QED BY <2>2, <3>3, <4>2 DEF NeverGoesBack
        <3> QED BY <3>4, <3>5
    <2> QED BY <2>1, <2>2
<1>10. QED BY <1>5, <1>6, <1>7, <1>8, <1>9

LEMMA OtherSteps ==
    ASSUME StreamInvariant,
           \/ Close
           \/ \E r, q \in Receiver : Clone(r, q)
           \/ \E r \in Receiver : Changed(r) \/ Ended(r)
           \/ UNCHANGED streamVars
    PROVE  StreamInvariant'
<1> USE DEF StreamInvariant
<1>1. CASE Close
    BY <1>1 DEF Close, StreamTypeOK, VersionsCounted, NobodyAhead, ReadsBounded, SeenIsRead,
        NeverGoesBack
<1>2. ASSUME NEW r \in Receiver, NEW q \in Receiver, Clone(r, q)
      PROVE  StreamInvariant'
    <2>1. StreamTypeOK'
        BY <1>2 DEF Clone, StreamTypeOK
    <2>2. VersionsCounted' /\ ReadsBounded' /\ NeverGoesBack'
        BY <1>2 DEF Clone, VersionsCounted, ReadsBounded, NeverGoesBack
    <2>3. /\ at' = [at EXCEPT ![q] = "idle"] /\ UNCHANGED <<value, version, closed, received>>
          /\ seen'[q] = seen[r] /\ born'[q] = seen[r] /\ at'[q] = "idle"
          /\ \A x \in Receiver \ {q} : seen'[x] = seen[x] /\ born'[x] = born[x] /\ at'[x] = at[x]
        BY <1>2 DEF Clone, StreamTypeOK
    <2>4. NobodyAhead'
        BY <2>3, StreamNumbers DEF NobodyAhead
    <2>5. SeenIsRead'
        BY <2>3, StreamNumbers DEF NobodyAhead, SeenIsRead
    <2>6. QED BY <2>1, <2>2, <2>4, <2>5
<1>3. ASSUME NEW r \in Receiver, Changed(r)
      PROVE  StreamInvariant'
    <2>1. StreamTypeOK'
        BY <1>3 DEF Changed, StreamTypeOK
    <2>2. VersionsCounted' /\ ReadsBounded' /\ NeverGoesBack'
        BY <1>3 DEF Changed, VersionsCounted, ReadsBounded, NeverGoesBack
    <2>3. /\ at[r] = "idle" /\ seen[r] # version
          /\ UNCHANGED <<value, version, closed, born, received>>
          /\ seen'[r] = version /\ at'[r] = "changed"
          /\ \A x \in Receiver \ {r} : seen'[x] = seen[x] /\ at'[x] = at[x]
        BY <1>3 DEF Changed, StreamTypeOK
    <2>4. NobodyAhead'
        BY <2>3, StreamNumbers DEF NobodyAhead
    <2>5. SeenIsRead'
        BY <2>3 DEF SeenIsRead
    <2>6. QED BY <2>1, <2>2, <2>4, <2>5
<1>4. ASSUME NEW r \in Receiver, Ended(r)
      PROVE  StreamInvariant'
    BY <1>4 DEF Ended, StreamTypeOK, VersionsCounted, NobodyAhead, ReadsBounded, SeenIsRead,
        NeverGoesBack
<1>5. CASE UNCHANGED streamVars
    BY <1>5 DEF streamVars, StreamTypeOK, VersionsCounted, NobodyAhead, ReadsBounded, SeenIsRead,
        NeverGoesBack
<1>6. QED BY <1>1, <1>2, <1>3, <1>4, <1>5

LEMMA StreamStep == StreamInvariant /\ [StreamNext]_streamVars => StreamInvariant'
<1> SUFFICES ASSUME StreamInvariant, [StreamNext]_streamVars PROVE StreamInvariant'
    OBVIOUS
<1> QED BY SendStep, PeekStep, OtherSteps DEF StreamNext, Recv, StreamOver

LEMMA StreamInvariantHolds == StreamSpec => []StreamInvariant
<1> QED BY InitStream, StreamStep, PTL DEF StreamSpec

\* Types are kept: in particular no more versions are sent than there are percentages,
\* because deliver_progress only lets increasing values through (session.rs:655).
THEOREM StreamTypeCorrect == StreamSpec => []StreamTypeOK
<1>1. StreamInvariant => StreamTypeOK
    BY DEF StreamInvariant
<1> QED BY StreamInvariantHolds, <1>1, PTL

\* No receiver, and no clone of one, ever reads a percentage below one it has read,
\* however many tasks receive at once (tokio.rs:540).
THEOREM ProgressNeverGoesBack == StreamSpec => []NeverGoesBack
<1>1. StreamInvariant => NeverGoesBack
    BY DEF StreamInvariant
<1> QED BY StreamInvariantHolds, <1>1, PTL

\* A receiver that has come to the end of the stream has read the last value, if
\* any value was sent since it was made (tokio.rs:541).
THEOREM LastValueIsReceived == StreamSpec => []LastValueReceived
<1>1. StreamInvariant => LastValueReceived
    BY DEF StreamInvariant, LastValueReceived, NobodyAhead, SeenIsRead, StreamTypeOK
<1> QED BY StreamInvariantHolds, <1>1, PTL
=============================================================================
