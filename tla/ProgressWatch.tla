--------------------------- MODULE ProgressWatch ---------------------------
(***************************************************************************)
(* Progress through a Tokio watch channel (src/src/tokio.rs:               *)
(* ProgressReceiver, and the senders of ShutdownWithProgress and           *)
(* RestartWithProgress).  The channel itself is Tokio's and is modelled    *)
(* from how it is used: one shared value with a version, and in every      *)
(* receiver the version it has seen.                                       *)
(*                                                                         *)
(* recv() is two operations on the channel, changed() and then borrow():   *)
(* the worker may send between them.                                       *)
(***************************************************************************)
EXTENDS Integers, Sequences

CONSTANTS
    Receiver,   \* the ProgressReceiver and its clones, each drained by a task
    First,      \* the one made with the channel
    MaxPercent  \* 0 .. MaxPercent are the values a callback is given (0 .. 100)

ASSUME WatchAssumption == First \in Receiver /\ MaxPercent \in Nat

NoValue == -1   \* Option::None, what the channel holds at first

VARIABLES
    value,      \* the shared value
    version,    \* how many values were sent
    closed,     \* the sender is gone with the command it came in
    seen,       \* the version each receiver has marked as seen
    at,         \* where each receiver is: "unborn", "idle", in recv() or at the end
    born,       \* history: the version a receiver was cloned at
    received    \* history: what recv() has returned

streamVars == <<value, version, closed, seen, at, born, received>>

StreamTypeOK ==
    /\ value \in NoValue .. MaxPercent
    /\ version \in 0 .. MaxPercent + 1
    /\ closed \in BOOLEAN
    /\ seen \in [Receiver -> 0 .. MaxPercent + 1]
    /\ at \in [Receiver -> {"unborn", "idle", "changed", "ended"}]
    /\ born \in [Receiver -> 0 .. MaxPercent + 1]
    /\ received \in [Receiver -> Seq(0 .. MaxPercent)]

StreamInit ==
    /\ value = NoValue /\ version = 0 /\ closed = FALSE
    /\ seen = [r \in Receiver |-> 0]
    /\ at = [r \in Receiver |-> IF r = First THEN "idle" ELSE "unborn"]
    /\ born = [r \in Receiver |-> 0]
    /\ received = [r \in Receiver |-> <<>>]

\* send_replace on the worker, from deliver_progress: strictly increasing values.
\* (Variants forget the order, or let a value be repeated.)
SendUnordered(percent) ==
    /\ ~closed /\ version <= MaxPercent
    /\ value' = percent
    /\ version' = version + 1
    /\ UNCHANGED <<closed, seen, at, born, received>>

SendRepeated(percent) ==
    /\ ~closed
    /\ percent >= value
    /\ value' = percent
    /\ version' = version + 1
    /\ UNCHANGED <<closed, seen, at, born, received>>

SendReplace(percent) ==
    /\ ~closed
    /\ percent > value
    /\ value' = percent
    /\ version' = version + 1
    /\ UNCHANGED <<closed, seen, at, born, received>>

\* The command is executed and dropped: at its end, or when the callback panicked.
Close ==
    /\ ~closed
    /\ closed' = TRUE
    /\ UNCHANGED <<value, version, seen, at, born, received>>

\* A clone has seen what its original has.
Clone(r, q) ==
    /\ at[r] \in {"idle", "ended"} /\ at[q] = "unborn"
    /\ at' = [at EXCEPT ![q] = "idle"]
    /\ seen' = [seen EXCEPT ![q] = seen[r]]
    /\ born' = [born EXCEPT ![q] = seen[r]]
    /\ UNCHANGED <<value, version, closed, received>>

\* recv(): changed() returns, having marked the current version as seen, ...
Changed(r) ==
    /\ at[r] = "idle"
    /\ seen[r] # version
    /\ seen' = [seen EXCEPT ![r] = version]
    /\ at' = [at EXCEPT ![r] = "changed"]
    /\ UNCHANGED <<value, version, closed, born, received>>

\* ... and peek() reads the value there is by then.
Peek(r) ==
    /\ at[r] = "changed"
    /\ received' = [received EXCEPT ![r] = Append(@, value)]
    /\ at' = [at EXCEPT ![r] = "idle"]
    /\ UNCHANGED <<value, version, closed, seen, born>>

\* recv() returns None: there is nothing unseen and the sender is gone.  (Variants
\* look at the sender first, or wait for the last percent.)
EndedUnread(r) ==
    /\ at[r] = "idle"
    /\ closed
    /\ at' = [at EXCEPT ![r] = "ended"]
    /\ UNCHANGED <<value, version, closed, seen, born, received>>

EndedWhenComplete(r) ==
    /\ at[r] = "idle"
    /\ seen[r] = version /\ value = MaxPercent
    /\ at' = [at EXCEPT ![r] = "ended"]
    /\ UNCHANGED <<value, version, closed, seen, born, received>>

Ended(r) ==
    /\ at[r] = "idle"
    /\ seen[r] = version /\ closed
    /\ at' = [at EXCEPT ![r] = "ended"]
    /\ UNCHANGED <<value, version, closed, seen, born, received>>

StreamOver == closed /\ (\A r \in Receiver : at[r] = "ended") /\ UNCHANGED streamVars

Recv(r) == Changed(r) \/ Peek(r) \/ Ended(r)

StreamNext ==
    \/ \E percent \in 0 .. MaxPercent : SendReplace(percent)
    \/ Close
    \/ \E r, q \in Receiver : Clone(r, q)
    \/ \E r \in Receiver : Recv(r)
    \/ StreamOver

StreamSpec == StreamInit /\ [][StreamNext]_streamVars

\* Each task drains its receiver; nothing is asked of the worker.
FairStreamSpec == StreamSpec /\ \A r \in Receiver : WF_streamVars(Recv(r))

----------------------------------------------------------------------------
\* Progress never goes back for any receiver, however its reads interleave with the
\* worker's sends and with cloning (tokio.rs:540).
NeverGoesBack ==
    \A r \in Receiver : \A i, j \in DOMAIN received[r] :
        i < j => received[r][i] <= received[r][j]

\* Samples are coalesced but the last one is not lost: a receiver only sees the end
\* of the stream after the last value that was new to it (tokio.rs:541, ADR 0006).
LastValueReceived ==
    \A r \in Receiver : at[r] = "ended" /\ version > born[r] =>
        received[r] # <<>> /\ received[r][Len(received[r])] = value

\* What the documentation of recv says: it receives a newer value (tokio.rs:540).  It
\* may return the same value twice.
RecvReturnsNewer ==
    \A r \in Receiver : \A i, j \in DOMAIN received[r] :
        i < j => received[r][i] < received[r][j]

\* The stream of every receiver ends once the operation is over (tokio.rs:541).
StreamEnds ==
    \A r \in Receiver : closed /\ at[r] # "unborn" ~> at[r] = "ended"
=============================================================================
