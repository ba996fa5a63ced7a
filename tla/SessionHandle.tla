--------------------------- MODULE SessionHandle ---------------------------
(***************************************************************************)
(* The lifetime of native Restart Manager sessions (src/src/sys.rs, type   *)
(* SessionHandle, with SessionCore and CancellationHandle of session.rs).  *)
(*                                                                         *)
(* A SessionHandle owns one native session, named by a small integer, its  *)
(* raw value, that Windows gives out again once the session is ended.  It  *)
(* lives in an Arc: the typestate value that owns the session holds one    *)
(* strong reference and every CancellationHandle a weak one, upgraded for  *)
(* the length of one cancel call.  Each session is driven by one owning    *)
(* thread; the other threads only cancel.                                  *)
(*                                                                         *)
(* The strong count and the holder of the mutex `ended` are not variables: *)
(* a reference and a guard are scoped values, so who holds them is read    *)
(* off the program counters.                                               *)
(***************************************************************************)
EXTENDS Naturals, FiniteSets

CONSTANTS
    Session,    \* SessionHandle values, each with the thread that owns it
    Thread,     \* threads that may hold a CancellationHandle
    Slot,       \* raw values of the native session table (64 in Windows)
    None,       \* no session, no raw value
    MaxTries    \* cancel calls each thread makes (a bound of the model)

ASSUME SessionAssumption ==
    /\ None \notin Session \cup Slot
    /\ Session \cap Thread = {}
    /\ MaxTries \in Nat

VARIABLES
    table,      \* the session each entry of the native table is open for
    raw,        \* SessionHandle.raw; None until the session is started
    ended,      \* SessionHandle.ended, what the mutex protects
    owner,      \* program counter of the owning thread of each session
    canceller,  \* program counter of each cancelling thread
    weak,       \* the session whose CancellationHandle a thread holds
    tries,      \* cancel calls made so far by each thread
    task,       \* is a cancellable native operation of the session asked to stop
    endCalls,   \* history: RmEndSession calls made by end(),
    dropCalls   \* and by the destructor

vars == <<table, raw, ended, owner, canceller, weak, tries, task, endCalls, dropCalls>>

\* Program counters at which a thread holds a strong reference, ...
OwnerHolds == {"live", "operating", "locking", "ending", "releasing"}
CancellerHolds == {"locking", "calling", "releasing", "refused"}
OwnerPC == OwnerHolds \cup {"unborn", "closing", "gone"}
CancellerPC == CancellerHolds \cup {"idle", "closing"}

\* ... the threads that do, the strong references of the session's Arc, ...
Cancelling(s, pcs) == {c \in Thread : weak[c] = s /\ canceller[c] \in pcs}
Strong(s) ==
    Cancelling(s, CancellerHolds) \cup {o \in {s} : owner[o] \in OwnerHolds}

\* ... and whether the mutex `ended` can be taken.
\* (A variant: native operations of the owner hold the mutex too.)
UnlockedUnlessBusy(s) ==
    owner[s] \notin {"ending", "operating"} /\ Cancelling(s, {"calling"}) = {}
Unlocked(s) == owner[s] # "ending" /\ Cancelling(s, {"calling"}) = {}

\* The session is open in Windows and the raw value still names it.
Open(s) == raw[s] \in Slot /\ table[raw[s]] = s

\* A native call on the raw value of s is in progress.
InNative(s) ==
    \/ owner[s] \in {"operating", "ending", "closing"}
    \/ Cancelling(s, {"calling", "closing"}) # {}

TypeOK ==
    /\ table \in [Slot -> Session \cup {None}]
    /\ raw \in [Session -> Slot \cup {None}]
    /\ ended \in [Session -> BOOLEAN]
    /\ owner \in [Session -> OwnerPC]
    /\ canceller \in [Thread -> CancellerPC]
    /\ weak \in [Thread -> Session \cup {None}]
    /\ tries \in [Thread -> 0 .. MaxTries]
    /\ task \in [Session -> BOOLEAN]
    /\ endCalls \in [Session -> 0 .. 1]
    /\ dropCalls \in [Session -> 0 .. 1]

Init ==
    /\ table = [k \in Slot |-> None]
    /\ raw = [s \in Session |-> None]
    /\ ended = [s \in Session |-> FALSE]
    /\ owner = [s \in Session |-> "unborn"]
    /\ canceller = [c \in Thread |-> "idle"]
    /\ weak = [c \in Thread |-> None]
    /\ tries = [c \in Thread |-> 0]
    /\ task = [s \in Session |-> FALSE]
    /\ endCalls = [s \in Session |-> 0]
    /\ dropCalls = [s \in Session |-> 0]

(***************************************************************************)
(* What RmEndSession does to the table: it frees the entry, or fails and   *)
(* leaves it, whichever session the entry is open for by then.             *)
(***************************************************************************)
NativeEnd(s, succeeds) ==
    table' = IF succeeds THEN [table EXCEPT ![raw[s]] = None] ELSE table

(***************************************************************************)
(* SessionHandle::start and ::join.  The native session exists before the  *)
(* key is decoded: when the key is malformed the new value is dropped, and *)
(* its destructor runs with no Arc ever made.                              *)
(***************************************************************************)
Start(s) ==
    /\ owner[s] = "unborn"
    /\ \E k \in Slot :
        /\ table[k] = None
        /\ table' = [table EXCEPT ![k] = s]
        /\ raw' = [raw EXCEPT ![s] = k]
    /\ \/ /\ owner' = [owner EXCEPT ![s] = "live"]
          /\ UNCHANGED <<ended, dropCalls>>
       \/ /\ owner' = [owner EXCEPT ![s] = "closing"]
          /\ ended' = [ended EXCEPT ![s] = TRUE]
          /\ dropCalls' = [dropCalls EXCEPT ![s] = @ + 1]
    /\ UNCHANGED <<canceller, weak, tries, task, endCalls>>

\* RmStartSession or RmJoinSession fails, because the native table is full or with any
\* other code: no value is made.
StartRefused(s) ==
    /\ owner[s] = "unborn"
    /\ owner' = [owner EXCEPT ![s] = "gone"]
    /\ UNCHANGED <<table, raw, ended, canceller, weak, tries, task, endCalls, dropCalls>>

\* RestartSession::cancellation_handle: Arc::downgrade, handed to a thread.
GiveHandle(s, c) ==
    /\ owner[s] = "live"
    /\ weak[c] = None
    /\ weak' = [weak EXCEPT ![c] = s]
    /\ UNCHANGED <<table, raw, ended, owner, canceller, tries, task, endCalls, dropCalls>>

(***************************************************************************)
(* A native operation of the owning thread: RmShutdown, RmRestart, and the *)
(* short ones.  It borrows the handle and does not take the mutex.         *)
(***************************************************************************)
Operate(s) ==
    /\ owner[s] = "live"
    /\ owner' = [owner EXCEPT ![s] = "operating"]
    /\ task' = [task EXCEPT ![s] = FALSE]
    /\ UNCHANGED <<table, raw, ended, canceller, weak, tries, endCalls, dropCalls>>

OperateReturn(s) ==
    /\ owner[s] = "operating"
    /\ owner' = [owner EXCEPT ![s] = "live"]
    /\ UNCHANGED <<table, raw, ended, canceller, weak, tries, task, endCalls, dropCalls>>

----------------------------------------------------------------------------
(***************************************************************************)
(* SessionCore::end: take the mutex, call RmEndSession under it, record    *)
(* success only, release the mutex and then the reference.                 *)
(***************************************************************************)
EndCall(s) ==
    /\ owner[s] = "live"
    /\ owner' = [owner EXCEPT ![s] = "locking"]
    /\ UNCHANGED <<table, raw, ended, canceller, weak, tries, task, endCalls, dropCalls>>

\* A variant that waits for every outstanding CancellationHandle to be gone.
EndLockUnshared(s) ==
    /\ owner[s] = "locking"
    /\ Unlocked(s)
    /\ \A c \in Thread : weak[c] # s
    /\ owner' = [owner EXCEPT ![s] = "ending"]
    /\ endCalls' = [endCalls EXCEPT ![s] = @ + 1]
    /\ UNCHANGED <<table, raw, ended, canceller, weak, tries, task, dropCalls>>

EndLock(s) ==
    /\ owner[s] = "locking"
    /\ Unlocked(s)
    /\ IF ended[s]
       THEN /\ owner' = [owner EXCEPT ![s] = "releasing"]
            /\ UNCHANGED endCalls
       ELSE /\ owner' = [owner EXCEPT ![s] = "ending"]
            /\ endCalls' = [endCalls EXCEPT ![s] = @ + 1]
    /\ UNCHANGED <<table, raw, ended, canceller, weak, tries, task, dropCalls>>

\* A variant that forgets to look at the result of RmEndSession.
EndReturnUnchecked(s, succeeds) ==
    /\ owner[s] = "ending"
    /\ NativeEnd(s, succeeds)
    /\ ended' = [ended EXCEPT ![s] = TRUE]
    /\ owner' = [owner EXCEPT ![s] = "releasing"]
    /\ UNCHANGED <<raw, canceller, weak, tries, task, endCalls, dropCalls>>

EndReturn(s, succeeds) ==
    /\ owner[s] = "ending"
    /\ NativeEnd(s, succeeds)
    /\ ended' = [ended EXCEPT ![s] = succeeds]
    /\ owner' = [owner EXCEPT ![s] = "releasing"]
    /\ UNCHANGED <<raw, canceller, weak, tries, task, endCalls, dropCalls>>

\* The typestate value is dropped without end(): early return or panic.
OwnerDrop(s) ==
    /\ owner[s] = "live"
    /\ owner' = [owner EXCEPT ![s] = "releasing"]
    /\ UNCHANGED <<table, raw, ended, canceller, weak, tries, task, endCalls, dropCalls>>

(***************************************************************************)
(* Releasing a strong reference.  The last one runs SessionHandle::drop on *)
(* the thread that held it, which may be a cancelling thread: if the       *)
(* session is not known to be ended, RmEndSession is called (again).       *)
(***************************************************************************)
\* (A variant has no shared count: every owner destroys.)
DestroysEachTime(s, holders) == Strong(s) # {}
Destroys(s, holders) == holders = {} /\ ~ended[s]

RunDrop(s, destroys) ==
    IF destroys
    THEN /\ ended' = [ended EXCEPT ![s] = TRUE]
         /\ dropCalls' = [dropCalls EXCEPT ![s] = @ + 1]
    ELSE UNCHANGED <<ended, dropCalls>>

OwnerRelease(s) ==
    LET last == Destroys(s, Strong(s) \ {s}) IN
    /\ owner[s] = "releasing"
    /\ owner' = [owner EXCEPT ![s] = IF last THEN "closing" ELSE "gone"]
    /\ RunDrop(s, last)
    /\ UNCHANGED <<table, raw, canceller, weak, tries, task, endCalls>>

OwnerClosed(s, succeeds) ==
    /\ owner[s] = "closing"
    /\ NativeEnd(s, succeeds)
    /\ owner' = [owner EXCEPT ![s] = "gone"]
    /\ UNCHANGED <<raw, ended, canceller, weak, tries, task, endCalls, dropCalls>>

----------------------------------------------------------------------------
(***************************************************************************)
(* CancellationHandle::cancel: upgrade the weak reference or answer        *)
(* SessionEnded, take the mutex, answer SessionEnded if the session was    *)
(* ended, else call RmCancelCurrentTask under the mutex; then release the  *)
(* mutex and the reference.                                                *)
(***************************************************************************)
Upgrade(c) ==
    LET s == weak[c] IN
    /\ canceller[c] = "idle"
    /\ s \in Session
    /\ tries[c] < MaxTries
    /\ tries' = [tries EXCEPT ![c] = @ + 1]
    /\ canceller' = [canceller EXCEPT ![c] = IF Strong(s) = {} THEN "idle" ELSE "locking"]
    /\ UNCHANGED <<table, raw, ended, owner, weak, task, endCalls, dropCalls>>

\* A variant that does not look at the flag once it has the mutex.
CancelLockUnchecked(c) ==
    /\ canceller[c] = "locking"
    /\ Unlocked(weak[c])
    /\ canceller' = [canceller EXCEPT ![c] = "calling"]
    /\ UNCHANGED <<table, raw, ended, owner, weak, tries, task, endCalls, dropCalls>>

CancelLock(c) ==
    /\ canceller[c] = "locking"
    /\ Unlocked(weak[c])
    /\ canceller' = [canceller EXCEPT ![c] =
                        IF ended[weak[c]] THEN "refused" ELSE "calling"]
    /\ UNCHANGED <<table, raw, ended, owner, weak, tries, task, endCalls, dropCalls>>

\* RmCancelCurrentTask stops the operation in progress, or it fails.
CancelReturn(c, succeeds) ==
    /\ canceller[c] = "calling"
    /\ canceller' = [canceller EXCEPT ![c] = IF succeeds THEN "releasing" ELSE "refused"]
    /\ task' = [task EXCEPT ![weak[c]] = @ \/ (succeeds /\ owner[weak[c]] = "operating")]
    /\ UNCHANGED <<table, raw, ended, owner, weak, tries, endCalls, dropCalls>>

CancellerRelease(c) ==
    LET s == weak[c]
        last == Destroys(s, Strong(s) \ {c}) IN
    /\ canceller[c] \in {"releasing", "refused"}
    /\ canceller' = [canceller EXCEPT ![c] = IF last THEN "closing" ELSE "idle"]
    /\ RunDrop(s, last)
    /\ UNCHANGED <<table, raw, owner, weak, tries, task, endCalls>>

CancellerClosed(c, succeeds) ==
    /\ canceller[c] = "closing"
    /\ NativeEnd(weak[c], succeeds)
    /\ canceller' = [canceller EXCEPT ![c] = "idle"]
    /\ UNCHANGED <<raw, ended, owner, weak, tries, task, endCalls, dropCalls>>

----------------------------------------------------------------------------
\* Every session is over and no thread can cancel any more.
Terminated ==
    /\ \A s \in Session : owner[s] = "gone"
    /\ \A c \in Thread : canceller[c] = "idle" /\ (weak[c] = None \/ tries[c] = MaxTries)
    /\ UNCHANGED vars

OwnerStep(s) ==
    \/ Start(s) \/ StartRefused(s)
    \/ Operate(s) \/ OperateReturn(s)
    \/ EndCall(s) \/ EndLock(s) \/ OwnerDrop(s) \/ OwnerRelease(s)
    \/ \E ok \in BOOLEAN : EndReturn(s, ok) \/ OwnerClosed(s, ok)

CancellerStep(c) ==
    \/ Upgrade(c) \/ CancelLock(c) \/ CancellerRelease(c)
    \/ \E ok \in BOOLEAN : CancelReturn(c, ok) \/ CancellerClosed(c, ok)

Next ==
    \/ \E s \in Session : OwnerStep(s)
    \/ \E s \in Session, c \in Thread : GiveHandle(s, c)
    \/ \E c \in Thread : CancellerStep(c)
    \/ Terminated

Spec == Init /\ [][Next]_vars

(***************************************************************************)
(* A call once begun proceeds: it gets the mutex when it is free, its      *)
(* short native calls return and its scopes unwind.  A native operation is *)
(* only known to return once it is asked to stop, nothing obliges a thread *)
(* to begin a call, and an owner need not let go of its session.           *)
(***************************************************************************)
OwnerProgress(s) ==
    \/ EndLock(s) \/ OwnerRelease(s)
    \/ \E ok \in BOOLEAN : EndReturn(s, ok) \/ OwnerClosed(s, ok)
    \/ task[s] /\ OperateReturn(s)

CancellerProgress(c) ==
    \/ CancelLock(c) \/ CancellerRelease(c)
    \/ \E ok \in BOOLEAN : CancelReturn(c, ok) \/ CancellerClosed(c, ok)

FairSpec ==
    /\ Spec
    /\ \A s \in Session : WF_vars(OwnerProgress(s))
    /\ \A c \in Thread : WF_vars(CancellerProgress(c))

----------------------------------------------------------------------------
(***************************************************************************)
(* Safety.                                                                 *)
(***************************************************************************)

\* No native call of sys.rs is ever made, or still running, on a raw value that
\* Windows has released: no use after RmEndSession, and so no call on another
\* installer's session that was given the same raw value (sys.rs:345, :357).
NativeCallsOwnSession == \A s \in Session : InNative(s) => Open(s)

\* A retained CancellationHandle keeps no entry of the native table: once the
\* owner has let go and no cancel call is running, the entry is free, unless
\* the destructor, the last resort, tried to end the session and Windows refused
\* (session.rs:227 and :456, sys.rs:368).
Disposed(s) == owner[s] = "gone" /\ Cancelling(s, CancellerPC \ {"idle"}) = {}
LeakOnlyIfDropFailed ==
    \A s \in Session : Disposed(s) /\ Open(s) => dropCalls[s] = 1

\* What the documentation of SessionHandle says: RmEndSession is called at most
\* once for a session (sys.rs:101, :376).  It is called twice when end() fails.
EndSessionCalledOnce == \A s \in Session : endCalls[s] + dropCalls[s] <= 1

(***************************************************************************)
(* The inductive invariant: who may still touch a session, and when.       *)
(***************************************************************************)

\* The raw value is good for as long as a reference exists and the flag is down;
\* the flag stays down until end() succeeds.
HeldIsOpen(s) ==
    /\ Strong(s) # {} /\ ~ended[s] => Open(s)
    /\ owner[s] \in {"live", "operating", "locking", "ending"} => ~ended[s]
    /\ owner[s] = "unborn" => raw[s] = None /\ ~ended[s]

\* The mutex separates the two calls made under it.
MutexHeld(s) ==
    Cancelling(s, {"calling"}) # {} => ~ended[s] /\ owner[s] # "ending"

\* The destructor runs on one thread, without any reference left.
Closing(s) ==
    Cancelling(s, {"closing"}) \cup {o \in {s} : owner[o] = "closing"}
DestructorAlone(s) ==
    \A t \in Closing(s) : Closing(s) = {t} /\ Strong(s) = {} /\ Open(s) /\ ended[s]

\* The flag means that Windows confirmed the end, or the destructor ran.
EndedMeans(s) ==
    /\ Strong(s) # {} => dropCalls[s] = 0
    /\ Strong(s) = {} /\ Open(s) => ended[s]
    /\ ended[s] /\ dropCalls[s] = 0 => ~Open(s)
    /\ owner[s] \in {"unborn", "live", "operating", "locking"} => endCalls[s] = 0
    /\ owner[s] = "unborn" => dropCalls[s] = 0

\* A thread works on the session of its handle, which was made from a live one.
HandlesKnown ==
    \A c \in Thread :
        /\ canceller[c] # "idle" => weak[c] \in Session
        /\ weak[c] \in Session => owner[weak[c]] # "unborn"

\* The whole of it, over every session: no native call without an open session,
\* no double destructor, no flag that lies (sys.rs:340-380).
OwnershipInvariant ==
    /\ HandlesKnown
    /\ \A s \in Session :
        HeldIsOpen(s) /\ MutexHeld(s) /\ DestructorAlone(s) /\ EndedMeans(s)

----------------------------------------------------------------------------
(***************************************************************************)
(* Liveness.                                                               *)
(***************************************************************************)

\* Cancellation gets through while the owner is blocked in a native operation,
\* which nothing else need ever stop: the operation returns or the caller is
\* told that cancellation failed (sys.rs:340, session.rs:622).
CancelStopsOperation ==
    \A s \in Session, c \in Thread :
        owner[s] = "operating" /\ weak[c] = s /\ canceller[c] = "locking"
            ~> owner[s] # "operating" \/ canceller[c] = "refused"

\* Once the owner is letting go of the session, by end() or by dropping it, the
\* session is disposed of whatever the cancelling threads do.
SessionDisposed ==
    \A s \in Session : owner[s] \in {"locking", "releasing"} ~> Disposed(s)
=============================================================================
