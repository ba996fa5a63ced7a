------------------------- MODULE ApplicationRestart -------------------------
(***************************************************************************)
(* The process-wide application restart registration                       *)
(* (src/src/application_restart.rs, with the two native calls of sys.rs).  *)
(*                                                                         *)
(* Windows keeps at most one registration per process and overwrites it    *)
(* without asking.  The crate makes it exclusive with an atomic flag, but  *)
(* the flag and the native registration change one after the other, on     *)
(* threads that compete, and either native call may fail.                  *)
(***************************************************************************)
EXTENDS Naturals

CONSTANTS
    Thread,     \* threads that register, at most one value at a time each
    Options,    \* ApplicationRestartOptions: [arguments, reasons] records
    TooLong,    \* arguments validate_arguments refuses
    None        \* no registration

Reason == {"crash", "hang", "update", "reboot"}

ASSUME RestartAssumption ==
    /\ \A o \in Options : o.reasons \in SUBSET Reason
    /\ None \notin Options
    /\ \A o \in Options, f \in 0 .. 15 : None # [arguments |-> o.arguments, flags |-> f]

VARIABLES
    owned,      \* REGISTRATION_OWNED
    native,     \* what Windows has: None or [arguments, flags]
    at,         \* program counter of each thread
    held,       \* the options of the ApplicationRestartRegistration of a thread
    next,       \* the options given to a call in progress
    orphaned    \* history: a destructor could not unregister, and nobody did since

vars == <<owned, native, at, held, next, orphaned>>

\* Where a thread has the lease: after its compare_exchange, until its store.
Owning == {"registering", "givingUp", "held", "updating", "unregistering",
           "unregistered", "dropping", "dropped"}

TypeOK ==
    /\ owned \in BOOLEAN
    /\ native = None \/ \E o \in Options : native.arguments = o.arguments /\ native.flags \in 0 .. 15
    /\ at \in [Thread -> Owning \cup {"free"}]
    /\ held \in [Thread -> Options \cup {None}]
    /\ next \in [Thread -> Options \cup {None}]
    /\ orphaned \in BOOLEAN

Init ==
    /\ owned = FALSE
    /\ native = None
    /\ at = [t \in Thread |-> "free"]
    /\ held = [t \in Thread |-> None]
    /\ next = [t \in Thread |-> None]
    /\ orphaned = FALSE

Goto(t, pc) == at' = [at EXCEPT ![t] = pc]
Valid(o) == o.arguments # TooLong

\* ApplicationRestartOptions::native_flags: a bit for every reason that is off.  (A
\* variant counts the bits from one.)
BitFromOne == [crash |-> 2, hang |-> 4, update |-> 8, reboot |-> 16]
Bit == [crash |-> 1, hang |-> 2, update |-> 4, reboot |-> 8]
Flag(o, r) == IF r \in o.reasons THEN 0 ELSE Bit[r]
NativeFlags(o) == Flag(o, "crash") + Flag(o, "hang") + Flag(o, "update") + Flag(o, "reboot")

\* What Windows keeps of a registration.
Registered(o) == [arguments |-> o.arguments, flags |-> NativeFlags(o)]

\* RegisterApplicationRestart and UnregisterApplicationRestart: a call that fails
\* leaves what was registered.
NativeRegister(o, ok) ==
    native' = IF ok THEN Registered(o) ELSE native
NativeUnregister(ok) == native' = IF ok THEN None ELSE native

----------------------------------------------------------------------------
\* register: the arguments are refused, or the lease is, or it is taken.
Register(t, o) ==
    /\ at[t] = "free"
    /\ Valid(o)
    /\ ~owned
    /\ owned' = TRUE
    /\ next' = [next EXCEPT ![t] = o]
    /\ Goto(t, "registering")
    /\ UNCHANGED <<native, held, orphaned>>

RegisterReturn(t, ok) ==
    /\ at[t] = "registering"
    /\ NativeRegister(next[t], ok)
    /\ IF ok
       THEN /\ Goto(t, "held")
            /\ held' = [held EXCEPT ![t] = next[t]]
            /\ orphaned' = FALSE
       ELSE /\ Goto(t, "givingUp")
            /\ UNCHANGED <<held, orphaned>>
    /\ UNCHANGED <<owned, next>>

\* The native registration failed: the flag is stored back.
GiveUp(t) ==
    /\ at[t] = "givingUp"
    /\ owned' = FALSE
    /\ Goto(t, "free")
    /\ UNCHANGED <<native, held, next, orphaned>>

\* update keeps the lease; the options are replaced after the native call.
Update(t, o) ==
    /\ at[t] = "held"
    /\ Valid(o)
    /\ next' = [next EXCEPT ![t] = o]
    /\ Goto(t, "updating")
    /\ UNCHANGED <<owned, native, held, orphaned>>

UpdateReturn(t, ok) ==
    /\ at[t] = "updating"
    /\ NativeRegister(next[t], ok)
    /\ held' = IF ok THEN [held EXCEPT ![t] = next[t]] ELSE held
    /\ Goto(t, "held")
    /\ UNCHANGED <<owned, next, orphaned>>

\* unregister: on failure the value is still armed and its destructor runs.  (A
\* variant disarms whatever Windows answered.)
Unregister(t) ==
    /\ at[t] = "held"
    /\ Goto(t, "unregistering")
    /\ UNCHANGED <<owned, native, held, next, orphaned>>

UnregisterReturnUnchecked(t, ok) ==
    /\ at[t] = "unregistering"
    /\ NativeUnregister(ok)
    /\ Goto(t, "unregistered")
    /\ UNCHANGED <<owned, held, next, orphaned>>

UnregisterReturn(t, ok) ==
    /\ at[t] = "unregistering"
    /\ NativeUnregister(ok)
    /\ Goto(t, IF ok THEN "unregistered" ELSE "dropping")
    /\ UNCHANGED <<owned, held, next, orphaned>>

\* Drop of an armed value: one attempt, then the lease is given back whatever it
\* came to.  (A variant gives the lease back first.)
DropDisarmingFirst(t) ==
    /\ at[t] = "held"
    /\ owned' = FALSE
    /\ Goto(t, "dropping")
    /\ UNCHANGED <<native, held, next, orphaned>>

Drop(t) ==
    /\ at[t] = "held"
    /\ Goto(t, "dropping")
    /\ UNCHANGED <<owned, native, held, next, orphaned>>

\* (A variant gives the lease back only if Windows agreed.)
DropReturnKeepingLease(t, ok) ==
    /\ at[t] = "dropping"
    /\ NativeUnregister(ok)
    /\ orphaned' = ~ok
    /\ Goto(t, IF ok THEN "dropped" ELSE "leaked")
    /\ UNCHANGED <<owned, held, next>>

DropReturn(t, ok) ==
    /\ at[t] = "dropping"
    /\ NativeUnregister(ok)
    /\ orphaned' = ~ok
    /\ Goto(t, "dropped")
    /\ UNCHANGED <<owned, held, next>>

\* disarm: the lease is free.
Disarm(t) ==
    /\ at[t] \in {"unregistered", "dropped"}
    /\ owned' = FALSE
    /\ held' = [held EXCEPT ![t] = None]
    /\ Goto(t, "free")
    /\ UNCHANGED <<native, next, orphaned>>

Step(t) ==
    \/ \E o \in Options : Register(t, o) \/ Update(t, o)
    \/ \E ok \in BOOLEAN :
        RegisterReturn(t, ok) \/ UpdateReturn(t, ok) \/ UnregisterReturn(t, ok) \/ DropReturn(t, ok)
    \/ GiveUp(t) \/ Unregister(t) \/ Drop(t) \/ Disarm(t)

Next == \E t \in Thread : Step(t)

Spec == Init /\ [][Next]_vars

\* Calls in progress return; nobody need make one.
Progress(t) ==
    \/ \E ok \in BOOLEAN :
        RegisterReturn(t, ok) \/ UpdateReturn(t, ok) \/ UnregisterReturn(t, ok) \/ DropReturn(t, ok)
    \/ GiveUp(t) \/ Disarm(t)

FairSpec == Spec /\ \A t \in Thread : WF_vars(Progress(t))

----------------------------------------------------------------------------
(***************************************************************************)
(* Safety.                                                                 *)
(***************************************************************************)

\* One thread at a time is between its compare_exchange and its store, and the flag
\* is up for exactly that long (application_restart.rs:147-207).
LeaseExclusive ==
    /\ \A t, u \in Thread : at[t] \in Owning /\ at[u] \in Owning => t = u
    /\ owned <=> \E t \in Thread : at[t] \in Owning

\* Windows restarts the process for the reason r.
Restarts(r) == (native.flags \div Bit[r]) % 2 = 0

\* While a registration value is held, Windows has its arguments and restarts for
\* exactly its reasons: no other thread's register or late destructor has overwritten
\* or removed it (application_restart.rs:121, :172, :200).
HeldIsRegistered ==
    \A t \in Thread : at[t] = "held" =>
        /\ native # None
        /\ native.arguments = held[t].arguments
        /\ \A r \in Reason : Restarts(r) <=> r \in held[t].reasons

\* When nobody has the lease nothing is registered, unless a destructor was refused
\* by Windows: an unregister that fails is retried before (application_restart.rs:184).
NothingLeftBehind == ~owned /\ ~orphaned => native = None

(***************************************************************************)
(* The inductive invariant: what Windows has, wherever the lease is.       *)
(***************************************************************************)
Clean == native = None \/ orphaned

NativeFollows(t) ==
    /\ at[t] \in {"held", "updating", "unregistering"} =>
        held[t] \in Options /\ native = Registered(held[t])
    /\ at[t] \in {"registering", "updating"} => next[t] \in Options
    /\ at[t] \in {"registering", "givingUp", "unregistered", "dropped"} => Clean

\* The flag, the native registration and the value a thread holds agree at every step
\* of every call (application_restart.rs:147-207).
RegistrationInvariant ==
    /\ LeaseExclusive
    /\ ~owned => Clean
    /\ \A t \in Thread : NativeFollows(t)

----------------------------------------------------------------------------
(***************************************************************************)
(* Liveness.                                                               *)
(***************************************************************************)

\* A lease being given back becomes free, even where Windows refuses to unregister.
LeaseComesBack ==
    \A t \in Thread : at[t] \in {"unregistering", "dropping", "givingUp"} ~> at[t] \in {"free", "held"}
=============================================================================
