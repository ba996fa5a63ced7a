---------------------------- MODULE SessionCalls ----------------------------
(***************************************************************************)
(* The calls a program makes on one session, and what they hand to Windows *)
(* and back: registering batches of resources, looking processes up,       *)
(* reading the report, and configuring filters (src/src/session.rs,        *)
(* resource.rs, filter.rs, input.rs and sys.rs).                           *)
(*                                                                         *)
(* A call reads the working directory, the file system and the process     *)
(* table of a system that changes while it runs: register_resources        *)
(* resolves and checks the files of a batch one by one.                    *)
(***************************************************************************)
EXTENDS Conversions, FiniteSets, Functions, SequencesExt

CONSTANTS
    Platform,       \* the builds: "windows", "other"
    CreationTime,   \* FILETIME values of the processes started, in this order
    Pid,            \* the PID they are given one after the other
    Code,           \* Win32 codes and HRESULTs
    MaxFilters,     \* filters configured at once (a bound of the model)
    MaxItems        \* resources in a batch, and the filters configured beside it (a bound)

ASSUME CallsAssumption ==
    /\ Platform \subseteq {"windows", "other"}
    /\ CreationTime \in Seq(FileTime)
    /\ Names(Pid) /\ Pid \in U32
    /\ LET Supplied == Code \cup {"MORE_DATA"} IN
       None \notin Supplied \cup [kind : ErrorKind, os : Supplied \cup {None},
                                 hresult : Supplied \cup {None}]
    /\ MaxFilters \in Nat /\ MaxItems \in Nat /\ MaxItems >= MaxFilters

VARIABLES
    platform,   \* the build
    cwd,        \* the working directory of the process
    dirs,       \* the absolute paths that are directories
    born,       \* processes started so far; the last one holds Pid
    session,    \* "none", or the role of the open session
    process,    \* the ProcessIdentity the program holds, or None
    source,     \* history: the native process it was made from
    filters,    \* the filters of the session in Windows: native target to action
    wanted,     \* history: what the program set and did not remove, in its own terms
    call        \* the call in progress, or what the last one returned

vars == <<platform, cwd, dirs, born, session, process, source, filters, wanted, call>>

systemVars == <<platform, cwd, dirs, born>>
heldVars == <<process, source>>
filterVars == <<filters, wanted>>

\* A ResourceBatch; the calls for files, processes or services alone build one too.
Batch(files, processes, services) ==
    [files |-> files, processes |-> processes, services |-> services]
EmptyBatch == Batch(<<>>, <<>>, <<>>)

\* The causes an operation may fail for once its arguments passed: a code from Windows,
\* what sys.rs finds wrong with the rest and session.rs with the progress reported, and
\* in a build for another system only that.
OwnCauses(op) ==
    CASE op \in {"Report", "Filters"} ->
             {DataChanged} \cup
             {Cause(type) : type \in {"CountOverflow", "AllocationFailure", "MalformedOutput"}}
      [] op \in {"Shutdown", "Restart"} -> {Cause("CallbackInUse"), Cause("MalformedProgress")}
      [] op = "Start" -> {Cause("MalformedOutput")}
      [] op = "Cancel" -> {Cause("SessionEnded")}
      [] OTHER -> {}
WindowsCauses(op) ==
    IF op = "ApplicationRestart" THEN [type : {"HResult"}, code : Code]
    ELSE [type : {"Os"}, code : Code]
Unsupported == {Cause("UnsupportedPlatform")}
Causes(op) ==
    IF platform = "other" THEN Unsupported ELSE OwnCauses(op) \cup WindowsCauses(op)

\* What a call returned: an error and its cause, if any, and a value.
Returned(op, error, cause, value) ==
    [at |-> "returned", op |-> op, error |-> error, cause |-> cause, value |-> value]
Succeeds(op, value) == call' = Returned(op, None, None, value)
Fails(op, cause, value) == call' = Returned(op, MapError(op, cause), cause, value)
Rejects(op, kind) == call' = Returned(op, Rejection(kind), None, None)

\* absolute_user_path: std::path::absolute failed, with the code of the system.
Unresolved(op) ==
    \E code \in Code : call' = Returned(op, Error("InvalidInput", code, None), None, None)

Idle == call.at = "none"

TypeOK ==
    /\ platform \in Platform
    /\ cwd \in Dir
    /\ dirs \subseteq Dir \X Name
    /\ born \in 0 .. Len(CreationTime)
    /\ session \in {"none", "primary", "joined"}
    /\ process \in ProcessIdentity \cup {None}
    /\ source \in NativeProcess \cup {None}
    /\ \A k \in DOMAIN filters : filters[k] \in {1, 2}
    /\ \A k \in DOMAIN wanted : wanted[k] \in FilterAction
    /\ call.at \in {"none", "files", "native", "opened", "returned"}

Init ==
    /\ platform \in Platform
    /\ cwd \in Dir
    /\ dirs = {} /\ born = 0
    /\ session = "none"
    /\ process = None /\ source = None
    /\ filters = <<>> /\ wanted = <<>>
    /\ call = [at |-> "none"]

----------------------------------------------------------------------------
(***************************************************************************)
(* The system, which changes while a call runs and between two calls.      *)
(***************************************************************************)
Runs == call.at # "returned"

ChangeDirectory ==
    /\ Runs
    /\ cwd' \in Dir \ {cwd}
    /\ call' = IF call.at = "files" THEN [call EXCEPT !.seen = @ \cup {cwd'}] ELSE call
    /\ UNCHANGED <<platform, dirs, born, session, heldVars, filterVars>>

MakeDirectory ==
    /\ Runs
    /\ \E path \in Dir \X Name :
        dirs' = IF path \in dirs THEN dirs \ {path} ELSE dirs \cup {path}
    /\ UNCHANGED <<platform, cwd, born, session, heldVars, filterVars, call>>

\* The process that held Pid is gone, and the number is given to a new one.
StartProcess ==
    /\ Runs
    /\ born < Len(CreationTime)
    /\ born' = born + 1
    /\ UNCHANGED <<platform, cwd, dirs, session, heldVars, filterVars, call>>

----------------------------------------------------------------------------
(***************************************************************************)
(* Sessions.                                                               *)
(***************************************************************************)
Open(op, role) ==
    /\ Idle /\ session = "none"
    /\ \/ /\ platform = "windows"
          /\ session' = role
          /\ Succeeds(op, None)
       \/ /\ \E cause \in Causes(op) : Fails(op, cause, None)
          /\ UNCHANGED session
    /\ UNCHANGED <<systemVars, heldVars, filterVars>>

End ==
    /\ Idle /\ session # "none"
    /\ \/ Succeeds("End", None)
       \/ \E cause \in Causes("End") : Fails("End", cause, None)
    /\ session' = "none"
    /\ filters' = <<>> /\ wanted' = <<>>
    /\ UNCHANGED <<systemVars, heldVars>>

\* The operations that matter here for how they fail.
OtherFails ==
    /\ Idle
    /\ \/ \E op \in {"Shutdown", "Restart", "Report", "Cancel"} : \E cause \in Causes(op) :
            session = "primary" /\ Fails(op, cause, None)
       \/ \E cause \in Causes("ApplicationRestart") : Fails("ApplicationRestart", cause, None)
    /\ UNCHANGED <<systemVars, session, heldVars, filterVars>>

----------------------------------------------------------------------------
(***************************************************************************)
(* Process identities.                                                     *)
(***************************************************************************)
Hold(identity, native) == process' = identity /\ source' = native

\* The native record of the i-th process that was given Pid.
NativeOf(i) == [pid |-> Pid, start |-> CreationTime[i]]

\* ProcessIdentity::from_raw_parts, with numbers the program got elsewhere.
FromRawParts(native) ==
    /\ Idle
    /\ IF Names(native.pid)
       THEN /\ Hold(FromNative(native), native)
            /\ Succeeds("FromRawParts", None)
       ELSE /\ Rejects("FromRawParts", "InvalidInput")
            /\ UNCHANGED heldVars
    /\ UNCHANGED <<systemVars, session, filterVars>>

\* ProcessIdentity::from_pid: the handle pins the process found at OpenProcess, which
\* the history records, ...
LookUp(pid) ==
    /\ Idle
    /\ IF ~Names(pid) THEN Rejects("LookUp", "InvalidInput")
       ELSE \/ pid = Pid /\ platform = "windows" /\ born > 0
                 /\ call' = [at |-> "opened", handle |-> born, found |-> NativeOf(born)]
            \/ \E cause \in Causes("LookUp") : Fails("LookUp", cause, None)
    /\ UNCHANGED <<systemVars, session, heldVars, filterVars>>

\* (A variant that asks for whoever has the number by then.)
LookUpReturnByNumber ==
    /\ call.at = "opened"
    /\ Hold(FromNative(NativeOf(born)), call.found) /\ Succeeds("LookUp", None)
    /\ UNCHANGED <<systemVars, session, filterVars>>

\* ... and whose times GetProcessTimes reads through it.
LookUpReturn ==
    /\ call.at = "opened"
    /\ \/ Hold(FromNative(NativeOf(call.handle)), call.found) /\ Succeeds("LookUp", None)
       \/ \E cause \in Causes("LookUp") : Fails("LookUp", cause, None) /\ UNCHANGED heldVars
    /\ UNCHANGED <<systemVars, session, filterVars>>

\* affected_applications: the program takes the identity of a row that has one.
Report(native) ==
    /\ Idle /\ session = "primary"
    /\ Succeeds("Report", None)
    /\ IF RowProcess(native) = None THEN UNCHANGED heldVars
       ELSE Hold(RowProcess(native), native)
    /\ UNCHANGED <<systemVars, session, filterVars>>

----------------------------------------------------------------------------
(***************************************************************************)
(* register_resources.                                                     *)
(***************************************************************************)
\* The value of one that succeeds: its batch, and what Windows was given for it.
Whole(batch, seen, given) == [batch |-> batch, seen |-> seen, given |-> given]

Register(batch) ==
    /\ Idle /\ session # "none"
    /\ IF batch = EmptyBatch
       THEN Succeeds("Register", Whole(batch, {cwd}, <<>>))
       ELSE call' = [at |-> "files", batch |-> batch, seen |-> {cwd}, resolved |-> <<>>]
    /\ UNCHANGED <<systemVars, session, heldVars, filterVars>>

\* validate_and_absolute_file, for the next file of the batch.
ResolveFile ==
    /\ call.at = "files" /\ Len(call.resolved) < Len(call.batch.files)
    /\ LET path == call.batch.files[Len(call.resolved) + 1]
           full == Absolute(path, cwd) IN
       IF path = Bad THEN Rejects("Register", "InvalidInput")
       ELSE \/ Unresolved("Register")
            \/ full \in dirs /\ Rejects("Register", "DirectoryNotSupported")
            \/ full \notin dirs /\ call' = [call EXCEPT !.resolved = Append(@, full)]
    /\ UNCHANGED <<systemVars, session, heldVars, filterVars>>

\* (A variant passes over the services it cannot use.)
CheckTheRestLeniently ==
    /\ call.at = "files" /\ Len(call.resolved) = Len(call.batch.files)
    /\ call' = [at |-> "native", batch |-> call.batch, seen |-> call.seen,
                resolved |-> call.resolved,
                services |-> SelectSeq(call.batch.services, LAMBDA s : s # Bad)]
    /\ UNCHANGED <<systemVars, session, heldVars, filterVars>>

\* The services are validated, and then the three counts.
CheckTheRest ==
    /\ call.at = "files" /\ Len(call.resolved) = Len(call.batch.files)
    /\ LET batch == call.batch IN
       IF \E i \in DOMAIN batch.services : batch.services[i] = Bad
       THEN Rejects("Register", "InvalidInput")
       ELSE IF ~(Countable(batch.files) /\ Countable(batch.processes) /\ Countable(batch.services))
       THEN Fails("Register", Cause("CountOverflow"), None)
       ELSE call' = [at |-> "native", batch |-> batch, seen |-> call.seen,
                     resolved |-> call.resolved, services |-> batch.services]
    /\ UNCHANGED <<systemVars, session, heldVars, filterVars>>

\* RmRegisterResources takes the whole of what it is given, or fails; it takes no
\* directory, whatever was found before.
RegisterReturn ==
    /\ call.at = "native"
    /\ \/ /\ \A i \in DOMAIN call.resolved : call.resolved[i] \notin dirs
          /\ Succeeds("Register", Whole(call.batch, call.seen, <<
                [files |-> call.resolved,
                 processes |-> [i \in DOMAIN call.batch.processes |-> ToNative(call.batch.processes[i])],
                 services |-> call.services]>>))
       \/ \E cause \in Causes("Register") : Fails("Register", cause, None)
    /\ UNCHANGED <<systemVars, session, heldVars, filterVars>>

----------------------------------------------------------------------------
(***************************************************************************)
(* Filters.                                                                *)
(***************************************************************************)

\* FilterTarget::executable, ::process and ::service; an executable is resolved here,
\* once.  (The variant leaves out the validation of strings.)
Target ==
    {Executable(Absolute(path, cwd)) : path \in UserPath \ {Bad}}
    \cup {Process(p) : p \in {process} \ {None}}
    \cup {Service(name) : name \in ServiceName \ {Bad}}

With(f, x, y) == [z \in {x} \cup DOMAIN f |-> IF z = x THEN y ELSE f[z]]

BadTarget ==
    /\ Idle
    /\ Rejects("FilterTarget", "InvalidInput") \/ Unresolved("FilterTarget")
    /\ UNCHANGED <<systemVars, session, heldVars, filterVars>>

SetFilter(target, action) ==
    /\ Idle /\ session = "primary"
    /\ \/ /\ Cardinality(DOMAIN filters \cup {RawTarget(target)}) <= MaxFilters
          /\ filters' = With(filters, RawTarget(target), RawAction(action))
          /\ wanted' = With(wanted, target, action)
          /\ Succeeds("SetFilter", None)
       \/ /\ \E cause \in Causes("SetFilter") : Fails("SetFilter", cause, None)
          /\ UNCHANGED filterVars
    /\ UNCHANGED <<systemVars, session, heldVars>>

\* The target may be one made earlier, in another directory.  (The value is whether
\* the program believes that the filter is there.)
RemoveFilter(target) ==
    LET native == RawTarget(target) IN
    /\ Idle /\ session = "primary"
    /\ \/ /\ native \in DOMAIN filters
          /\ filters' = Restrict(filters, DOMAIN filters \ {native})
          /\ wanted' = Restrict(wanted, DOMAIN wanted \ {target})
          /\ Succeeds("RemoveFilter", TRUE)
       \/ /\ \E cause \in Causes("RemoveFilter") :
                /\ cause = Os("FILE_NOT_FOUND") => native \notin DOMAIN filters
                /\ Fails("RemoveFilter", cause, target \in DOMAIN wanted)
          /\ UNCHANGED filterVars
    /\ UNCHANGED <<systemVars, session, heldVars>>

\* What Windows lists, and what it may list that no filter can look like.
Listed == {[target |-> k, action |-> filters[k]] : k \in DOMAIN filters}
Odd ==
    {[target |-> Executable(path), action |-> 1] : path \in Name \cup {Bad}}
    \cup {[target |-> Process(p), action |-> 1] : p \in [pid : {0, Invalid}, start : FileTime]}
    \cup {[target |-> Service(Bad), action |-> 2]}
    \cup {[r EXCEPT !.action = 3] : r \in Listed}

\* The value of filters(): what the program is told, and what Windows listed for it.
Told(answer, listed) == [answer |-> answer, listed |-> listed]

\* (A variant passes over the records it cannot use.)
FiltersLeniently(records) ==
    /\ Idle /\ session = "primary"
    /\ Succeeds("Filters",
            Told({FilterFromRaw(r) : r \in {q \in records : ~Malformed(q)}}, records))
    /\ UNCHANGED <<systemVars, session, heldVars, filterVars>>

\* Every record is converted, or the call fails as a whole.
Filters(records) ==
    /\ Idle /\ session = "primary"
    /\ IF \E r \in records : Malformed(r)
       THEN Rejects("Filters", "MalformedOsData")
       ELSE Succeeds("Filters", Told({FilterFromRaw(r) : r \in records}, records))
    /\ UNCHANGED <<systemVars, session, heldVars, filterVars>>

FiltersFail ==
    /\ Idle /\ session = "primary"
    /\ \E cause \in Causes("Filters") : Fails("Filters", cause, None)
    /\ UNCHANGED <<systemVars, session, heldVars, filterVars>>

----------------------------------------------------------------------------
\* The program takes the answer, and goes on.
Take ==
    /\ call.at = "returned"
    /\ call' = [at |-> "none"]
    /\ UNCHANGED <<systemVars, session, heldVars, filterVars>>

System == ChangeDirectory \/ MakeDirectory \/ StartProcess

\* The native processes there have been, and what a report may name.
Ran == {NativeOf(i) : i \in 1 .. born}
Named == Ran \cup {[p EXCEPT !.pid = pid] : p \in Ran, pid \in {0, Invalid}}

Identities ==
    \/ \E native \in Named : FromRawParts(native) \/ Report(native)
    \/ \E pid \in {0, Pid, Invalid} : LookUp(pid)
    \/ LookUpReturn

Room == MaxItems - Cardinality(DOMAIN filters)

Registers ==
    \/ \E files \in BoundedSeq(UserPath, Room) :
        \E processes \in BoundedSeq({process} \ {None}, Room - Len(files)) :
        \E services \in BoundedSeq(ServiceName, Room - Len(files) - Len(processes)) :
            Register(Batch(files, processes, services))
    \/ ResolveFile \/ CheckTheRest \/ RegisterReturn

Configures ==
    \/ BadTarget
    \/ \E target \in Target, action \in FilterAction : SetFilter(target, action)
    \/ \E target \in Target \cup DOMAIN wanted : RemoveFilter(target)
    \/ Filters(Listed) \/ \E odd \in Odd : Filters(Listed \cup {odd})
    \/ FiltersFail

Next ==
    \/ System
    \/ Open("Start", "primary") \/ Open("Join", "joined") \/ End \/ OtherFails
    \/ Identities \/ Registers \/ Configures \/ Take

Spec == Init /\ [][Next]_vars

----------------------------------------------------------------------------
(***************************************************************************)
(* Safety.                                                                 *)
(***************************************************************************)
Done(op) == call.at = "returned" /\ call.op = op

\* A registration that succeeded has given Windows the whole batch in one call and
\* nothing else: every file, in a directory that was current at some time during the
\* call if its path was relative, every process and every service, in order; an
\* empty batch never reaches Windows (session.rs:116, input.rs:38).
SuccessIsWholeBatch ==
    Done("Register") /\ call.error = None =>
        LET batch == call.value.batch
            given == call.value.given[1] IN
        IF batch = EmptyBatch THEN call.value.given = <<>>
        ELSE /\ Len(call.value.given) = 1
             /\ Len(given.files) = Len(batch.files)
             /\ \A i \in DOMAIN batch.files : \E dir \in call.value.seen :
                    given.files[i] = Absolute(batch.files[i], dir)
             /\ Len(given.processes) = Len(batch.processes)
             /\ \A i \in DOMAIN batch.processes :
                    FromNative(given.processes[i]) = batch.processes[i]
             /\ given.services = batch.services

\* An identity stays that of the process it was made from, whoever has the number
\* now: what the program hands back to Windows is the very record it was made from,
\* and never one of Windows's values for "no process" (application.rs:24, :38,
\* session.rs:705, sys.rs:468).
IdentityIsOfItsProcess ==
    process # None => ToNative(process) = source /\ source.pid \notin {0, Invalid}

\* filters() answers exactly what the program set and did not remove, in the terms
\* in which it did, whatever the working directory has been since, and it answers only
\* if that is all that Windows listed, with no record passed over; a filter is found
\* missing only if it was not there (filter.rs:30, session.rs:308, :758).
FiltersRoundTrip ==
    /\ Done("Filters") /\ call.error = None =>
        /\ call.value.answer = {[target |-> t, action |-> wanted[t]] : t \in DOMAIN wanted}
        /\ \A r \in call.value.listed : FilterFromRaw(r) \in call.value.answer /\ ~Malformed(r)
    /\ Done("RemoveFilter") /\ call.error # None /\ call.error.kind = "FilterNotFound" =>
        ~call.value

\* Of the failures of an operation that have a cause in sys.rs, or in the progress of a
\* shutdown or restart, no two look the same to the caller, none loses the code that
\* Windows supplied, and of those of a shutdown or a restart exactly the ones that give
\* the typestate back say that nothing was started.  The crate's checks of arguments and
\* of filter records are not meant: filters() tells a malformed record as it tells
\* malformed output of the parser (session.rs:678, :686, :812).
CausesSurvive ==
    call.at = "returned" /\ call.cause # None =>
        /\ \A other \in Causes(call.op) :
            MapError(call.op, other) = call.error => other = call.cause
        /\ call.cause.code \in {call.error.os, call.error.hresult} \cup {None}
        /\ call.op \in {"Shutdown", "Restart"} =>
            (NotStarted(call.cause) <=>
                call.error.kind \in {"CallbackInUse", "UnsupportedPlatform"})
=============================================================================
