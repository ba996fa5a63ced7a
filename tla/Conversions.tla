---------------------------- MODULE Conversions ----------------------------
(***************************************************************************)
(* How values cross between the safe API and Windows: process identities   *)
(* and FILETIME values, counts, paths, filters, affected applications and  *)
(* errors (src/src/session.rs, sys.rs, input.rs, filter.rs, application.rs *)
(* and error.rs).  Every operator is a pure function.                      *)
(*                                                                         *)
(* An absolute path is a pair of a directory and a name, a relative one a  *)
(* name; the strings that are empty or hold a NUL are one value, Bad.      *)
(***************************************************************************)
EXTENDS Integers, Sequences

CONSTANTS
    Word,   \* 2^32, how many values a u32 has
    Dir,    \* working directories
    Name,   \* names of files and services
    Bad,    \* a string that is empty or holds a NUL
    None    \* absent

ASSUME ConversionAssumption ==
    /\ Word \in Nat /\ Word > 2
    /\ Bad \notin Name \cup (Dir \X Name)
    /\ Name \cap (Dir \X Name) = {}

----------------------------------------------------------------------------
(***************************************************************************)
(* Numbers.                                                                *)
(***************************************************************************)

U32 == 0 .. Word - 1
U64 == 0 .. Word * Word - 1
Invalid == Word - 1

FromFileTime(t) == t.high * Word + t.low

\* (A variant truncates, as a cast to u32 would.)
ToLowWord(n) == [low |-> n % Word, high |-> 0]
ToFileTime(n) == [low |-> n % Word, high |-> n \div Word]

FileTime == [low : U32, high : U32]
NativeProcess == [pid : U32, start : FileTime]

FromNative(p) == [pid |-> p.pid, start |-> FromFileTime(p.start)]
ToNative(p) == [pid |-> p.pid, start |-> ToFileTime(p.start)]

\* Does the number name a process?  (A variant forgets the native sentinel.)
NotZero(pid) == pid # 0
Names(pid) == pid # 0 /\ pid # Invalid

\* What a caller may build, and what the crate builds unchecked from a native value.
ProcessIdentity == [pid : {pid \in U32 : Names(pid)}, start : U64]

Countable(values) == Len(values) < Word

----------------------------------------------------------------------------
(***************************************************************************)
(* Strings and paths.                                                      *)
(***************************************************************************)

UserPath == Name \cup (Dir \X Name) \cup {Bad}
ServiceName == Name \cup {Bad}
IsAbsolute(path) == path \in Dir \X Name
Absolute(path, dir) == IF IsAbsolute(path) THEN path ELSE <<dir, path>>

----------------------------------------------------------------------------
(***************************************************************************)
(* Affected applications: a process column that names no process is None.  *)
(***************************************************************************)
RowProcess(p) == IF Names(p.pid) THEN FromNative(p) ELSE None

----------------------------------------------------------------------------
(***************************************************************************)
(* Filters.  A target is a path, a process or a service, tagged.           *)
(***************************************************************************)
Executable(path) == [kind |-> "executable", path |-> path]
Process(p) == [kind |-> "process", process |-> p]
Service(name) == [kind |-> "service", name |-> name]

\* raw_filter_target and the arguments of RmAddFilter.
RawTarget(target) ==
    IF target.kind = "process" THEN Process(ToNative(target.process)) ELSE target

FilterAction == {"PreventRestart", "PreventShutdown"}
RawAction(action) == IF action = "PreventRestart" THEN 1 ELSE 2

\* filter_from_raw: what a native record may not hold, and what it means.
Malformed(record) ==
    \/ record.target.kind = "executable" /\ ~IsAbsolute(record.target.path)
    \/ record.target.kind = "process" /\ ~Names(record.target.process.pid)
    \/ record.target.kind = "service" /\ record.target.name = Bad
    \/ record.action \notin {1, 2}

FilterFromRaw(record) ==
    [target |-> IF record.target.kind = "process"
                THEN Process(FromNative(record.target.process)) ELSE record.target,
     action |-> IF record.action = 1 THEN "PreventRestart" ELSE "PreventShutdown"]

----------------------------------------------------------------------------
(***************************************************************************)
(* Errors.  A cause is a SysError or the malformed progress of a shutdown  *)
(* or restart, an error what the caller is given: its kind, and the Win32  *)
(* code or HRESULT that Windows supplied.                                  *)
(***************************************************************************)
Os(code) == [type |-> "Os", code |-> code]
Cause(type) == [type |-> type, code |-> None]
DataChanged == [type |-> "DataChanged", code |-> "MORE_DATA"]

\* The causes that bring no code.
Uncoded == {"UnsupportedPlatform", "InvalidInput", "CountOverflow", "AllocationFailure",
            "CallbackInUse", "MalformedOutput", "MalformedProgress", "SessionEnded"}

ErrorKind == {
    "UnsupportedPlatform", "SessionLimit", "InvalidSessionKey", "Cancelled", "AccessDenied",
    "InvalidInput", "DirectoryNotSupported", "TooManyResources", "CallbackInUse", "DataChanged",
    "MalformedOsData", "RebootRequired", "ShutdownIncomplete", "RestartIncomplete",
    "OperationOutOfSequence", "RegistryUnavailable", "FilterNotFound", "OutOfMemory",
    "ApplicationRestartInUse", "AsyncWorkerUnavailable", "SessionEnded", "Os"}
Error(kind, os, hresult) == [kind |-> kind, os |-> os, hresult |-> hresult]
Rejection(kind) == Error(kind, None, None)

\* map_sys_error, by Win32 code, by HRESULT and by the causes without a code; and
\* malformed_progress_error.
OsKind == [
    MAX_SESSIONS_REACHED |-> "SessionLimit",
    CANCELLED            |-> "Cancelled",
    ACCESS_DENIED        |-> "AccessDenied",
    BAD_ARGUMENTS        |-> "InvalidInput",
    INVALID_HANDLE       |-> "SessionEnded",
    OUTOFMEMORY          |-> "OutOfMemory",
    SEM_TIMEOUT          |-> "RegistryUnavailable",
    WRITE_FAULT          |-> "RegistryUnavailable"]
HResultKind == [E_INVALIDARG |-> "InvalidInput", E_OUTOFMEMORY |-> "OutOfMemory"]
UncodedKind == [
    UnsupportedPlatform |-> "UnsupportedPlatform",
    InvalidInput        |-> "InvalidInput",
    CountOverflow       |-> "TooManyResources",
    AllocationFailure   |-> "OutOfMemory",
    CallbackInUse       |-> "CallbackInUse",
    MalformedOutput     |-> "MalformedOsData",
    MalformedProgress   |-> "MalformedOsData",
    SessionEnded        |-> "SessionEnded"]

OrOs(kinds, code) == IF code \in DOMAIN kinds THEN kinds[code] ELSE "Os"

\* (A variant tells the codes of the registry apart no longer.)
MapSysErrorBare(cause) ==
    CASE cause.type = "Os" /\ OrOs(OsKind, cause.code) = "RegistryUnavailable" ->
             Error("RegistryUnavailable", None, None)
      [] cause.type = "Os" -> Error(OrOs(OsKind, cause.code), cause.code, None)
      [] cause.type = "HResult" -> Error(OrOs(HResultKind, cause.code), None, cause.code)
      [] cause.type = "DataChanged" -> Error("DataChanged", cause.code, None)
      [] OTHER -> Error(UncodedKind[cause.type], None, None)

MapSysError(cause) ==
    CASE cause.type = "Os" -> Error(OrOs(OsKind, cause.code), cause.code, None)
      [] cause.type = "HResult" -> Error(OrOs(HResultKind, cause.code), None, cause.code)
      [] cause.type = "DataChanged" -> Error("DataChanged", cause.code, None)
      [] OTHER -> Error(UncodedKind[cause.type], None, None)

\* map_operation_error and map_join_error: codes with a meaning of their own.
OperationKind == [
    Register     |-> [DIRECTORY |-> "DirectoryNotSupported"],
    Report       |-> [DIRECTORY |-> "DirectoryNotSupported"],
    Shutdown     |-> [FAIL_NOACTION_REBOOT |-> "RebootRequired",
                      FAIL_SHUTDOWN |-> "ShutdownIncomplete"],
    Restart      |-> [FAIL_RESTART |-> "RestartIncomplete",
                      REQUEST_OUT_OF_SEQUENCE |-> "OperationOutOfSequence"],
    RemoveFilter |-> [FILE_NOT_FOUND |-> "FilterNotFound"],
    Join         |-> [INVALID_HANDLE |-> "InvalidSessionKey",
                      BAD_ARGUMENTS |-> "InvalidSessionKey",
                      SESSION_CREDENTIAL_CONFLICT |-> "InvalidSessionKey"]]

Special(op, cause) ==
    /\ op \in DOMAIN OperationKind
    /\ cause.type = "Os" /\ cause.code \in DOMAIN OperationKind[op]

MapError(op, cause) ==
    IF Special(op, cause) THEN Error(OperationKind[op][cause.code], cause.code, None)
    ELSE MapSysError(cause)

\* operation_not_started: was the typestate given back?
NotStarted(cause) == cause.type \in {"CallbackInUse", "UnsupportedPlatform"}
=============================================================================
