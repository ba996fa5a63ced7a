----------------------------- MODULE ListQuery -----------------------------
(***************************************************************************)
(* The affected-applications report (src/src/sys.rs,                       *)
(* SessionHandle::affected_applications, and session.rs).                  *)
(*                                                                         *)
(* RmGetList fills a buffer of the caller's or says how many rows there    *)
(* are.  Processes come and go meanwhile, so the code asks for the size,   *)
(* allocates and asks again, at most MAX_LIST_ATTEMPTS times.              *)
(*                                                                         *)
(* Rows and reboot reasons are not spelled out: everything Windows answers *)
(* carries the version of the list it describes.                           *)
(***************************************************************************)
EXTENDS Naturals

CONSTANTS
    MaxAttempts,    \* MAX_LIST_ATTEMPTS (8)
    MaxSize,        \* rows of the list (a bound of the model)
    MaxVersion      \* changes of the list (a bound of the model)

ASSUME QueryAssumption ==
    MaxAttempts \in Nat \ {0} /\ MaxSize \in Nat /\ MaxVersion \in Nat

VARIABLES
    size,       \* rows Windows would report now, ...
    version,    \* ... and the version of that list and its reboot reasons
    at,         \* program counter of the query
    needed,     \* the size Windows asked for, ...
    asked,      \* ... and the version it asked for it in
    reasons,    \* reboot_reasons: the version of the last ones written
    attempt,    \* iterations of the loop begun
    calls,      \* history: calls of RmGetList in this query
    began,      \* history: the version the query began with
    result,     \* what the query returned, ...
    rows,       \* ... of a report, the version of the rows, ...
    rowReasons  \* ... and the version of the reboot reasons beside them

vars == <<size, version, at, needed, asked, reasons, attempt, calls, began, result,
          rows, rowReasons>>

Version == 0 .. MaxVersion
Result == {"pending", "report", "os", "noMemory", "malformed", "dataChanged"}

TypeOK ==
    /\ size \in 0 .. MaxSize /\ version \in Version
    /\ at \in {"idle", "probing", "sizing", "reading"}
    /\ needed \in 0 .. MaxSize /\ asked \in Version
    /\ reasons \in Version
    /\ attempt \in 0 .. MaxAttempts
    /\ calls \in 0 .. MaxAttempts + 1
    /\ began \in Version
    /\ result \in Result
    /\ rows \in Version /\ rowReasons \in Version

Init ==
    /\ size \in 0 .. MaxSize /\ version = 0
    /\ at = "idle"
    /\ needed = 0 /\ asked = 0 /\ reasons = 0
    /\ attempt = 0 /\ calls = 0 /\ began = 0
    /\ result = "pending" /\ rows = 0 /\ rowReasons = 0

Fail(kind) == at' = "idle" /\ result' = kind /\ UNCHANGED <<rows, rowReasons>>
Report(with) == at' = "idle" /\ result' = "report" /\ rows' = version /\ rowReasons' = with

\* Applications start, stop, take or release the registered resources.
Change(n) ==
    /\ version < MaxVersion
    /\ size' = n /\ version' = version + 1
    /\ UNCHANGED <<at, needed, asked, reasons, attempt, calls, began, result, rows, rowReasons>>

\* affected_applications is called on a session.
Call ==
    /\ at = "idle"
    /\ at' = "probing"
    /\ reasons' = 0 /\ attempt' = 0 /\ calls' = 0
    /\ began' = version
    /\ result' = "pending" /\ rows' = 0 /\ rowReasons' = 0
    /\ UNCHANGED <<size, version, needed, asked>>

\* What a call of RmGetList writes besides the rows.
NativeCall ==
    /\ calls' = calls + 1
    /\ needed' = size /\ asked' = version

\* RmGetList with no buffer: an empty list is the answer at once, else its size is.
Probe ==
    /\ at = "probing"
    /\ NativeCall
    /\ reasons' = version
    /\ \/ size = 0 /\ Report(version)
       \/ size > 0 /\ at' = "sizing" /\ UNCHANGED <<result, rows, rowReasons>>
       \/ Fail("os")
    /\ UNCHANGED <<size, version, attempt, began>>

\* The head of the loop: the attempts are used up, or a buffer of the size asked for
\* is allocated, or cannot be.  (A variant never gives up.)
AllocateAlways ==
    /\ at = "sizing"
    /\ at' = "reading"
    /\ UNCHANGED <<size, version, needed, asked, reasons, attempt, calls, began, result,
                   rows, rowReasons>>

Allocate ==
    /\ at = "sizing"
    /\ IF attempt = MaxAttempts
       THEN Fail("dataChanged") /\ UNCHANGED attempt
       ELSE /\ attempt' = attempt + 1
            /\ (at' = "reading" /\ UNCHANGED <<result, rows, rowReasons>>) \/ Fail("noMemory")
    /\ UNCHANGED <<size, version, needed, asked, reasons, calls, began>>

\* RmGetList with the buffer, when the list has outgrown it: the loop goes on with
\* the new size.  Windows may write the reasons or not.  (A variant keeps the old size.)
ReadMoreOldSize ==
    /\ at = "reading" /\ size > needed
    /\ calls' = calls + 1
    /\ reasons' \in {reasons, version}
    /\ at' = "sizing"
    /\ UNCHANGED <<size, version, needed, asked, attempt, began, result, rows, rowReasons>>

ReadMore ==
    /\ at = "reading" /\ size > needed
    /\ NativeCall
    /\ reasons' \in {reasons, version}
    /\ at' = "sizing"
    /\ UNCHANGED <<size, version, attempt, began, result, rows, rowReasons>>

\* RmGetList with a buffer that is large enough: its rows are the report, unless a
\* field is not terminated or the count is larger than the buffer, which refuse the
\* whole of it.  (A variant keeps the reasons of the size probe.)
ReadOldReasons ==
    /\ at = "reading" /\ size <= needed
    /\ NativeCall
    /\ Report(reasons)
    /\ UNCHANGED <<size, version, reasons, attempt, began>>

Read ==
    /\ at = "reading" /\ size <= needed
    /\ NativeCall
    /\ reasons' = version
    /\ Report(version) \/ Fail("malformed")
    /\ UNCHANGED <<size, version, attempt, began>>

ReadFails ==
    /\ at = "reading"
    /\ calls' = calls + 1
    /\ Fail("os")
    /\ UNCHANGED <<size, version, needed, asked, reasons, attempt, began>>

Next ==
    \/ \E n \in 0 .. MaxSize : Change(n)
    \/ Call \/ Probe \/ Allocate \/ ReadMore \/ Read \/ ReadFails

Spec == Init /\ [][Next]_vars

----------------------------------------------------------------------------
\* A report is one snapshot: its rows and its reboot reasons were both current at one
\* instant, and not before the query, although the list changes between the calls
\* that size the buffer and the one that fills it (sys.rs:184).
ReportIsSnapshot ==
    result = "report" => rows = rowReasons /\ rows >= began

\* "The list kept changing through all eight retries" is only said of a list that
\* did: it changed before every one of them (session.rs:929, sys.rs:250).
DataChangedHonest ==
    result = "dataChanged" => version >= began + MaxAttempts

----------------------------------------------------------------------------
\* The inductive invariant: every turn of the loop was preceded by a change, because
\* a buffer of the size just asked for is too small only if the list changed since.
GrowthInvariant ==
    /\ began <= version
    /\ at \in {"sizing", "reading"} =>
        /\ asked <= version
        /\ asked = version => needed = size
    /\ at = "probing" => calls = 0 /\ attempt = 0
    /\ at = "sizing" => asked >= began + attempt /\ calls <= attempt + 1
    /\ at = "reading" => attempt > 0 /\ asked + 1 >= began + attempt /\ calls <= attempt
=============================================================================
