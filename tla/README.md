# A TLA+ verification of `restart-manager`

`restart-manager` is a Rust crate around the Windows Restart Manager: an installer opens
a session, registers files and services, asks who uses them, shuts those applications
down and restarts them. This directory models the parts of the crate whose correctness
depends on order, sharing and failure, checks them with TLC, and proves the central
results with TLAPS for every value of the constants.

## 1. The system

### Components, their state and their operations

| Component | Source | State | Operations | Model |
|---|---|---|---|---|
| Native session ownership | `sys.rs` `SessionHandle`; `session.rs` `SessionCore`, `CancellationHandle` | raw session number, `Mutex<bool>` `ended`, strong and weak `Arc` counts | start, join, native operations, cancel, end, drop | `SessionHandle` |
| Recovery typestates | `session.rs` `RestartSession`, `RestartPending`, `RecoveryCompletion`, `OperationNotStarted` | which typestate holds the session; retained outcomes | shutdown, restart (both with or without progress), `leave_stopped`, `end`, drop | `Recovery`, `RecoveryContract` |
| Progress callback lease | `sys.rs` `CALLBACK_SLOT`, `CallbackState`, `CallbackLease`, trampoline; `session.rs` `deliver_progress` | one slot of the process behind a mutex; per operation a captured panic, the malformed flag and the last value | install, native call, trampoline call, clear | `CallbackLease` |
| Tokio worker | `tokio.rs` `Worker`, `Command`, `WorkerState`, typestates and futures | command channel, worker's typestate, oneshot replies, what the client holds | calls, polls and drops of the client; receive, execute, reply, exit of the worker | `AsyncWorker`; over the native session: `AsyncSession` |
| Async progress stream | `tokio.rs` `ProgressReceiver` | a watch channel: value, version, version seen by each receiver | send, close, recv (two steps), clone | `ProgressWatch` |
| Application restart registration | `application_restart.rs`, two calls of `sys.rs` | atomic flag of the process, the registration Windows keeps, the value held | register, update, unregister, drop | `ApplicationRestart` |
| Affected-applications report | `sys.rs` `affected_applications` | size asked for, attempts left | probe, allocate, read, retry | `ListQuery` |
| Filter list | `sys.rs` `get_filters`, `AlignedBuffer`, `parse_filter_buffer`, `read_buffer_string` | buffer, offset, cursor | probe, fill, record, unit, link | `FilterBuffer` |
| Resource registration, input checks | `resource.rs`, `input.rs`, `session.rs` `register_resources` | the batch; while a call runs, what it has resolved so far | builders; resolve and check one file, check the rest, one native call | `SessionCalls`, `Conversions` |
| Filters | `filter.rs`, `session.rs` | native target to action, kept by Windows | make a target, set, remove, list | `SessionCalls`, `Conversions` |
| Error mapping | `error.rs`, `session.rs` | none | `map_sys_error`, `map_operation_error`, `map_join_error` | `Conversions`, used by `SessionCalls` |
| Process identity | `application.rs`, `sys.rs` | the pair of PID and creation time a program holds | `from_raw_parts`, `from_pid` (open, read), a report's row | `SessionCalls`, `Conversions` |
| Shutdown options, outcomes | `shutdown.rs` | none | option bits, `OperationOutcome`, `Progress` | within the models that use them |
| Unsupported platform | `sys.rs` | none | every call is refused | `SessionCalls` with `platform = "other"` |
| Windows Restart Manager | outside | native sessions, tasks, progress | `Rm*` calls | external, as used by `sys.rs` |
| Repository tooling | `xtask`, workflows, API snapshots | none | an end-to-end test driver | not modelled |

### How they interact

- A typestate owns a `SessionCore`, the one strong `Arc<SessionHandle>`. A
  `CancellationHandle` holds a weak one and upgrades it for the length of a `cancel`. The
  destructor of the handle therefore runs on whichever thread lets go last.
- `shutdown_with_progress` and `restart_with_progress` borrow the one callback slot of
  the process, because the native callback carries no context argument.
- The Tokio facade moves the blocking typestate to a thread of its own. The client's
  typestates are tickets: they name what the worker should be holding. Dropping a future
  does not withdraw its command; dropping a shutdown future also cancels.
- Async progress is `deliver_progress` with a callback that sends into a watch channel.
- The worker thread is the owner of its session. The client reaches the same handle from
  its own thread when a shutdown future is dropped, and may turn out to hold the last
  reference: then the session ends on the client's thread.
- Every call on a session converts its arguments for Windows and the answer back, and
  reads a working directory, a file system and a process table that nobody holds still.
- The application restart registration is independent of all sessions.

### What is hard here

Several threads share one native session and its number, which Windows gives out
again. Every native call can fail and leaves the session as it was. User code runs inside
a native callback and may panic or re-enter. A destructor has to do what an explicit call
would have done, on every path. Futures are dropped at any point, with the command in the
queue, running or answered. Lists change between the call that sizes a buffer and the call
that fills it, and what is in the buffer is not to be trusted. The working directory and the
owner of a process number change while a call that depends on them runs. `PROJECT.json` lists these
hazards at the lines where they bite, with the properties that watch them.

## 2. The modules

Every definition that models code is listed under `map` in `PROJECT.json` with its lines.
The variants in the modules ("A variant ...") are bugs the code does not have; they are
the mutants that show that each property can fail.

**`SessionHandle`.** One owner per session, any number of cancelling threads, a table of
native numbers. Each lock, unlock, native call and release of a reference is a step of
its own, so all interleavings of `end`, drop and `cancel` are there. The strong count and
the mutex are scoped values in Rust and are read off the program counters. All of the
owner's native operations (registering, listing, filters, shutdown, restart) are one
action, since they treat the handle alike: they borrow it and do not take the mutex.
`RmEndSession` frees the table entry of the *raw value*, whoever owns it by then: that is
what makes a use after release visible.

**`Recovery`.** The typestate machine of the primary installer, several sessions at once
over one callback lease. A consuming method is a step from one typestate to the next; a
method that makes a native call has a second step when it returns, and a third way out
when the user's callback panicked. The callback lease may be refused although no operation
holds it: `try_lock` also fails while another thread looks into the slot. Dropping an armed `RestartPending` is `DropPending`,
which makes the recovery restart. `truth` records what the native operations really came
to, `attempts` how many restarts were made.

**`RecoveryContract`.** What a session promises, abstractly: `open`, after a shutdown
attempt `owed`, then `tried` or `waived`, then `ended`. There is no step from `owed` to
`ended`. `Recovery` and `AsyncWorker` both implement it by refinement mappings: the first
from its typestate and attempt count, the second from its log of native calls.

**`CallbackLease`.** Inside the lease: `try_lock`, the pointer stored, the native call, the
blocking `lock` of the destructor, the clearing, the result. Trampoline calls come from
threads of Windows, wait for the mutex, find the slot empty or filled, and run user code
with the mutex held. They may outlive the native call they belong to; the history variable
`late` records that one has, and the properties that need Windows to be punctual say
`~late`. User code may start another operation with progress, which `try_lock` refuses. A
poisoned mutex is used by the code exactly like a healthy one and is no state of the model.

**`AsyncWorker`.** One client, one worker, one channel. `CallMethod` sends at once for the
methods that return a named future and at the first poll for the `async fn`s. Every future
and typestate may be dropped at each step. A reply reaches the client only if the ticket
is that of the future it still holds. The drop of a shutdown future is three steps: it begins, its `cancel()` is answered,
its sender goes. The five commands that borrow a primary session are one
(`PrimaryRegister`). A worker thread that cannot be created is, to the client, a session
that fails to start.

A waker belongs to the client's runtime, runs on the worker thread, and may panic. It is
woken by three kinds of call: the announcement of the session (`WorkerStartPanics`), a
progress value (`ProgressPanics`) and a reply, or the end of the progress channel that goes
with one (`ReplyPanics`). The worker thread unwinds: a `RestartPending` on its stack or in
its state restarts, the session ends, the queue goes with the thread, and what was sent
stays answered. So the client may hold a typestate whose worker is dead, and its next
command fails. Whether a future has registered a waker is not a variable; any future that
waits for the answer may have one. A second panic while the thread unwinds aborts the
process and is not modelled.

**`AsyncSession`** composes the two: it EXTENDS `AsyncWorker`, whose variables and actions
keep their names, and has `SessionHandle` as an instance, `Handle`. The worker is the owner
of session `It`, a primary one, since only that has a shutdown to cancel; the client is a
cancelling thread (`Caller`) of it; other sessions compete for the native numbers, and a
user interface may have a handle of its own. One call of the code that is a step of both
components is a joint step: a command starts a native operation or takes the mutex to end,
the drop of a future upgrades its weak reference, the answer of `RmCancelCurrentTask` is the
`Cancel` of the worker model. Here the two facts that `AsyncWorker` takes for granted are
checked: that the session a command runs on is open, and that a worker that lets go ends it.

**`ProgressWatch`** (`StreamSpec`). `recv` is `changed()` followed by `peek()`, and the
worker may send in between. Tokio's channel is modelled from its use.

**`ApplicationRestart`.** The flag and the native registration change one after the other
on competing threads, and both native calls may fail. `native_flags` is modelled bit by
bit, arguments are opaque except for being too long.

**`ListQuery`.** The list changes between any two native calls. Rows and reboot reasons
are represented by the version of the list they describe, so "one snapshot" is an
equation between versions.

**`FilterBuffer`.** The retry loop, and the parser on addresses: everything read from the
buffer is an arbitrary value. `usize` is bounded by `AddressMax`, which makes every
`checked_add` matter, that of the buffer's size too (`"tooLarge"` is `CountOverflow`). The value read for `cbNextOffset` ranges over all of `usize`, more
than its 32 bits on the platforms Windows runs on.

**`Conversions`** holds the pure functions: FILETIME and identities, counts, paths,
filter targets and actions, `filter_from_raw`, and the error tables, code by code. A path
is a name or a pair of directory and name; empty strings and strings with a NUL are one
value, `Bad`. A word has `Word` values, 2^32 in the code.

**`SessionCalls`** is what a program does with one session between opening and ending it,
and the system it does so in. `register_resources` resolves and checks one file at a time,
then the services, then the counts, and then makes its one native call; the working
directory, the directories on disk and the process table change between any two of these
steps. The Tokio facade executes the same function on its worker, later: it clones the
batch when it sends, and the model's environment may change before the first file is
resolved, so the same steps cover it. `from_pid` opens the process in one step and
reads its times through the handle in another; the number may have a new owner by then, and
`source` is recorded at the first. An answer of `filters()` is kept with what Windows listed
for it, so that a record passed over would show. `std::path::absolute` may fail with a code,
which the error keeps; it is no cause of `CausesSurvive`, which speaks of what `sys.rs` and
`deliver_progress` report. `platform` chooses
the build; on `"other"` every native call answers `UnsupportedPlatform`. `OtherFails`
stands for the operations that matter here only for how they fail. `wanted` and `source`
are history: the filters in the program's own terms, and the native process an identity
was made from.

`MC*` modules instantiate these for TLC; `*Proofs` modules hold the theorems.

### What is assumed of Windows and the libraries

- An `Rm*` or registration call that fails changes nothing. `RmStartSession` gives out
  only free numbers. One answer of `RmGetList` describes one instant.
- `RmRegisterResources` takes all it is given or nothing, and no directory. A session keeps
  its filters until they are removed or it ends, and `ERROR_FILE_NOT_FOUND` is answered to a
  removal only when the filter is not there. A process handle pins its process.
- `RmCancelCurrentTask` stops the operation that is running in the session, or fails.
- Mutexes, `Arc`, `mpsc`, `oneshot` and `watch` channels do what their documentation says;
  atomics are sequentially consistent, which `AcqRel`/`Release` on the one flag amounts to.

## 3. Runs

| Run | Instance | Shows |
|---|---|---|
| `session` | 2 sessions, 2 cancellers with 2 calls each, 1 table entry | no native call on a released number; no entry left behind unless the destructor itself was refused; a cancel that has a reference stops the blocked owner or reports a failure; a session let go of is disposed of |
| `session_end_once` | 1 session | the documented "exactly once" for `RmEndSession` does not hold: section 6 |
| `recovery` | 3 sessions | the typestates implement the recovery contract; outcomes are what happened; the lease is held in native calls only; a second restart needs a panic; recovery is not blocked by another session |
| `callback` | 2 threads, 2 operations and 3 reports in all, 2 trampoline calls that may be late | the pointer in the slot is never followed after its frame is gone; while no call was late, progress reaches its own operation and success means delivered in full and strictly increasing; operations end |
| `worker` | both roles, 7 commands | commands never meet another typestate; a typestate held is that of the worker, unless a waker's panic killed it; the recovery contract; dropping a shutdown future cannot cancel the recovery of that shutdown; no future waits for an answer that nobody will give; abandoned sessions end; futures resolve |
| `async_session` | the worker's session, a blocking one and a user interface over 1 table entry, 4 commands | commands and recovery run on an open session; a worker that is gone has left none behind; dropping a future returns even if Windows does not; what was abandoned is recovered and ended, also when the cancellation came before the command |
| `progress_stream` | 2 receivers, values 0 to 3 | progress does not go back, the last value is not lost, the stream ends |
| `progress_newer` | 2 receivers, values 0 to 2 | the documented "newer value" does not hold: section 6 |
| `registration` | 3 threads, 3 sets of options | a held registration is the one Windows has; nothing is left behind; the lease comes back |
| `list_query` | 8 attempts, 9 changes, up to 9 rows | a report is one snapshot; `DataChanged` is only said of a list that changed before every attempt |
| `filter_buffer` | records of 4 bytes, buffers up to 15, 18 addresses | every read is inside the buffer, lists are bounded, the query ends |
| `session_calls` | 2 directories, 1 name, 1 PID with 2 owners, batches of up to 3, 2 filters, every code with a meaning and one without | a successful registration is the whole batch; identities stay those of their process; filters round-trip and none listed is passed over; errors tell their cause |

Type invariants and inductive invariants that a theorem establishes are, with the
exception of the stream's, not repeated in the runs.

### Bounds, and why they are enough

- *One table entry for two sessions* forces the second session to take the number the
  first one gave back, which is the dangerous case; with more entries it only gets rarer.
  Two cancel calls per thread let a thread cancel before and after the end.
- *Three sessions* compete for one lease: a holder and two that are refused. The state of
  a session is finite, so there is no other bound.
- *Callback*: two trampoline calls meet on the mutex, and one late call meets the next
  operation. `MaxOps` and `MaxReports` are totals of the process, so one thread can run
  both operations or each thread one. Two good values and a bad one let reports increase,
  repeat, go back and be malformed.
- *Seven commands* are enough for a refused shutdown, a shutdown, a refused restart, a
  restart and an end, with two to spare for borrowing commands or dropped futures. The
  composition has four: a refused shutdown, a shutdown, a restart and an end, or a dropped
  future in place of any of them.
- *Session calls*: words of three values are 0, one PID and the sentinel, and make three
  resources too many to count, so `CountOverflow` is reached. `MaxItems` bounds a batch
  together with the filters configured beside it; the two do not touch each other in the
  code. Two directories and one name are enough for a relative path that means two files;
  one PID whose second owner differs in the high word of the creation time is the reuse
  that a PID alone would miss. Directories are symmetric: the run checks invariants only.
- *Lists*: `MAX_LIST_ATTEMPTS` has its real value 8, and nine changes exceed it by one.
- *Filter buffer*: three records and three odd bytes, the last sizes too large to be rounded up
  in the address space; addresses before, in, behind the buffer
  and near the end of the address space; two attempts show the retry and its end.

### Fairness

Liveness is checked under weak fairness of what the code or its contract guarantees to
go on, and nothing else.

- `SessionHandle`: a call in progress goes on. A native *operation* of the owner need not
  return at all, except once it was asked to stop; no thread is obliged to start a call.
- `Recovery`: native calls return and unwinding continues; a caller may do anything with
  a pending value except keep it for ever (restart, leave stopped, drop or unwind).
- `CallbackLease`: Windows returns from an operation, user code from a callback, and the
  thread next in line gets the mutex.
- `AsyncWorker`: the worker thread runs, which includes that native operations return,
  and a drop once begun goes on. The client may hold what it has for ever.
- `AsyncSession`: as `AsyncWorker`, but a native operation need not return unless it was
  asked to stop; `AbandonedSessionRecovered` states as a premise that Windows returns from
  the others.
- `ProgressWatch`: receivers are drained. Nothing is asked of the sender.
- `ApplicationRestart`: calls in progress return. `FilterBuffer`: the querying thread goes on.

## 4. Theorems

All proofs are for arbitrary constants under the named assumptions of the modules (the
distinctness of "none" values, natural bounds).

- **`SessionHandleProofs`**: `OwnershipInvariant`, and from it type correctness,
  `NativeCallsOwnSession` and `LeakOnlyIfDropFailed`, for any numbers of sessions,
  cancellers and entries. The properties alone are not inductive: whether a number is
  still good depends on who holds a reference and whether the flag is up. The invariant
  says, for each session: a referenced session whose flag is down is open (`HeldIsOpen`);
  a cancel under the mutex excludes an end under the mutex (`MutexHeld`); the destructor
  runs on one thread and without references (`DestructorAlone`); the flag means a
  confirmed end or a destructor that ran (`EndedMeans`).
- **`RecoveryProofs`**: `RecoveryImplementsContract`, the refinement, for any number of
  sessions; and `OutcomesHonest`, `LeaseScoped`, `OneRestart`, type correctness. The
  strengthening (`AttemptsFollow`, `PanicFollows`) ties the number of restarts and the
  panic flag to the typestate; the refinement mapping needs it because the contract's
  phase is computed from both.
- **`ApplicationRestartProofs`**: `LeaseExclusive`, `HeldIsRegistered`,
  `NothingLeftBehind`. The invariant adds, for each program counter, what Windows has
  there (`NativeFollows`); that the flag word gives back exactly the set of reasons is a
  lemma over its 16 values.
- **`ListQueryProofs`**: `ReportIsSnapshot` and `DataChangedHonest` for every retry budget.
  `GrowthInvariant` counts a version of the list for every turn of the loop: a buffer of
  the size just asked for is too small only if the list has changed since.
- **`FilterBufferProofs`**: `ReadsInside` and `ListBounded` for every record size, word
  size, address space and budget. `ParserInvariant` adds where the parser stands and that
  the records pushed so far take no more room than the offset.

- **`CallbackLeaseProofs`**: type correctness, `PointerValid`, `DeliveredToOwner` and
  `SuccessIsFaithful`, for any numbers of threads, operations and reports and any finite
  set of trampoline calls. `PointerValid` is not inductive: it needs who holds the mutex.
  The invariant reads that off the program counters (`MutexHeld`), as it does whose pointer
  the slot holds (`SlotOwned`), and says that user code runs on the state in the slot
  (`RunsOnSlot`) and, unless a call was late, for the operation that is in Windows
  (`CallsCurrent`). `NothingLost` is for the last property: what was reported to an
  operation is what was delivered and what the waiting calls still carry.
- **`AsyncProofs`**, the Tokio facade, in three parts.

  *The worker and its client*: type correctness, `NeverOutOfSequence`, `WorkerAgrees` and
  `DropNeverCancelsRestart`, for any number of commands and both roles. None of them is
  inductive: that a command meets the typestate it is for depends on what is queued before
  it and on what the client still holds. The invariant says that when the client may
  consume a typestate, the worker has exactly that, and what is queued or running only
  borrows (`ClientMet`), or else the worker was killed by a waker's panic, which the log has
  (`Killed`); that an answer naming a typestate finds the worker resting in it
  (`AnswerIsState`); that every queued command wants that typestate and only the last may
  consume it (`QueueFits`), and what the running one leaves there (`JobFits`);
  that while a shutdown future can still cancel no restart is queued or running
  (`ShutdownWaits`); and what the log of native calls says at each point of the
  worker (`LogFollows`).

  From it, `WorkerImplementsContract`: every step is one of `RecoveryContract` or leaves its
  phase alone (`ContractMoves`). `NoFutureForgotten`, with the one conjunct it needs to be
  inductive (`Awaited`), says that a future which waits has its command in the queue or in
  execution, and is what the liveness property `FuturesResolve` rests on. `WorkerEndsWell`
  is likewise the safety half of `SessionEnds`: a worker that has gone had ended the
  session, and a session ended after a shutdown had its recovery tried or waived.

  *The worker over the native session*: every step of `AsyncSession` is a step of the worker
  or leaves it alone, and at the same time a step of `SessionHandle` or leaves that alone
  (`BothStep`). So it implements both (`SessionImplementsWorker`, `SessionImplementsHandle`),
  keeps the contract (`SessionKeepsContract`), and its native calls are on numbers it owns
  (`AsyncNativeCallsSafe`); the inductive steps are those of the two components, the native
  one taken from `SessionHandleProofs` by `INSTANCE`. What neither component knows is the
  coupling: what the worker thread may be doing with its handle while the session starts,
  between two commands, during one, and in the recovery of an unwinding thread (`Starts`,
  `Rests`, `Executes`, `Undoes`). `CommandsRunOnOpenSession` and `WorkerLeavesNothingBehind`
  need all three: by the coupling a command runs while the thread refers to the session, and
  by the handle's invariant a referenced session whose flag is down is open.

  *The progress stream*: `StreamTypeOK`, `NeverGoesBack` and `LastValueReceived`, for any
  receivers and any number of values. The invariant says that there are no more versions
  than values (`VersionsCounted`), that no receiver has seen or read what was not sent
  (`NobodyAhead`, `ReadsBounded`), and that a version marked as seen was read, with the
  current value if it is the current one (`SeenIsRead`).
- **`SessionCallsProofs`**: `SuccessIsWholeBatch`, `IdentityIsOfItsProcess`,
  `FiltersRoundTrip` and `CausesSurvive`, for every word width, batches and filters of every
  number, any directories and any set of codes. First the conversions: splitting a number
  of two words and putting it together are inverse (`TimeOfFileTime`, `FileTimeOfTime`), so
  native targets are injective (`RawTargetUnique`), and an error shows its cause
  (`ErrorShows`, `ErrorsApart`). Then `CallsInvariant`: what is resolved so far is the
  beginning of the batch in directories seen (`BatchKept`); the filters of Windows are the
  wanted ones, converted (`FiltersKept`); a returned error is the image of its cause
  (`CausesKept`). The four properties speak only of calls that have returned; the invariant
  is what they rest on while a call runs. Assumed: strings of the three kinds are distinct
  values, and `None` is neither a code nor an error.

*Only model-checked*: liveness, which is out of the prover's reach. That is `SessionDisposed`,
`CancelStopsOperation`, `RecoveryHappens`, `OperationsEnd`, `SessionEnds`, `FuturesResolve`,
`DropReturns`, `AbandonedSessionRecovered`, `StreamEnds`, `LeaseComesBack` and `QueryEnds`.
Every invariant of a passing run and both refinements of `RecoveryContract` are theorems.

## 5. Not modelled

- The text columns of a report, the status bits, the application type and the restart
  reasons of a row, and the two bits of `ShutdownOptions`: translated value by value, used
  by no other step. Message texts of errors.
- `xtask`: the end-to-end test starts a fixture process and drives one session over it in
  a straight line; it is not part of the library.
- The process being killed: the crate persists nothing and runs no code then.
- Files of one batch that were resolved in different directories, because the directory
  changed during the call: `SessionCalls` contains it, and `SuccessIsWholeBatch` allows it.
- A cancellation that hits the restart made while a panicking worker unwinds: the model
  contains the case (`struck` holds `"unwinding"`), and `DropNeverCancelsRestart` leaves it
  out, because cancellation is documented as best effort.
- The late delivery of one operation's progress to the next operation's callback is
  possible: `CallbackLease` contains it and no property forbids it, since the code cannot
  tell such a call apart. `DeliveredToOwner` speaks of runs without late calls. Memory
  safety (`PointerValid`) does not need that assumption.

## 6. Disagreements between documentation and code

- `sys.rs:101` and `sys.rs:376` say that `RmEndSession` is called exactly once. When an
  explicit `end()` fails, the destructor calls it again, as `session.rs:477` describes.
  `session_end_once` finds it. `NativeCallsOwnSession` shows that the second call is safe.
- `tokio.rs:540` says that `recv` returns a newer value. It marks the version seen by
  `changed()` and then reads the current value without marking it, so a value sent in
  between is returned twice. `progress_newer` finds it. Values still never go back and the
  last one is not lost.

## 7. Plan

Done, in this order: session ownership, recovery and its contract, the callback lease,
the worker, the progress stream, the registration, the two list queries; the worker
composed with the native session, the conversions and the calls on a session; the proofs of
every invariant of these, of both refinements, and of the composition.

Next:

1. The safety halves of the remaining liveness properties: a quantity that every turn of a
   retry loop decreases (`ListQuery`, `FilterBuffer`), and "whoever waits is waited for" in
   `SessionHandle` and `CallbackLease`, as `NoFutureForgotten` is for the worker.
2. A composition of the worker with several sessions over one callback lease, where a
   refusal is caused by another session and not chosen.
