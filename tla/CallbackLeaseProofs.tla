------------------------ MODULE CallbackLeaseProofs ------------------------
(***************************************************************************)
(* What the callback slot guarantees for every number of threads, every    *)
(* number of trampoline calls at once and every range of percentages.      *)
(***************************************************************************)
EXTENDS CallbackLease, FiniteSetTheorems, TLAPS

USE LeaseAssumption

(***************************************************************************)
(* The inductive invariant.  Who holds the mutex and whose pointer is in   *)
(* the slot can be read off the program counters; user code runs on the    *)
(* state in the slot; and as long as no call has outlived its operation,   *)
(* calls are of the operation that is in Windows, and what they carry is   *)
(* what has been reported to it and not delivered yet.                     *)
(***************************************************************************)
MutexHeld ==
    /\ \A t \in Thread : mutex = t <=> thread[t] \in {"installing", "clearing"}
    /\ \A c \in Call : mutex = c <=> InUserCode(c)

SlotOwned == \A t \in Thread : slot = t <=> thread[t] \in {"native", "dropping", "clearing"}

RunsOnSlot == \A c \in Call : InUserCode(c) => slot = call[c].on

Calling(c, t) == call[c].at # "none" /\ call[c].op = Current(t)

CallsCurrent ==
    ~late => \A c \in Call : call[c].at # "none" =>
        \E t \in Thread : thread[t] = "native" /\ call[c].op = Current(t)

Pending(t) == {c \in Call : call[c].at = "waiting" /\ call[c].op = Current(t)}

Given(t) ==
    /\ Increasing(delivered[t])
    /\ \A v \in Percent :
        (\E i \in 1 .. Len(reported[t]) : reported[t][i] = v) <=>
            \/ \E i \in 1 .. Len(delivered[t]) : delivered[t][i] = v
            \/ \E c \in Pending(t) : call[c].value = v
    /\ Len(reported[t]) = Len(delivered[t]) + Cardinality(Pending(t))

NothingLost == ~late => \A t \in Thread : ~panic[t] /\ ~malformed[t] => Given(t)

SuccessMeans ==
    \A t \in Thread : thread[t] = "idle" /\ result[t] = "succeeded" => ~panic[t] /\ ~malformed[t]

PanicLast == \A c \in Call : InUserCode(c) => ~panic[call[c].on]

SlotInvariant == TypeOK /\ MutexHeld /\ SlotOwned /\ RunsOnSlot
LeaseInvariant == SlotInvariant /\ CallsCurrent /\ NothingLost /\ SuccessMeans /\ PanicLast

-----------------------------------------------------------------------------
(***************************************************************************)
(* The slot.                                                               *)
(***************************************************************************)
LEMMA InitSlot == Init => SlotInvariant
  <1> SUFFICES ASSUME Init PROVE SlotInvariant
    OBVIOUS
  <1>1. TypeOK
    <2>1. delivered \in [Thread -> Seq(0 .. MaxPercent)] /\ reported \in [Thread -> Seq(Percent)]
      <3>1. <<>> \in Seq(0 .. MaxPercent) /\ <<>> \in Seq(Percent)
        OBVIOUS
      <3>2. QED
        BY <3>1 DEF Init
    <2>2. thread \in [Thread -> {"idle", "installing", "native", "dropping", "clearing", "done"}]
      BY DEF Init
    <2>3. call \in [Call -> CallState] /\ result \in [Thread -> Result]
      BY DEF Init, CallState, Result
    <2>4. QED
      BY <2>1, <2>2, <2>3 DEF Init, TypeOK
  <1>2. MutexHeld
    BY DEF Init, MutexHeld, InUserCode, Idle
  <1>3. SlotOwned /\ RunsOnSlot
    BY DEF Init, SlotOwned, RunsOnSlot, InUserCode, Idle
  <1>4. QED
    BY <1>1, <1>2, <1>3 DEF SlotInvariant

\* What a trampoline call can look like.
LEMMA CallShape ==
  ASSUME TypeOK, NEW c \in Call
  PROVE  /\ call[c].at \in {"none", "waiting", "running", "nesting", "leaving"}
         /\ call[c].at = "none" => call[c] = Idle
         /\ call[c].at = "waiting" =>
                call[c].op \in Operation /\ call[c].value \in Percent
         /\ InUserCode(c) =>
                /\ call[c].op \in Operation /\ call[c].on \in Thread
                /\ call[c] = [at |-> call[c].at, op |-> call[c].op, on |-> call[c].on]
  <1>1. call[c] \in CallState
    BY DEF TypeOK
  <1>2. CASE call[c] = Idle
    BY <1>2 DEF Idle, InUserCode
  <1>3. CASE call[c] \in [at : {"waiting"}, op : Operation, value : Percent]
    BY <1>3 DEF InUserCode
  <1>4. CASE call[c] \in [at : {"running", "nesting", "leaving"}, op : Operation, on : Thread]
    BY <1>4 DEF InUserCode
  <1>5. QED
    BY <1>1, <1>2, <1>3, <1>4 DEF CallState

LEMMA ThreadKeepsTypes ==
  ASSUME TypeOK, NEW t \in Thread, ThreadStep(t)
  PROVE  TypeOK'
  <1>1. CASE TryInstall(t)
    <2>1. <<>> \in Seq(0 .. MaxPercent) /\ <<>> \in Seq(Percent)
      OBVIOUS
    <2>2. delivered' \in [Thread -> Seq(0 .. MaxPercent)] /\ reported' \in [Thread -> Seq(Percent)]
      BY <1>1, <2>1 DEF TryInstall, TypeOK
    <2>3. /\ ops' \in [Thread -> Nat]
          /\ panic' \in [Thread -> BOOLEAN] /\ malformed' \in [Thread -> BOOLEAN]
      BY <1>1 DEF TryInstall, TypeOK
    <2>4. result' \in [Thread -> Result]
      BY <1>1 DEF TryInstall, TypeOK, Result
    <2>5. /\ mutex' \in Thread \cup Call \cup {None}
          /\ thread' \in [Thread ->
                {"idle", "installing", "native", "dropping", "clearing", "done"}]
      BY <1>1 DEF TryInstall, TypeOK, Goto
    <2>6. QED
      BY <1>1, <2>2, <2>3, <2>4, <2>5 DEF TryInstall, TypeOK
  <1>2. CASE Install(t)
    BY <1>2 DEF Install, TypeOK, Result, Goto
  <1>3. ASSUME NEW ok \in BOOLEAN, NativeReturn(t, ok)
        PROVE  TypeOK'
    BY <1>3 DEF NativeReturn, TypeOK, Goto
  <1>4. CASE LockDrop(t)
    BY <1>4 DEF LockDrop, TypeOK, Goto
  <1>5. CASE Clear(t)
    BY <1>5 DEF Clear, TypeOK, Goto
  <1>6. CASE Finish(t)
    BY <1>6 DEF Finish, TypeOK, Result, Goto
  <1>7. QED
    BY <1>1, <1>2, <1>3, <1>4, <1>5, <1>6 DEF ThreadStep

LEMMA ThreadKeepsSlot ==
  ASSUME SlotInvariant, NEW t \in Thread, ThreadStep(t)
  PROVE  SlotInvariant'
  <1>1. TypeOK'
    BY ThreadKeepsTypes DEF SlotInvariant
  <1>2. UNCHANGED call
    BY DEF ThreadStep, TryInstall, Install, NativeReturn, LockDrop, Clear, Finish
  <1>3. thread \in [Thread -> {"idle", "installing", "native", "dropping", "clearing", "done"}]
    BY DEF SlotInvariant, TypeOK
  <1>4. CASE TryInstall(t)
    BY <1>1, <1>2, <1>3, <1>4
       DEF TryInstall, WouldBlock, SlotInvariant, MutexHeld, SlotOwned, RunsOnSlot, InUserCode, Goto
  <1>5. CASE Install(t)
    <2>1. mutex = t /\ mutex' = None
      BY <1>5 DEF Install, SlotInvariant, MutexHeld
    <2>2. \A c \in Call : ~InUserCode(c)
      BY <2>1 DEF SlotInvariant, MutexHeld
    <2>3. MutexHeld'
      BY <1>2, <1>3, <1>5, <2>1, <2>2 DEF Install, SlotInvariant, MutexHeld, InUserCode, Goto
    <2>4. RunsOnSlot'
      BY <1>2, <2>2 DEF RunsOnSlot, InUserCode
    <2>5. SlotOwned'
      BY <1>3, <1>5 DEF Install, SlotInvariant, SlotOwned, Goto
    <2>6. QED
      BY <1>1, <2>3, <2>4, <2>5 DEF SlotInvariant
  <1>6. ASSUME NEW ok \in BOOLEAN, NativeReturn(t, ok)
        PROVE  SlotInvariant'
    BY <1>1, <1>2, <1>3, <1>6
       DEF NativeReturn, SlotInvariant, MutexHeld, SlotOwned, RunsOnSlot, InUserCode, Goto
  <1>7. CASE LockDrop(t)
    BY <1>1, <1>2, <1>3, <1>7
       DEF LockDrop, SlotInvariant, MutexHeld, SlotOwned, RunsOnSlot, InUserCode, Goto
  <1>8. CASE Clear(t)
    <2>1. mutex = t /\ mutex' = None /\ slot = t /\ slot' = None
      BY <1>8 DEF Clear, SlotInvariant, MutexHeld, SlotOwned
    <2>2. \A c \in Call : ~InUserCode(c)
      BY <2>1 DEF SlotInvariant, MutexHeld
    <2>3. MutexHeld'
      BY <1>2, <1>3, <1>8, <2>1, <2>2 DEF Clear, SlotInvariant, MutexHeld, InUserCode, Goto
    <2>4. RunsOnSlot'
      BY <1>2, <2>2 DEF RunsOnSlot, InUserCode
    <2>5. SlotOwned'
      BY <1>3, <1>8, <2>1 DEF Clear, SlotInvariant, SlotOwned, Goto
    <2>6. QED
      BY <1>1, <2>3, <2>4, <2>5 DEF SlotInvariant
  <1>9. CASE Finish(t)
    BY <1>1, <1>2, <1>3, <1>9
       DEF Finish, SlotInvariant, MutexHeld, SlotOwned, RunsOnSlot, InUserCode, Goto
  <1>10. QED
    BY <1>4, <1>5, <1>6, <1>7, <1>8, <1>9 DEF ThreadStep

LEMMA ReportKeepsSlot ==
  ASSUME SlotInvariant, NEW c \in Call, NEW t \in Thread, NEW value \in Percent, Report(c, t, value)
  PROVE  SlotInvariant'
  <1> USE DEF SlotInvariant, Report
  <1>1. Waiting(Current(t), value) \in CallState
    BY DEF TypeOK, CallState, Waiting, Current, Operation
  <1>2. TypeOK'
    BY <1>1 DEF TypeOK
  <1>3. MutexHeld' /\ SlotOwned' /\ RunsOnSlot'
    BY DEF TypeOK, MutexHeld, SlotOwned, RunsOnSlot, InUserCode, Idle, Waiting
  <1>4. QED
    BY <1>2, <1>3

LEMMA CallKeepsSlot ==
  ASSUME SlotInvariant, NEW c \in Call, CallStep(c)
  PROVE  SlotInvariant'
  <1> USE DEF SlotInvariant
  <1>1. CASE Discard(c)
    <2>1. TypeOK'
      BY <1>1 DEF Discard, TypeOK, CallState
    <2>2. MutexHeld' /\ SlotOwned' /\ RunsOnSlot'
      BY <1>1 DEF Discard, TypeOK, MutexHeld, SlotOwned, RunsOnSlot, InUserCode, Idle
    <2>3. QED
      BY <2>1, <2>2
  <1>2. CASE Enter(c)
    <2>1. call[c].op \in Operation /\ call[c].value \in 0 .. MaxPercent
      <3>1. call[c].at = "waiting" /\ call[c].value <= MaxPercent
        BY <1>2 DEF Enter, Acceptable
      <3>2. call[c].op \in Operation /\ call[c].value \in Percent
        BY <3>1, CallShape
      <3>3. QED
        BY <3>1, <3>2 DEF Percent
    <2>2. slot \in Thread
      BY <1>2 DEF Enter, TypeOK
    <2>3. [at |-> "running", op |-> call[c].op, on |-> slot] \in CallState
      BY <2>1, <2>2 DEF CallState
    <2>4. TypeOK'
      BY <1>2, <2>1, <2>2, <2>3 DEF Enter, TypeOK
    <2>5. MutexHeld' /\ SlotOwned' /\ RunsOnSlot'
      BY <1>2, <2>2 DEF Enter, TypeOK, MutexHeld, SlotOwned, RunsOnSlot, InUserCode
    <2>6. QED
      BY <2>4, <2>5
  <1>3. CASE Nest(c) \/ NestRefused(c)
    <2>1. call'[c] \in CallState /\ call'[c].on = call[c].on /\ InUserCode(c) /\ InUserCode(c)'
      <3>1. InUserCode(c)
        BY <1>3 DEF Nest, NestRefused, InUserCode
      <3>2. PICK at \in {"nesting", "leaving"} : call' = [call EXCEPT ![c].at = at]
        BY <1>3 DEF Nest, NestRefused
      <3>3. call'[c] = [call[c] EXCEPT !.at = at]
        BY <3>2 DEF TypeOK
      <3>4. /\ call[c].op \in Operation /\ call[c].on \in Thread
            /\ call[c] = [at |-> call[c].at, op |-> call[c].op, on |-> call[c].on]
        BY <3>1, CallShape
      <3>5. call'[c] = [at |-> at, op |-> call[c].op, on |-> call[c].on]
        BY <3>3, <3>4
      <3>6. call'[c] \in CallState
        BY <3>4, <3>5 DEF CallState
      <3>7. QED
        BY <3>1, <3>5, <3>6 DEF InUserCode
    <2>2. TypeOK'
      BY <1>3, <2>1 DEF Nest, NestRefused, TypeOK
    <2>3. MutexHeld' /\ SlotOwned' /\ RunsOnSlot'
      BY <1>3, <2>1 DEF Nest, NestRefused, TypeOK, MutexHeld, SlotOwned, RunsOnSlot, InUserCode
    <2>4. QED
      BY <2>2, <2>3
  <1>4. ASSUME NEW panics \in BOOLEAN, Leave(c, panics)
        PROVE  SlotInvariant'
    <2>1. TypeOK'
      BY <1>4 DEF Leave, TypeOK, CallState
    <2>2. MutexHeld' /\ SlotOwned' /\ RunsOnSlot'
      BY <1>4 DEF Leave, TypeOK, MutexHeld, SlotOwned, RunsOnSlot, InUserCode, Idle
    <2>3. QED
      BY <2>1, <2>2
  <1>5. QED
    BY <1>1, <1>2, <1>3, <1>4 DEF CallStep

LEMMA SlotStep == SlotInvariant /\ [Next]_vars => SlotInvariant'
  <1> SUFFICES ASSUME SlotInvariant, [Next]_vars PROVE SlotInvariant'
    OBVIOUS
  <1>1. CASE UNCHANGED vars
    BY <1>1 DEF vars, SlotInvariant, TypeOK, MutexHeld, SlotOwned, RunsOnSlot, InUserCode
  <1>2. QED
    BY <1>1, ThreadKeepsSlot, ReportKeepsSlot, CallKeepsSlot DEF Next, Terminated

LEMMA SlotInvariantHolds == Spec => []SlotInvariant
  BY InitSlot, SlotStep, PTL DEF Spec

\* Types are kept: in particular the user's callback is only given values in range
\* (sys.rs:746, session.rs:655).
THEOREM LeaseTypeCorrect == Spec => []TypeOK
  <1>1. SlotInvariant => TypeOK
    BY DEF SlotInvariant
  <1> QED
    BY SlotInvariantHolds, <1>1, PTL

\* The trampoline only follows the pointer in the slot while the frame it points into
\* is there, and one trampoline at a time (sys.rs:740, :790, :829).
THEOREM PointerIsValid == Spec => []PointerValid
  <1>1. ASSUME SlotInvariant PROVE PointerValid
    <2>1. slot # None => FrameLive(slot)
      BY <1>1 DEF SlotInvariant, TypeOK, SlotOwned, FrameLive
    <2>2. ASSUME NEW c \in Call, InUserCode(c)
          PROVE  /\ thread[call[c].on] \in {"native", "dropping"}
                 /\ \A d \in Call : InUserCode(d) => d = c
      <3>1. mutex = c /\ call[c].on \in Thread /\ slot = call[c].on
        BY <1>1, <2>2, CallShape DEF SlotInvariant, MutexHeld, RunsOnSlot
      <3>2. thread[call[c].on] \in {"native", "dropping", "clearing"}
        BY <1>1, <3>1 DEF SlotInvariant, SlotOwned
      <3>3. thread[call[c].on] # "clearing"
        BY <1>1, <3>1 DEF SlotInvariant, MutexHeld
      <3>4. QED
        BY <1>1, <3>1, <3>2, <3>3 DEF SlotInvariant, MutexHeld
    <2>3. QED
      BY <2>1, <2>2 DEF PointerValid
  <1> QED
    BY SlotInvariantHolds, <1>1, PTL

-----------------------------------------------------------------------------
(***************************************************************************)
(* Whose progress it is, and that none is lost.                            *)
(***************************************************************************)

\* As long as no call has outlived its operation, calls are about the operation whose
\* state is in the slot.
LEMMA CallsOfSlot ==
  ASSUME SlotInvariant, CallsCurrent, ~late, NEW c \in Call, call[c].at # "none"
  PROVE  /\ slot \in Thread /\ thread[slot] = "native"
         /\ call[c].op = Current(slot)
  <1>1. PICK t \in Thread : thread[t] = "native" /\ call[c].op = Current(t)
    BY DEF CallsCurrent
  <1>2. slot = t
    BY <1>1 DEF SlotInvariant, SlotOwned
  <1>3. QED
    BY <1>1, <1>2

LEMMA ThreadKeepsCalls ==
  ASSUME SlotInvariant, CallsCurrent, NEW t \in Thread, ThreadStep(t), ~late'
  PROVE  /\ CallsCurrent' /\ ~late /\ call' = call
         /\ \A s \in Thread \ {t} : ops'[s] = ops[s]
  <1>1. /\ call' = call /\ ~late
        /\ \A s \in Thread \ {t} : ops'[s] = ops[s] /\ thread'[s] = thread[s]
    BY DEF SlotInvariant, TypeOK, ThreadStep, TryInstall, Install, NativeReturn, LockDrop,
        Clear, Finish, Goto
  <1>2. ASSUME NEW c \in Call, call[c].at # "none"
        PROVE  \E s \in Thread : thread'[s] = "native" /\ call[c].op = Current(s)'
    <2>1. PICK s \in Thread : thread[s] = "native" /\ call[c].op = Current(s)
      BY <1>1, <1>2 DEF CallsCurrent
    <2>2. CASE s # t
      BY <1>1, <2>1, <2>2 DEF Current
    <2>3. CASE s = t
      <3>1. PICK ok \in BOOLEAN : NativeReturn(t, ok)
        BY <2>1, <2>3 DEF ThreadStep, TryInstall, Install, LockDrop, Clear, Finish
      <3>2. QED
        BY <1>2, <2>1, <2>3, <3>1 DEF NativeReturn
    <2>4. QED
      BY <2>2, <2>3
  <1>3. CallsCurrent'
    BY <1>1, <1>2 DEF CallsCurrent
  <1>4. QED
    BY <1>1, <1>3

LEMMA CallsStep ==
  ASSUME SlotInvariant, CallsCurrent, [Next]_vars
  PROVE  CallsCurrent'
  <1> SUFFICES ASSUME ~late' PROVE CallsCurrent'
    BY DEF CallsCurrent
  <1>1. ASSUME NEW t \in Thread, ThreadStep(t)
        PROVE  CallsCurrent'
    BY <1>1, ThreadKeepsCalls
  <1>2. ASSUME NEW c \in Call, NEW t \in Thread, NEW value \in Percent, Report(c, t, value)
        PROVE  CallsCurrent'
    BY <1>2 DEF Report, CallsCurrent, Current, Waiting, SlotInvariant, TypeOK
  <1>3. ASSUME NEW c \in Call, CallStep(c)
        PROVE  CallsCurrent'
    <2>1. /\ call[c].at # "none"
          /\ late' = late /\ thread' = thread /\ ops' = ops
          /\ \A d \in Call \ {c} : call'[d] = call[d]
      BY <1>3 DEF CallStep, Discard, Enter, Nest, NestRefused, Leave, SlotInvariant, TypeOK
    <2>2. call'[c].at = "none" \/ call'[c].op = call[c].op
      <3>1. CASE Nest(c) \/ NestRefused(c)
        <4>1. PICK at \in {"nesting", "leaving"} : call'[c] = [call[c] EXCEPT !.at = at]
          BY <3>1 DEF Nest, NestRefused, SlotInvariant, TypeOK
        <4>2. InUserCode(c)
          BY <3>1 DEF Nest, NestRefused, InUserCode
        <4>3. call[c] = [at |-> call[c].at, op |-> call[c].op, on |-> call[c].on]
          BY <4>2, CallShape DEF SlotInvariant
        <4>4. QED
          BY <4>1, <4>3
      <3>2. CASE Discard(c) \/ Enter(c) \/ \E panics \in BOOLEAN : Leave(c, panics)
        BY <3>2 DEF Discard, Enter, Leave, Idle, SlotInvariant, TypeOK
      <3>3. QED
        BY <1>3, <3>1, <3>2 DEF CallStep
    <2>3. QED
      BY <2>1, <2>2 DEF CallsCurrent, Current
  <1>4. CASE UNCHANGED vars
    BY <1>4 DEF vars, CallsCurrent, Current
  <1>5. QED
    BY <1>1, <1>2, <1>3, <1>4 DEF Next, Terminated

LEMMA PanicStep ==
  ASSUME SlotInvariant, PanicLast, [Next]_vars
  PROVE  PanicLast'
  <1>1. ASSUME NEW t \in Thread, ThreadStep(t)
        PROVE  PanicLast'
    <2>1. call' = call /\ \A s \in Thread : panic'[s] => panic[s]
      BY <1>1 DEF ThreadStep, TryInstall, Install, NativeReturn, LockDrop, Clear, Finish,
          SlotInvariant, TypeOK
    <2>2. \A c \in Call : InUserCode(c) => call[c].on \in Thread
      BY CallShape DEF SlotInvariant
    <2>3. QED
      BY <2>1, <2>2 DEF PanicLast, InUserCode
  <1>2. ASSUME NEW c \in Call, NEW t \in Thread, NEW value \in Percent, Report(c, t, value)
        PROVE  PanicLast'
    BY <1>2 DEF Report, PanicLast, InUserCode, Waiting, SlotInvariant, TypeOK
  <1>3. ASSUME NEW c \in Call, Discard(c)
        PROVE  PanicLast'
    BY <1>3 DEF Discard, PanicLast, InUserCode, Idle, SlotInvariant, TypeOK
  <1>4. ASSUME NEW c \in Call, Enter(c)
        PROVE  PanicLast'
    BY <1>4 DEF Enter, PanicLast, InUserCode, SlotInvariant, TypeOK
  <1>5. ASSUME NEW c \in Call, Nest(c) \/ NestRefused(c)
        PROVE  PanicLast'
    <2>1. panic' = panic /\ InUserCode(c) /\ \A d \in Call \ {c} : call'[d] = call[d]
      BY <1>5 DEF Nest, NestRefused, InUserCode, SlotInvariant, TypeOK
    <2>2. call[c] = [at |-> call[c].at, op |-> call[c].op, on |-> call[c].on]
      BY <2>1, CallShape DEF SlotInvariant
    <2>3. PICK at \in {"nesting", "leaving"} : call'[c] = [call[c] EXCEPT !.at = at]
      BY <1>5 DEF Nest, NestRefused, SlotInvariant, TypeOK
    <2>4. call'[c].on = call[c].on
      BY <2>2, <2>3
    <2>5. QED
      BY <2>1, <2>4 DEF PanicLast, InUserCode
  <1>6. ASSUME NEW c \in Call, NEW panics \in BOOLEAN, Leave(c, panics)
        PROVE  PanicLast'
    <2>1. \A d \in Call \ {c} : ~InUserCode(d) /\ call'[d] = call[d]
      BY <1>6 DEF Leave, InUserCode, SlotInvariant, TypeOK, MutexHeld
    <2>2. call'[c] = Idle
      BY <1>6 DEF Leave, SlotInvariant, TypeOK
    <2>3. QED
      BY <2>1, <2>2 DEF PanicLast, InUserCode, Idle
  <1>7. CASE UNCHANGED vars
    BY <1>7 DEF vars, PanicLast, InUserCode
  <1>8. QED
    BY <1>1, <1>2, <1>3, <1>4, <1>5, <1>6, <1>7 DEF Next, CallStep, Terminated

LEMMA SuccessStep ==
  ASSUME SlotInvariant, SuccessMeans, [Next]_vars
  PROVE  SuccessMeans'
  <1> USE DEF SlotInvariant, TypeOK, SuccessMeans, Goto
  <1>1. ASSUME NEW t \in Thread, ThreadStep(t)
        PROVE  SuccessMeans'
    <2>1. \A s \in Thread \ {t} :
            thread'[s] = thread[s] /\ result'[s] = result[s] /\ panic'[s] = panic[s]
            /\ malformed'[s] = malformed[s]
      BY <1>1 DEF ThreadStep, TryInstall, Install, NativeReturn, LockDrop, Clear, Finish
    <2>2. thread'[t] = "idle" /\ result'[t] = "succeeded" => ~panic'[t] /\ ~malformed'[t]
      <3>1. CASE TryInstall(t)
        BY <3>1 DEF TryInstall
      <3>2. CASE Install(t)
        BY <3>2 DEF Install
      <3>3. CASE LockDrop(t) \/ Clear(t) \/ \E ok \in BOOLEAN : NativeReturn(t, ok)
        BY <3>3 DEF LockDrop, Clear, NativeReturn
      <3>4. CASE Finish(t)
        BY <3>4 DEF Finish
      <3>5. QED
        BY <1>1, <3>1, <3>2, <3>3, <3>4 DEF ThreadStep
    <2>3. QED
      BY <2>1, <2>2
  <1>2. ASSUME NEW c \in Call, NEW t \in Thread, NEW value \in Percent, Report(c, t, value)
        PROVE  SuccessMeans'
    BY <1>2 DEF Report
  <1>3. ASSUME NEW c \in Call, Discard(c)
        PROVE  SuccessMeans'
    BY <1>3 DEF Discard, SlotOwned
  <1>4. ASSUME NEW c \in Call, Enter(c) \/ Nest(c) \/ NestRefused(c)
        PROVE  SuccessMeans'
    BY <1>4 DEF Enter, Nest, NestRefused
  <1>5. ASSUME NEW c \in Call, NEW panics \in BOOLEAN, Leave(c, panics)
        PROVE  SuccessMeans'
    <2>1. call[c].on \in Thread /\ slot = call[c].on
      BY <1>5, CallShape DEF Leave, InUserCode, RunsOnSlot
    <2>2. thread[call[c].on] # "idle"
      BY <2>1 DEF SlotOwned
    <2>3. QED
      BY <1>5, <2>1, <2>2 DEF Leave
  <1>6. CASE UNCHANGED vars
    BY <1>6 DEF vars
  <1>7. QED
    BY <1>1, <1>2, <1>3, <1>4, <1>5, <1>6 DEF Next, CallStep, Terminated

\* What was given stays given when neither the values nor the calls change.
LEMMA GivenStays ==
  ASSUME NEW t \in Thread, Given(t),
         delivered'[t] = delivered[t], reported'[t] = reported[t],
         Pending(t)' = Pending(t), \A c \in Pending(t) : call'[c] = call[c]
  PROVE  Given(t)'
  <1>1. Increasing(delivered[t])'
    BY DEF Given, Increasing
  <1>2. (Len(reported[t]) = Len(delivered[t]) + Cardinality(Pending(t)))'
    BY DEF Given
  <1>3. QED
    BY <1>1, <1>2 DEF Given

LEMMA PendingFinite ==
  ASSUME NEW t \in Thread
  PROVE  IsFiniteSet(Pending(t)) /\ Cardinality(Pending(t)) \in Nat
  BY FS_Subset, FS_CardinalityType DEF Pending

LEMMA ThreadLosesNothing ==
  ASSUME SlotInvariant, CallsCurrent, NothingLost, NEW t \in Thread, ThreadStep(t)
  PROVE  NothingLost'
  <1> SUFFICES ASSUME ~late', NEW s \in Thread, ~panic'[s], ~malformed'[s]
               PROVE  Given(s)'
    BY DEF NothingLost
  <1>1. /\ call' = call /\ ~late
        /\ \A u \in Thread \ {t} : ops'[u] = ops[u]
    BY ThreadKeepsCalls
  <1>2. CASE TryInstall(t) /\ s = t
    <2>1. delivered'[s] = <<>> /\ reported'[s] = <<>>
      BY <1>2 DEF TryInstall, SlotInvariant, TypeOK
    <2>2. Pending(s)' = {}
      <3>1. ASSUME NEW c \in Call, call[c].at = "waiting", call[c].op = Current(s)'
            PROVE  FALSE
        <4>1. call[c].op = Current(slot) /\ thread[slot] = "native"
          BY <1>1, <3>1, CallsOfSlot
        <4>2. slot = s
          BY <3>1, <4>1 DEF Current
        <4>3. QED
          BY <1>2, <4>1, <4>2 DEF TryInstall
      <3>2. QED
        BY <1>1, <3>1 DEF Pending
    <2>3. (Len(reported[s]) = Len(delivered[s]) + Cardinality(Pending(s)))'
      BY <2>1, <2>2, FS_EmptySet
    <2>4. Increasing(delivered[s])'
      BY <2>1 DEF Increasing
    <2>5. QED
      BY <2>1, <2>2, <2>3, <2>4 DEF Given
  <1>3. CASE ~(TryInstall(t) /\ s = t)
    <2>1. /\ delivered'[s] = delivered[s] /\ reported'[s] = reported[s] /\ ops'[s] = ops[s]
          /\ panic'[s] = panic[s] /\ malformed'[s] = malformed[s]
      BY <1>3 DEF ThreadStep, TryInstall, Install, NativeReturn, LockDrop, Clear, Finish,
          SlotInvariant, TypeOK
    <2>2. Pending(s)' = Pending(s)
      BY <1>1, <2>1 DEF Pending, Current
    <2>3. Given(s)
      BY <1>1, <2>1 DEF NothingLost
    <2>4. QED
      BY <1>1, <2>1, <2>2, <2>3, GivenStays DEF Pending
  <1>4. QED
    BY <1>2, <1>3

LEMMA ReportLosesNothing ==
  ASSUME SlotInvariant, NothingLost, NEW c \in Call, NEW t \in Thread, NEW value \in Percent,
         Report(c, t, value)
  PROVE  NothingLost'
  <1> SUFFICES ASSUME ~late, NEW s \in Thread, ~panic[s], ~malformed[s]
               PROVE  Given(s)'
    BY DEF NothingLost, Report
  <1>1. Given(s)
    BY DEF NothingLost
  <1>2. /\ ops' = ops /\ delivered' = delivered
        /\ call[c].at = "none"
        /\ call'[c] = [at |-> "waiting", op |-> Current(t), value |-> value]
        /\ \A d \in Call \ {c} : call'[d] = call[d]
    BY DEF Report, Waiting, Idle, SlotInvariant, TypeOK
  <1>3. CASE s # t
    <2>1. Pending(s)' = Pending(s)
      BY <1>2, <1>3 DEF Pending, Current
    <2>2. c \notin Pending(s)
      BY <1>2 DEF Pending
    <2>3. reported'[s] = reported[s]
      BY <1>3 DEF Report, SlotInvariant, TypeOK
    <2>4. QED
      BY <1>1, <1>2, <2>1, <2>2, <2>3, GivenStays DEF Pending
  <1>4. CASE s = t
    <2>1. c \notin Pending(t) /\ Pending(t)' = Pending(t) \cup {c}
      BY <1>2 DEF Pending, Current
    <2>2. Cardinality(Pending(t)') = Cardinality(Pending(t)) + 1
      BY <2>1, PendingFinite, FS_AddElement
    <2>3. reported'[t] = Append(reported[t], value) /\ reported[t] \in Seq(Percent)
      BY DEF Report, SlotInvariant, TypeOK
    <2>4. /\ Len(reported'[t]) = Len(reported[t]) + 1
          /\ \A i \in 1 .. Len(reported[t]) : reported'[t][i] = reported[t][i]
          /\ reported'[t][Len(reported[t]) + 1] = value
      BY <2>3
    <2>5. Len(reported[t]) \in Nat /\ Len(delivered[t]) \in Nat
      BY <2>3 DEF SlotInvariant, TypeOK
    <2>6. ASSUME NEW v \in Percent
          PROVE  (\E i \in 1 .. Len(reported'[t]) : reported'[t][i] = v) <=>
                    (\E i \in 1 .. Len(reported[t]) : reported[t][i] = v) \/ v = value
      BY <2>4, <2>5
    <2>7. ASSUME NEW v \in Percent
          PROVE  (\E d \in Pending(t)' : call'[d].value = v) <=>
                    (\E d \in Pending(t) : call[d].value = v) \/ v = value
      BY <1>2, <2>1 DEF Pending
    <2>8. Increasing(delivered[t])'
      BY <1>1, <1>2, <1>4 DEF Given, Increasing
    <2>9. (Len(reported[t]) = Len(delivered[t]) + Cardinality(Pending(t)))'
      <3>1. Len(reported[t]) = Len(delivered[t]) + Cardinality(Pending(t))
        BY <1>1, <1>4 DEF Given
      <3>2. Cardinality(Pending(t)) \in Nat
        BY PendingFinite
      <3>3. Len(reported'[t]) = Len(delivered'[t]) + Cardinality(Pending(t)')
        BY <1>2, <2>2, <2>4, <2>5, <3>1, <3>2
      <3>4. QED
        BY <3>3
    <2>10. QED
      BY <1>1, <1>2, <1>4, <2>6, <2>7, <2>8, <2>9 DEF Given
  <1>5. QED
    BY <1>3, <1>4

LEMMA DiscardLosesNothing ==
  ASSUME SlotInvariant, CallsCurrent, NothingLost, NEW c \in Call, Discard(c)
  PROVE  NothingLost'
  <1> SUFFICES ASSUME ~late, NEW s \in Thread, ~panic'[s], ~malformed'[s]
               PROVE  Given(s)'
    BY DEF NothingLost, Discard
  <1>1. slot \in Thread /\ call[c].op = Current(slot)
    BY CallsOfSlot DEF Discard
  <1>2. panic' = panic /\ malformed' = [malformed EXCEPT ![slot] = @ \/ ~panic[slot]]
    BY <1>1 DEF Discard, SlotInvariant, TypeOK
  <1>3. s # slot /\ ~malformed[s]
    BY <1>1, <1>2 DEF SlotInvariant, TypeOK
  <1>4. Given(s)
    BY <1>2, <1>3 DEF NothingLost
  <1>5. /\ ops' = ops /\ delivered' = delivered /\ reported' = reported
        /\ call'[c].at = "none" /\ \A d \in Call \ {c} : call'[d] = call[d]
    BY DEF Discard, Idle, SlotInvariant, TypeOK
  <1>6. c \notin Pending(s)
    BY <1>1, <1>3 DEF Pending, Current
  <1>7. Pending(s)' = Pending(s)
    BY <1>5, <1>6 DEF Pending, Current
  <1>8. QED
    BY <1>4, <1>5, <1>6, <1>7, GivenStays DEF Pending

LEMMA EnterLosesNothing ==
  ASSUME SlotInvariant, CallsCurrent, NothingLost, NEW c \in Call, Enter(c)
  PROVE  NothingLost'
  <1> SUFFICES ASSUME ~late, NEW s \in Thread, ~panic[s], ~malformed[s]
               PROVE  Given(s)'
    BY DEF NothingLost, Enter
  <1> DEFINE value == call[c].value
  <1>1. Given(s)
    BY DEF NothingLost
  <1>2. /\ call[c].at = "waiting" /\ value \in Percent
        /\ slot \in Thread /\ call[c].op = Current(slot)
    BY CallsOfSlot, CallShape DEF Enter, SlotInvariant
  <1>3. /\ ops' = ops /\ reported' = reported
        /\ call'[c].at = "running" /\ \A d \in Call \ {c} : call'[d] = call[d]
    BY DEF Enter, SlotInvariant, TypeOK
  <1>4. CASE s # slot
    <2>1. c \notin Pending(s)
      BY <1>2, <1>4 DEF Pending, Current
    <2>2. Pending(s)' = Pending(s)
      BY <1>3, <2>1 DEF Pending, Current
    <2>3. delivered'[s] = delivered[s]
      BY <1>4 DEF Enter, SlotInvariant, TypeOK
    <2>4. QED
      BY <1>1, <1>3, <2>1, <2>2, <2>3, GivenStays DEF Pending
  <1>5. CASE s = slot
    <2>1. c \in Pending(s) /\ Pending(s)' = Pending(s) \ {c}
      BY <1>2, <1>3, <1>5 DEF Pending, Current
    <2>2. Cardinality(Pending(s)') = Cardinality(Pending(s)) - 1
      BY <2>1, PendingFinite, FS_RemoveElement
    <2>3. delivered'[s] = Append(delivered[s], value) /\ delivered[s] \in Seq(0 .. MaxPercent)
      BY <1>5 DEF Enter, SlotInvariant, TypeOK
    <2>4. /\ Len(delivered'[s]) = Len(delivered[s]) + 1
          /\ \A i \in 1 .. Len(delivered[s]) :
                delivered'[s][i] = delivered[s][i] /\ delivered[s][i] \in 0 .. MaxPercent
          /\ delivered'[s][Len(delivered[s]) + 1] = value
      BY <2>3
    <2>5. Len(reported[s]) \in Nat /\ Len(delivered[s]) \in Nat
      BY <2>3 DEF SlotInvariant, TypeOK
    <2>6. ASSUME NEW v \in Percent
          PROVE  (\E i \in 1 .. Len(delivered'[s]) : delivered'[s][i] = v) <=>
                    (\E i \in 1 .. Len(delivered[s]) : delivered[s][i] = v) \/ v = value
      <3> HIDE DEF value
      <3>1. 1 .. Len(delivered'[s]) = (1 .. Len(delivered[s])) \cup {Len(delivered[s]) + 1}
        BY <2>4, <2>5
      <3>2. QED
        BY <2>4, <3>1
    <2>7. ASSUME NEW v \in Percent
          PROVE  (\E d \in Pending(s)' : call'[d].value = v) \/ v = value <=>
                    (\E d \in Pending(s) : call[d].value = v)
      BY <1>3, <2>1 DEF Pending
    <2>8. Increasing(delivered[s])'
      <3>1. \A i \in 1 .. Len(delivered[s]) : delivered[s][i] < value
        BY <1>5 DEF Enter, Acceptable
      <3>2. \A i, j \in 1 .. Len(delivered[s]) : i < j => delivered[s][i] < delivered[s][j]
        BY <1>1 DEF Given, Increasing
      <3> HIDE DEF value
      <3>3. ASSUME NEW i \in 1 .. Len(delivered'[s]), NEW j \in 1 .. Len(delivered'[s]), i < j
            PROVE  delivered'[s][i] < delivered'[s][j]
        <4>1. i \in 1 .. Len(delivered[s]) /\ delivered'[s][i] = delivered[s][i]
          BY <2>4, <2>5, <3>3
        <4>2. CASE j = Len(delivered[s]) + 1
          BY <2>4, <3>1, <4>1, <4>2
        <4>3. CASE j # Len(delivered[s]) + 1
          <5>1. j \in 1 .. Len(delivered[s])
            BY <2>4, <2>5, <4>3
          <5>2. QED
            BY <2>4, <3>2, <3>3, <4>1, <5>1
        <4>4. QED
          BY <4>2, <4>3
      <3>4. QED
        BY <3>3 DEF Increasing
    <2>9. (Len(reported[s]) = Len(delivered[s]) + Cardinality(Pending(s)))'
      BY <1>1, <1>3, <2>2, <2>4, <2>5, PendingFinite DEF Given
    <2>10. QED
      BY <1>1, <1>3, <2>6, <2>7, <2>8, <2>9 DEF Given
  <1>6. QED
    BY <1>4, <1>5

LEMMA UserCodeLosesNothing ==
  ASSUME SlotInvariant, NothingLost, PanicLast, NEW c \in Call,
         Nest(c) \/ NestRefused(c) \/ \E panics \in BOOLEAN : Leave(c, panics)
  PROVE  NothingLost'
  <1> SUFFICES ASSUME ~late, NEW s \in Thread, ~panic'[s], ~malformed'[s]
               PROVE  Given(s)'
    BY DEF NothingLost, Nest, NestRefused, Leave
  <1>1. /\ ops' = ops /\ delivered' = delivered /\ reported' = reported
        /\ malformed' = malformed
        /\ \A d \in Call \ {c} : call'[d] = call[d]
    BY DEF Nest, NestRefused, Leave, SlotInvariant, TypeOK
  <1>2. InUserCode(c)
    BY DEF Nest, NestRefused, Leave, InUserCode
  <1>3. call'[c].at # "waiting"
    <2>1. CASE \E panics \in BOOLEAN : Leave(c, panics)
      BY <2>1 DEF Leave, Idle, SlotInvariant, TypeOK
    <2>2. CASE Nest(c) \/ NestRefused(c)
      <3>1. PICK at \in {"nesting", "leaving"} : call'[c] = [call[c] EXCEPT !.at = at]
        BY <2>2 DEF Nest, NestRefused, SlotInvariant, TypeOK
      <3>2. call[c] = [at |-> call[c].at, op |-> call[c].op, on |-> call[c].on]
        BY <1>2, CallShape DEF SlotInvariant
      <3>3. QED
        BY <3>1, <3>2
    <2>3. QED
      BY <2>1, <2>2
  <1>4. ~panic[s]
    BY <1>2 DEF Nest, NestRefused, Leave, PanicLast, SlotInvariant, TypeOK
  <1>5. Given(s)
    BY <1>1, <1>4 DEF NothingLost
  <1>6. c \notin Pending(s) /\ Pending(s)' = Pending(s)
    BY <1>1, <1>2, <1>3 DEF Pending, Current, InUserCode
  <1>7. QED
    BY <1>1, <1>5, <1>6, GivenStays DEF Pending

LEMMA NothingLostStep ==
  ASSUME LeaseInvariant, [Next]_vars
  PROVE  NothingLost'
  <1> USE DEF LeaseInvariant
  <1>1. CASE UNCHANGED vars
    <2>1. \A t \in Thread : Pending(t)' = Pending(t) /\ (Given(t) => Given(t)')
      BY <1>1 DEF vars, Given, Pending, Current, Increasing
    <2>2. QED
      BY <1>1, <2>1 DEF vars, NothingLost
  <1>2. QED
    BY <1>1, ThreadLosesNothing, ReportLosesNothing, DiscardLosesNothing, EnterLosesNothing,
       UserCodeLosesNothing DEF Next, CallStep, Terminated

LEMMA InitLease == Init => LeaseInvariant
  <1> SUFFICES ASSUME Init PROVE LeaseInvariant
    OBVIOUS
  <1>1. CallsCurrent /\ SuccessMeans /\ PanicLast
    BY DEF Init, CallsCurrent, SuccessMeans, PanicLast, Idle, InUserCode
  <1>2. NothingLost
    <2>1. ASSUME NEW t \in Thread PROVE Pending(t) = {}
      BY DEF Init, Pending, Idle
    <2>2. Cardinality({}) = 0
      BY FS_EmptySet
    <2>3. ASSUME NEW t \in Thread PROVE delivered[t] = <<>> /\ reported[t] = <<>>
      BY DEF Init
    <2>4. ASSUME NEW t \in Thread PROVE Given(t)
      <3>1. Len(<<>>) = 0
        OBVIOUS
      <3>2. 1 .. Len(delivered[t]) = {} /\ 1 .. Len(reported[t]) = {}
        BY <2>3, <3>1
      <3>3. Len(delivered[t]) = 0 /\ Len(reported[t]) = 0
        BY <2>3, <3>1
      <3>4. Cardinality(Pending(t)) = 0
        BY <2>1, <2>2
      <3>5. QED
        BY <2>1, <3>2, <3>3, <3>4 DEF Given, Increasing
    <2>5. QED
      BY <2>4 DEF NothingLost
  <1>3. QED
    BY <1>1, <1>2, InitSlot DEF LeaseInvariant

LEMMA LeaseStep == LeaseInvariant /\ [Next]_vars => LeaseInvariant'
  <1> SUFFICES ASSUME LeaseInvariant, [Next]_vars PROVE LeaseInvariant'
    OBVIOUS
  <1> QED
    BY SlotStep, CallsStep, PanicStep, SuccessStep, NothingLostStep DEF LeaseInvariant

LEMMA LeaseInvariantHolds == Spec => []LeaseInvariant
  BY InitLease, LeaseStep, PTL DEF Spec

\* As long as no trampoline call has outlived its operation, progress only reaches the
\* callback of the operation it is about (sys.rs:746).
THEOREM ProgressReachesOwner == Spec => []DeliveredToOwner
  <1>1. ASSUME LeaseInvariant PROVE DeliveredToOwner
    <2>1. ASSUME ~late, NEW c \in Call, InUserCode(c)
          PROVE  call[c].op = Current(call[c].on)
      <3>1. slot = call[c].on /\ call[c].at # "none"
        BY <1>1, <2>1 DEF LeaseInvariant, SlotInvariant, RunsOnSlot, InUserCode
      <3>2. QED
        BY <1>1, <2>1, <3>1, CallsOfSlot DEF LeaseInvariant
    <2>2. QED
      BY <2>1 DEF DeliveredToOwner
  <1> QED
    BY LeaseInvariantHolds, <1>1, PTL

\* An operation that succeeded has given its callback exactly the values that Windows
\* reported, each as often, in increasing order (session.rs:655).
THEOREM SuccessfulProgressIsFaithful == Spec => []SuccessIsFaithful
  <1>1. ASSUME LeaseInvariant PROVE SuccessIsFaithful
    <2>1. ASSUME ~late, NEW t \in Thread, thread[t] = "idle", result[t] = "succeeded"
          PROVE  /\ Increasing(delivered[t])
                 /\ \A v \in Percent :
                        (\E i \in 1 .. Len(delivered[t]) : delivered[t][i] = v)
                            <=> (\E i \in 1 .. Len(reported[t]) : reported[t][i] = v)
                 /\ Len(delivered[t]) = Len(reported[t])
      <3>1. Given(t)
        BY <1>1, <2>1 DEF LeaseInvariant, SuccessMeans, NothingLost
      <3>2. Pending(t) = {}
        <4>1. ASSUME NEW c \in Pending(t) PROVE FALSE
          <5>1. call[c].op = Current(slot) /\ thread[slot] = "native" /\ call[c].op = Current(t)
            BY <1>1, <2>1, <4>1, CallsOfSlot DEF LeaseInvariant, Pending
          <5>2. QED
            BY <2>1, <5>1 DEF Current
        <4>2. QED
          BY <4>1
      <3>3. Cardinality(Pending(t)) = 0
        BY <3>2, FS_EmptySet
      <3>4. Len(delivered[t]) \in Nat
        BY <1>1 DEF LeaseInvariant, SlotInvariant, TypeOK
      <3>5. QED
        BY <3>1, <3>2, <3>3, <3>4 DEF Given
    <2>2. QED
      BY <2>1 DEF SuccessIsFaithful
  <1> QED
    BY LeaseInvariantHolds, <1>1, PTL
=============================================================================
