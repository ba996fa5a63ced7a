------------------------ MODULE SessionHandleProofs ------------------------
(***************************************************************************)
(* What SessionHandle guarantees for every number of sessions, threads and *)
(* native table entries.                                                   *)
(***************************************************************************)
EXTENDS SessionHandle, TLAPS

USE SessionAssumption

LEMMA InitTypeOK == Init => TypeOK
  BY DEF Init, TypeOK, OwnerPC, CancellerPC, OwnerHolds, CancellerHolds

LEMMA InitOwnership == Init => OwnershipInvariant
  BY DEF Init, OwnershipInvariant, HandlesKnown, HeldIsOpen, MutexHeld,
      DestructorAlone, EndedMeans, Closing, Strong, Open, Cancelling, OwnerHolds,
      CancellerHolds

\* The destructor keeps the types, if it runs at most once.
LEMMA RunDropType ==
  ASSUME TypeOK, NEW s \in Session, NEW destroys, dropCalls[s] = 0, RunDrop(s, destroys)
  PROVE  ended' \in [Session -> BOOLEAN] /\ dropCalls' \in [Session -> 0 .. 1]
  <1>1. ended' \in [Session -> BOOLEAN]
    BY DEF TypeOK, RunDrop
  <1>2. dropCalls' \in [Session -> 0 .. 1]
    BY DEF TypeOK, RunDrop
  <1>3. QED
    BY <1>1, <1>2

LEMMA TypeStep ==
  ASSUME TypeOK, OwnershipInvariant, [Next]_vars
  PROVE  TypeOK'
  <1> USE DEF TypeOK, OwnerPC, CancellerPC, OwnerHolds, CancellerHolds
  <1>1. ASSUME NEW s \in Session, Start(s)
        PROVE  TypeOK'
    <2>1. dropCalls[s] = 0
      BY <1>1 DEF Start, OwnershipInvariant, EndedMeans
    <2>2. table' \in [Slot -> Session \cup {None}] /\ raw' \in [Session -> Slot \cup {None}]
      BY <1>1 DEF Start
    <2>3. dropCalls' \in [Session -> 0 .. 1]
      BY <1>1, <2>1 DEF Start
    <2>4. ended' \in [Session -> BOOLEAN]
      BY <1>1 DEF Start
    <2>5. owner' \in [Session -> OwnerPC]
      BY <1>1 DEF Start
    <2>6. QED
      BY <1>1, <2>2, <2>3, <2>4, <2>5 DEF Start
  <1>2. ASSUME NEW s \in Session, StartRefused(s)
        PROVE  TypeOK'
    BY <1>2 DEF StartRefused
  <1>3. ASSUME NEW s \in Session, Operate(s) \/ OperateReturn(s) \/ EndCall(s) \/ OwnerDrop(s)
        PROVE  TypeOK'
    BY <1>3 DEF Operate, OperateReturn, EndCall, OwnerDrop
  <1>4. ASSUME NEW s \in Session, EndLock(s)
        PROVE  TypeOK'
    BY <1>4 DEF EndLock, OwnershipInvariant, EndedMeans
  <1>5. ASSUME NEW s \in Session, NEW ok \in BOOLEAN, EndReturn(s, ok)
        PROVE  TypeOK'
    BY <1>5 DEF EndReturn, NativeEnd
  <1>6. ASSUME NEW s \in Session, NEW ok \in BOOLEAN, OwnerClosed(s, ok)
        PROVE  TypeOK'
    BY <1>6 DEF OwnerClosed, NativeEnd
  <1>7. ASSUME NEW s \in Session, OwnerRelease(s)
        PROVE  TypeOK'
    <2>1. dropCalls[s] = 0
      BY <1>7 DEF OwnerRelease, OwnershipInvariant, EndedMeans, Strong
    <2>2. ended' \in [Session -> BOOLEAN] /\ dropCalls' \in [Session -> 0 .. 1]
      BY <1>7, <2>1, RunDropType DEF OwnerRelease
    <2>3. owner' \in [Session -> OwnerPC]
      BY <1>7 DEF OwnerRelease
    <2>4. QED
      BY <1>7, <2>2, <2>3 DEF OwnerRelease
  <1>8. ASSUME NEW s \in Session, NEW c \in Thread, GiveHandle(s, c)
        PROVE  TypeOK'
    BY <1>8 DEF GiveHandle
  <1>9. ASSUME NEW c \in Thread, Upgrade(c) \/ CancelLock(c)
        PROVE  TypeOK'
    BY <1>9 DEF Upgrade, CancelLock
  <1>10. ASSUME NEW c \in Thread, NEW ok \in BOOLEAN, CancelReturn(c, ok)
         PROVE  TypeOK'
    BY <1>10 DEF CancelReturn
  <1>11. ASSUME NEW c \in Thread, CancellerRelease(c)
         PROVE  TypeOK'
    <2>1. weak[c] \in Session /\ dropCalls[weak[c]] = 0
      BY <1>11 DEF CancellerRelease, OwnershipInvariant, HandlesKnown, EndedMeans,
          Strong, Cancelling
    <2>2. ended' \in [Session -> BOOLEAN] /\ dropCalls' \in [Session -> 0 .. 1]
      BY <1>11, <2>1, RunDropType DEF CancellerRelease
    <2>3. canceller' \in [Thread -> CancellerPC]
      BY <1>11 DEF CancellerRelease
    <2>4. QED
      BY <1>11, <2>2, <2>3 DEF CancellerRelease
  <1>12. ASSUME NEW c \in Thread, NEW ok \in BOOLEAN, CancellerClosed(c, ok)
         PROVE  TypeOK'
    BY <1>12 DEF CancellerClosed, NativeEnd
  <1>13. CASE UNCHANGED vars \/ Terminated
    BY <1>13 DEF vars, Terminated
  <1>14. QED
    BY <1>1, <1>2, <1>3, <1>4, <1>5, <1>6, <1>7, <1>8, <1>9, <1>10, <1>11, <1>12,
        <1>13 DEF Next, OwnerStep, CancellerStep

----------------------------------------------------------------------------
(***************************************************************************)
(* The invariant is kept by every step, one conjunct at a time.            *)
(***************************************************************************)
LEMMA StartKeeps ==
  ASSUME TypeOK, OwnershipInvariant, NEW s \in Session, Start(s)
  PROVE  OwnershipInvariant'
  <1> USE DEF TypeOK, OwnershipInvariant, HandlesKnown, Start
  <1>1. HandlesKnown'
    OBVIOUS
  <1>2. ASSUME NEW t \in Session
        PROVE  HeldIsOpen(t)'
    BY <1>2 DEF HeldIsOpen, Strong, Cancelling, Open, OwnerHolds, CancellerHolds
  <1>3. ASSUME NEW t \in Session
        PROVE  MutexHeld(t)'
    BY <1>3 DEF MutexHeld, Cancelling
  <1>4. ASSUME NEW t \in Session
        PROVE  DestructorAlone(t)'
    BY <1>4 DEF DestructorAlone, Closing, Strong, Cancelling, Open, OwnerHolds,
        CancellerHolds
  <1>5. ASSUME NEW t \in Session
        PROVE  EndedMeans(t)'
    BY <1>5 DEF EndedMeans, HeldIsOpen, Strong, Cancelling, Open, OwnerHolds,
        CancellerHolds
  <1>6. QED
    BY <1>1, <1>2, <1>3, <1>4, <1>5

LEMMA StartRefusedKeeps ==
  ASSUME TypeOK, OwnershipInvariant, NEW s \in Session, StartRefused(s)
  PROVE  OwnershipInvariant'
  <1> USE DEF TypeOK, OwnershipInvariant, HandlesKnown, StartRefused
  <1>1. HandlesKnown'
    OBVIOUS
  <1>2. ASSUME NEW t \in Session
        PROVE  HeldIsOpen(t)'
    BY <1>2 DEF HeldIsOpen, DestructorAlone, Closing, MutexHeld, Strong, Cancelling,
        Open, OwnerHolds, CancellerHolds
  <1>3. ASSUME NEW t \in Session
        PROVE  MutexHeld(t)'
    BY <1>3 DEF MutexHeld, HeldIsOpen, Cancelling
  <1>4. ASSUME NEW t \in Session
        PROVE  DestructorAlone(t)'
    BY <1>4 DEF DestructorAlone, HeldIsOpen, Closing, Strong, Cancelling, Open,
        OwnerHolds, CancellerHolds
  <1>5. ASSUME NEW t \in Session
        PROVE  EndedMeans(t)'
    BY <1>5 DEF EndedMeans, HeldIsOpen, DestructorAlone, Closing, Strong, Cancelling,
        Open, OwnerHolds, CancellerHolds
  <1>6. QED
    BY <1>1, <1>2, <1>3, <1>4, <1>5

LEMMA OwnerMoveKeeps ==
  ASSUME TypeOK, OwnershipInvariant, NEW s \in Session,
         Operate(s) \/ OperateReturn(s) \/ EndCall(s) \/ OwnerDrop(s)
  PROVE  OwnershipInvariant'
  <1> USE DEF TypeOK, OwnershipInvariant, HandlesKnown, Operate, OperateReturn, EndCall, OwnerDrop
  <1>1. HandlesKnown'
    OBVIOUS
  <1>2. ASSUME NEW t \in Session
        PROVE  HeldIsOpen(t)'
    BY <1>2 DEF HeldIsOpen, DestructorAlone, Closing, MutexHeld, Strong, Cancelling,
        Open, OwnerHolds, CancellerHolds
  <1>3. ASSUME NEW t \in Session
        PROVE  MutexHeld(t)'
    BY <1>3 DEF MutexHeld, HeldIsOpen, Cancelling
  <1>4. ASSUME NEW t \in Session
        PROVE  DestructorAlone(t)'
    BY <1>4 DEF DestructorAlone, HeldIsOpen, Closing, Strong, Cancelling, Open,
        OwnerHolds, CancellerHolds
  <1>5. ASSUME NEW t \in Session
        PROVE  EndedMeans(t)'
    BY <1>5 DEF EndedMeans, HeldIsOpen, DestructorAlone, Closing, Strong, Cancelling,
        Open, OwnerHolds, CancellerHolds
  <1>6. QED
    BY <1>1, <1>2, <1>3, <1>4, <1>5

LEMMA EndLockKeeps ==
  ASSUME TypeOK, OwnershipInvariant, NEW s \in Session, EndLock(s)
  PROVE  OwnershipInvariant'
  <1> USE DEF TypeOK, OwnershipInvariant, HandlesKnown, EndLock, Unlocked
  <1>1. HandlesKnown'
    OBVIOUS
  <1>2. ASSUME NEW t \in Session
        PROVE  HeldIsOpen(t)'
    BY <1>2 DEF HeldIsOpen, DestructorAlone, Closing, MutexHeld, Strong, Cancelling,
        Open, OwnerHolds, CancellerHolds
  <1>3. ASSUME NEW t \in Session
        PROVE  MutexHeld(t)'
    BY <1>3 DEF MutexHeld, HeldIsOpen, Cancelling
  <1>4. ASSUME NEW t \in Session
        PROVE  DestructorAlone(t)'
    BY <1>4 DEF DestructorAlone, HeldIsOpen, Closing, Strong, Cancelling, Open,
        OwnerHolds, CancellerHolds
  <1>5. ASSUME NEW t \in Session
        PROVE  EndedMeans(t)'
    BY <1>5 DEF EndedMeans, HeldIsOpen, DestructorAlone, Closing, Strong, Cancelling,
        Open, OwnerHolds, CancellerHolds
  <1>6. QED
    BY <1>1, <1>2, <1>3, <1>4, <1>5

LEMMA EndReturnKeeps ==
  ASSUME TypeOK, OwnershipInvariant, NEW s \in Session, NEW ok \in BOOLEAN, EndReturn(s, ok)
  PROVE  OwnershipInvariant'
  <1> USE DEF TypeOK, OwnershipInvariant, HandlesKnown, EndReturn, NativeEnd
  <1>1. HandlesKnown'
    OBVIOUS
  <1>2. ASSUME NEW t \in Session
        PROVE  HeldIsOpen(t)'
    BY <1>2 DEF HeldIsOpen, DestructorAlone, Closing, MutexHeld, Strong, Cancelling,
        Open, OwnerHolds, CancellerHolds
  <1>3. ASSUME NEW t \in Session
        PROVE  MutexHeld(t)'
    BY <1>3 DEF MutexHeld, HeldIsOpen, Cancelling
  <1>4. ASSUME NEW t \in Session
        PROVE  DestructorAlone(t)'
    BY <1>4 DEF DestructorAlone, HeldIsOpen, Closing, Strong, Cancelling, Open,
        OwnerHolds, CancellerHolds
  <1>5. ASSUME NEW t \in Session
        PROVE  EndedMeans(t)'
    BY <1>5 DEF EndedMeans, HeldIsOpen, DestructorAlone, Closing, Strong, Cancelling,
        Open, OwnerHolds, CancellerHolds
  <1>6. QED
    BY <1>1, <1>2, <1>3, <1>4, <1>5

LEMMA OwnerReleaseKeeps ==
  ASSUME TypeOK, OwnershipInvariant, NEW s \in Session, OwnerRelease(s)
  PROVE  OwnershipInvariant'
  <1> USE DEF TypeOK, OwnershipInvariant, HandlesKnown, OwnerRelease, RunDrop, Destroys
  <1>1. HandlesKnown'
    OBVIOUS
  <1>2. ASSUME NEW t \in Session
        PROVE  HeldIsOpen(t)'
    BY <1>2 DEF HeldIsOpen, DestructorAlone, Closing, MutexHeld, Strong, Cancelling,
        Open, OwnerHolds, CancellerHolds
  <1>3. ASSUME NEW t \in Session
        PROVE  MutexHeld(t)'
    BY <1>3 DEF MutexHeld, HeldIsOpen, Cancelling, Strong, OwnerHolds, CancellerHolds
  <1>4. ASSUME NEW t \in Session
        PROVE  DestructorAlone(t)'
    BY <1>4 DEF DestructorAlone, HeldIsOpen, Closing, Strong, Cancelling, Open,
        OwnerHolds, CancellerHolds
  <1>5. ASSUME NEW t \in Session
        PROVE  EndedMeans(t)'
    BY <1>5 DEF EndedMeans, HeldIsOpen, DestructorAlone, Closing, Strong, Cancelling,
        Open, OwnerHolds, CancellerHolds
  <1>6. QED
    BY <1>1, <1>2, <1>3, <1>4, <1>5

LEMMA OwnerClosedKeeps ==
  ASSUME TypeOK, OwnershipInvariant, NEW s \in Session, NEW ok \in BOOLEAN, OwnerClosed(s, ok)
  PROVE  OwnershipInvariant'
  <1> USE DEF TypeOK, OwnershipInvariant, HandlesKnown, OwnerClosed, NativeEnd
  <1>1. HandlesKnown'
    OBVIOUS
  <1>2. ASSUME NEW t \in Session
        PROVE  HeldIsOpen(t)'
    BY <1>2 DEF HeldIsOpen, DestructorAlone, Closing, MutexHeld, Strong, Cancelling,
        Open, OwnerHolds, CancellerHolds
  <1>3. ASSUME NEW t \in Session
        PROVE  MutexHeld(t)'
    BY <1>3 DEF MutexHeld, HeldIsOpen, Cancelling
  <1>4. ASSUME NEW t \in Session
        PROVE  DestructorAlone(t)'
    BY <1>4 DEF DestructorAlone, HeldIsOpen, Closing, Strong, Cancelling, Open,
        OwnerHolds, CancellerHolds
  <1>5. ASSUME NEW t \in Session
        PROVE  EndedMeans(t)'
    BY <1>5 DEF EndedMeans, HeldIsOpen, DestructorAlone, Closing, Strong, Cancelling,
        Open, OwnerHolds, CancellerHolds
  <1>6. QED
    BY <1>1, <1>2, <1>3, <1>4, <1>5

LEMMA GiveHandleKeeps ==
  ASSUME TypeOK, OwnershipInvariant, NEW s \in Session, NEW c \in Thread, GiveHandle(s, c)
  PROVE  OwnershipInvariant'
  <1> USE DEF TypeOK, OwnershipInvariant, HandlesKnown, GiveHandle
  <1>1. HandlesKnown'
    OBVIOUS
  <1>2. ASSUME NEW t \in Session
        PROVE  HeldIsOpen(t)'
    BY <1>2 DEF HeldIsOpen, DestructorAlone, Closing, MutexHeld, Strong, Cancelling,
        Open, OwnerHolds, CancellerHolds
  <1>3. ASSUME NEW t \in Session
        PROVE  MutexHeld(t)'
    BY <1>3 DEF MutexHeld, HeldIsOpen, Cancelling
  <1>4. ASSUME NEW t \in Session
        PROVE  DestructorAlone(t)'
    BY <1>4 DEF DestructorAlone, HeldIsOpen, Closing, Strong, Cancelling, Open,
        OwnerHolds, CancellerHolds
  <1>5. ASSUME NEW t \in Session
        PROVE  EndedMeans(t)'
    BY <1>5 DEF EndedMeans, HeldIsOpen, DestructorAlone, Closing, Strong, Cancelling,
        Open, OwnerHolds, CancellerHolds
  <1>6. QED
    BY <1>1, <1>2, <1>3, <1>4, <1>5

LEMMA UpgradeKeeps ==
  ASSUME TypeOK, OwnershipInvariant, NEW c \in Thread, Upgrade(c)
  PROVE  OwnershipInvariant'
  <1> USE DEF TypeOK, OwnershipInvariant, HandlesKnown, Upgrade
  <1>1. HandlesKnown'
    OBVIOUS
  <1>2. ASSUME NEW t \in Session
        PROVE  HeldIsOpen(t)'
    BY <1>2 DEF HeldIsOpen, DestructorAlone, Closing, MutexHeld, Strong, Cancelling,
        Open, OwnerHolds, CancellerHolds
  <1>3. ASSUME NEW t \in Session
        PROVE  MutexHeld(t)'
    BY <1>3 DEF MutexHeld, HeldIsOpen, Cancelling
  <1>4. ASSUME NEW t \in Session
        PROVE  DestructorAlone(t)'
    BY <1>4 DEF DestructorAlone, HeldIsOpen, Closing, Strong, Cancelling, Open,
        OwnerHolds, CancellerHolds
  <1>5. ASSUME NEW t \in Session
        PROVE  EndedMeans(t)'
    BY <1>5 DEF EndedMeans, HeldIsOpen, DestructorAlone, Closing, Strong, Cancelling,
        Open, OwnerHolds, CancellerHolds
  <1>6. QED
    BY <1>1, <1>2, <1>3, <1>4, <1>5

LEMMA CancelLockKeeps ==
  ASSUME TypeOK, OwnershipInvariant, NEW c \in Thread, CancelLock(c)
  PROVE  OwnershipInvariant'
  <1> USE DEF TypeOK, OwnershipInvariant, HandlesKnown, CancelLock, Unlocked
  <1>1. HandlesKnown'
    OBVIOUS
  <1>2. ASSUME NEW t \in Session
        PROVE  HeldIsOpen(t)'
    BY <1>2 DEF HeldIsOpen, DestructorAlone, Closing, MutexHeld, Strong, Cancelling,
        Open, OwnerHolds, CancellerHolds
  <1>3. ASSUME NEW t \in Session
        PROVE  MutexHeld(t)'
    BY <1>3 DEF MutexHeld, HeldIsOpen, Cancelling
  <1>4. ASSUME NEW t \in Session
        PROVE  DestructorAlone(t)'
    BY <1>4 DEF DestructorAlone, HeldIsOpen, Closing, Strong, Cancelling, Open,
        OwnerHolds, CancellerHolds
  <1>5. ASSUME NEW t \in Session
        PROVE  EndedMeans(t)'
    BY <1>5 DEF EndedMeans, HeldIsOpen, DestructorAlone, Closing, Strong, Cancelling,
        Open, OwnerHolds, CancellerHolds
  <1>6. QED
    BY <1>1, <1>2, <1>3, <1>4, <1>5

LEMMA CancelReturnKeeps ==
  ASSUME TypeOK, OwnershipInvariant, NEW c \in Thread, NEW ok \in BOOLEAN, CancelReturn(c, ok)
  PROVE  OwnershipInvariant'
  <1> USE DEF TypeOK, OwnershipInvariant, HandlesKnown, CancelReturn
  <1>1. HandlesKnown'
    OBVIOUS
  <1>2. ASSUME NEW t \in Session
        PROVE  HeldIsOpen(t)'
    BY <1>2 DEF HeldIsOpen, DestructorAlone, Closing, MutexHeld, Strong, Cancelling,
        Open, OwnerHolds, CancellerHolds
  <1>3. ASSUME NEW t \in Session
        PROVE  MutexHeld(t)'
    BY <1>3 DEF MutexHeld, HeldIsOpen, Cancelling
  <1>4. ASSUME NEW t \in Session
        PROVE  DestructorAlone(t)'
    BY <1>4 DEF DestructorAlone, HeldIsOpen, Closing, Strong, Cancelling, Open,
        OwnerHolds, CancellerHolds
  <1>5. ASSUME NEW t \in Session
        PROVE  EndedMeans(t)'
    BY <1>5 DEF EndedMeans, HeldIsOpen, DestructorAlone, Closing, Strong, Cancelling,
        Open, OwnerHolds, CancellerHolds
  <1>6. QED
    BY <1>1, <1>2, <1>3, <1>4, <1>5

LEMMA CancellerReleaseKeeps ==
  ASSUME TypeOK, OwnershipInvariant, NEW c \in Thread, CancellerRelease(c)
  PROVE  OwnershipInvariant'
  <1> USE DEF TypeOK, OwnershipInvariant, HandlesKnown, CancellerRelease, RunDrop, Destroys
  <1>1. HandlesKnown'
    OBVIOUS
  <1>2. ASSUME NEW t \in Session
        PROVE  HeldIsOpen(t)'
    BY <1>2 DEF HeldIsOpen, DestructorAlone, Closing, MutexHeld, Strong, Cancelling,
        Open, OwnerHolds, CancellerHolds
  <1>3. ASSUME NEW t \in Session
        PROVE  MutexHeld(t)'
    BY <1>3 DEF MutexHeld, HeldIsOpen, Cancelling, Strong, OwnerHolds, CancellerHolds
  <1>4. ASSUME NEW t \in Session
        PROVE  DestructorAlone(t)'
    BY <1>4 DEF DestructorAlone, HeldIsOpen, Closing, Strong, Cancelling, Open,
        OwnerHolds, CancellerHolds
  <1>5. ASSUME NEW t \in Session
        PROVE  EndedMeans(t)'
    BY <1>5 DEF EndedMeans, HeldIsOpen, DestructorAlone, Closing, Strong, Cancelling,
        Open, OwnerHolds, CancellerHolds
  <1>6. QED
    BY <1>1, <1>2, <1>3, <1>4, <1>5

LEMMA CancellerClosedKeeps ==
  ASSUME TypeOK, OwnershipInvariant, NEW c \in Thread, NEW ok \in BOOLEAN, CancellerClosed(c, ok)
  PROVE  OwnershipInvariant'
  <1> USE DEF TypeOK, OwnershipInvariant, HandlesKnown, CancellerClosed, NativeEnd
  <1>1. HandlesKnown'
    OBVIOUS
  <1>2. ASSUME NEW t \in Session
        PROVE  HeldIsOpen(t)'
    BY <1>2 DEF HeldIsOpen, DestructorAlone, Closing, MutexHeld, Strong, Cancelling,
        Open, OwnerHolds, CancellerHolds
  <1>3. ASSUME NEW t \in Session
        PROVE  MutexHeld(t)'
    BY <1>3 DEF MutexHeld, HeldIsOpen, Cancelling
  <1>4. ASSUME NEW t \in Session
        PROVE  DestructorAlone(t)'
    BY <1>4 DEF DestructorAlone, HeldIsOpen, Closing, Strong, Cancelling, Open,
        OwnerHolds, CancellerHolds
  <1>5. ASSUME NEW t \in Session
        PROVE  EndedMeans(t)'
    BY <1>5 DEF EndedMeans, HeldIsOpen, DestructorAlone, Closing, Strong, Cancelling,
        Open, OwnerHolds, CancellerHolds
  <1>6. QED
    BY <1>1, <1>2, <1>3, <1>4, <1>5

LEMMA OwnershipStep ==
  ASSUME TypeOK, OwnershipInvariant, [Next]_vars
  PROVE  OwnershipInvariant'
  <1>1. ASSUME NEW s \in Session, OwnerStep(s)
        PROVE  OwnershipInvariant'
    BY <1>1, StartKeeps, StartRefusedKeeps, OwnerMoveKeeps, EndLockKeeps,
        EndReturnKeeps, OwnerReleaseKeeps, OwnerClosedKeeps DEF OwnerStep
  <1>2. ASSUME NEW s \in Session, NEW c \in Thread, GiveHandle(s, c)
        PROVE  OwnershipInvariant'
    BY <1>2, GiveHandleKeeps
  <1>3. ASSUME NEW c \in Thread, CancellerStep(c)
        PROVE  OwnershipInvariant'
    BY <1>3, UpgradeKeeps, CancelLockKeeps, CancelReturnKeeps, CancellerReleaseKeeps,
        CancellerClosedKeeps DEF CancellerStep
  <1>4. CASE UNCHANGED vars \/ Terminated
    BY <1>4 DEF vars, Terminated, OwnershipInvariant, HandlesKnown, HeldIsOpen,
        MutexHeld, DestructorAlone, EndedMeans, Closing, Strong, Cancelling, Open
  <1>5. QED
    BY <1>1, <1>2, <1>3, <1>4 DEF Next

----------------------------------------------------------------------------
(***************************************************************************)
(* The theorems.                                                           *)
(***************************************************************************)

\* Every variable keeps its type, and the ownership invariant holds, in every
\* behaviour of the session handles (sys.rs:101-380), whatever the number of
\* sessions, cancelling threads and native table entries.
THEOREM OwnershipInvariantHolds == Spec => [](TypeOK /\ OwnershipInvariant)
  <1>1. Init => TypeOK /\ OwnershipInvariant
    BY InitTypeOK, InitOwnership
  <1>2. TypeOK /\ OwnershipInvariant /\ [Next]_vars => TypeOK' /\ OwnershipInvariant'
    BY TypeStep, OwnershipStep
  <1>3. QED
    BY <1>1, <1>2, PTL DEF Spec

\* The types alone, the statement that the runs check.
THEOREM TypeCorrect == Spec => []TypeOK
  BY OwnershipInvariantHolds, PTL

\* No native call is made on a released raw value: cancel(), end() and the
\* destructor never race into a use after RmEndSession (sys.rs:340-380).
THEOREM NativeCallsSafe == Spec => []NativeCallsOwnSession
  <1>1. TypeOK /\ OwnershipInvariant => NativeCallsOwnSession
    <2> SUFFICES ASSUME TypeOK, OwnershipInvariant, NEW s \in Session, InNative(s)
                 PROVE  Open(s)
      BY DEF NativeCallsOwnSession
    <2>1. CASE owner[s] \in {"operating", "ending"}
      BY <2>1 DEF OwnershipInvariant, HeldIsOpen, Strong, OwnerHolds
    <2>2. CASE Cancelling(s, {"calling"}) # {}
      <3>1. Strong(s) # {}
        BY <2>2 DEF Strong, Cancelling, CancellerHolds
      <3>2. QED
        BY <2>2, <3>1 DEF OwnershipInvariant, MutexHeld, HeldIsOpen
    <2>3. CASE owner[s] = "closing" \/ Cancelling(s, {"closing"}) # {}
      BY <2>3 DEF OwnershipInvariant, DestructorAlone, Closing
    <2>4. QED
      BY <2>1, <2>2, <2>3 DEF InNative, Cancelling
  <1>2. QED
    BY <1>1, OwnershipInvariantHolds, PTL

\* A session that nobody references and nobody is destroying has left the native
\* table, unless its destructor tried and Windows refused (sys.rs:368, session.rs:227).
THEOREM NoLeakBeforeDrop == Spec => []LeakOnlyIfDropFailed
  <1>1. TypeOK /\ OwnershipInvariant => LeakOnlyIfDropFailed
    <2> SUFFICES ASSUME TypeOK, OwnershipInvariant, NEW s \in Session, Disposed(s), Open(s)
                 PROVE  dropCalls[s] = 1
      BY DEF LeakOnlyIfDropFailed
    <2>1. Strong(s) = {}
      BY DEF Disposed, Strong, Cancelling, CancellerPC, CancellerHolds, OwnerHolds
    <2>2. ended[s] /\ dropCalls[s] # 0
      BY <2>1 DEF OwnershipInvariant, EndedMeans
    <2>3. QED
      BY <2>2 DEF TypeOK
  <1>2. QED
    BY <1>1, OwnershipInvariantHolds, PTL
=============================================================================
