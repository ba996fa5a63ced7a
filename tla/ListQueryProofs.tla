-------------------------- MODULE ListQueryProofs --------------------------
(***************************************************************************)
(* Proofs about ListQuery, for any retry budget: a report is a snapshot,   *)
(* and a query that gives up had a reason to.                              *)
(*                                                                         *)
(* GrowthInvariant is what makes the second one inductive: it counts, for  *)
(* every turn of the loop, a version of the list that went by.             *)
(***************************************************************************)
EXTENDS ListQuery, TLAPS

Invariant == TypeOK /\ GrowthInvariant /\ ReportIsSnapshot /\ DataChangedHonest

LEMMA InitInvariant == Init => Invariant
BY QueryAssumption DEF Init, Invariant, TypeOK, GrowthInvariant, ReportIsSnapshot,
    DataChangedHonest, Version, Result

\* The system changes: versions only grow, and the query is not touched.
LEMMA ChangeKeeps ==
    ASSUME Invariant, NEW n \in 0 .. MaxSize, Change(n)
    PROVE  Invariant'
<1>1. TypeOK'
    BY QueryAssumption DEF Invariant, TypeOK, Change, Version
<1>2. GrowthInvariant'
    BY QueryAssumption DEF Invariant, TypeOK, GrowthInvariant, Change, Version
<1>3. ReportIsSnapshot' /\ DataChangedHonest'
    BY QueryAssumption DEF Invariant, TypeOK, ReportIsSnapshot, DataChangedHonest,
        Change, Version
<1> QED BY <1>1, <1>2, <1>3 DEF Invariant

LEMMA CallKeeps == Invariant /\ Call => Invariant'
<1> SUFFICES ASSUME Invariant, Call PROVE Invariant'
    OBVIOUS
<1>1. TypeOK'
    BY QueryAssumption DEF Invariant, TypeOK, Call, Version, Result
<1>2. GrowthInvariant'
    BY QueryAssumption DEF Invariant, TypeOK, GrowthInvariant, Call, Version
<1>3. ReportIsSnapshot' /\ DataChangedHonest'
    BY QueryAssumption DEF ReportIsSnapshot, DataChangedHonest, Call
<1> QED BY <1>1, <1>2, <1>3 DEF Invariant

LEMMA ProbeKeeps == Invariant /\ Probe => Invariant'
<1> SUFFICES ASSUME Invariant, Probe PROVE Invariant'
    OBVIOUS
<1>1. TypeOK'
    BY QueryAssumption DEF Invariant, TypeOK, GrowthInvariant, Probe, NativeCall,
        Report, Fail, Version, Result
<1>2. GrowthInvariant'
    BY QueryAssumption DEF Invariant, TypeOK, GrowthInvariant, Probe, NativeCall,
        Report, Fail, Version
<1>3. ReportIsSnapshot' /\ DataChangedHonest'
    BY QueryAssumption DEF Invariant, GrowthInvariant, ReportIsSnapshot,
        DataChangedHonest, Probe, Report, Fail
<1> QED BY <1>1, <1>2, <1>3 DEF Invariant

\* Giving up: as many versions went by as turns were taken.
LEMMA AllocateKeeps == Invariant /\ Allocate => Invariant'
<1> SUFFICES ASSUME Invariant, Allocate PROVE Invariant'
    OBVIOUS
<1>1. TypeOK'
    BY QueryAssumption DEF Invariant, TypeOK, Allocate, Fail, Result
<1>2. GrowthInvariant'
    BY QueryAssumption DEF Invariant, TypeOK, GrowthInvariant, Allocate, Fail, Version
<1>3. ReportIsSnapshot' /\ DataChangedHonest'
    BY QueryAssumption DEF Invariant, TypeOK, GrowthInvariant, ReportIsSnapshot,
        DataChangedHonest, Allocate, Fail, Version
<1> QED BY <1>1, <1>2, <1>3 DEF Invariant

\* One more turn: the list outgrew the size it had when it was last asked, so that it
\* has another version.
LEMMA ReadMoreKeeps == Invariant /\ ReadMore => Invariant'
<1> SUFFICES ASSUME Invariant, ReadMore PROVE Invariant'
    OBVIOUS
<1>1. version > asked
    BY QueryAssumption DEF Invariant, TypeOK, GrowthInvariant, ReadMore, Version
<1>2. TypeOK'
    BY QueryAssumption DEF Invariant, TypeOK, GrowthInvariant, ReadMore, NativeCall,
        Version
<1>3. GrowthInvariant'
    BY <1>1, QueryAssumption DEF Invariant, TypeOK, GrowthInvariant, ReadMore,
        NativeCall, Version
<1>4. ReportIsSnapshot' /\ DataChangedHonest'
    BY QueryAssumption DEF Invariant, ReportIsSnapshot, DataChangedHonest, ReadMore
<1> QED BY <1>2, <1>3, <1>4 DEF Invariant

\* The query is answered: by one call, and so of one version.
LEMMA ReadKeeps == Invariant /\ (Read \/ ReadFails) => Invariant'
<1> SUFFICES ASSUME Invariant, Read \/ ReadFails PROVE Invariant'
    OBVIOUS
<1>1. TypeOK'
    BY QueryAssumption DEF Invariant, TypeOK, GrowthInvariant, Read, ReadFails,
        NativeCall, Report, Fail, Version, Result
<1>2. GrowthInvariant'
    BY QueryAssumption DEF Invariant, GrowthInvariant, Read, ReadFails, Report, Fail
<1>3. ReportIsSnapshot' /\ DataChangedHonest'
    BY QueryAssumption DEF Invariant, GrowthInvariant, ReportIsSnapshot,
        DataChangedHonest, Read, ReadFails, Report, Fail
<1> QED BY <1>1, <1>2, <1>3 DEF Invariant

THEOREM QueryInvariant == Spec => []Invariant
<1>1. Invariant /\ [Next]_vars => Invariant'
    <2>1. ASSUME Invariant, UNCHANGED vars PROVE Invariant'
        BY <2>1 DEF Invariant, TypeOK, GrowthInvariant, ReportIsSnapshot,
            DataChangedHonest, vars
    <2> QED
        BY <2>1, ChangeKeeps, CallKeeps, ProbeKeeps, AllocateKeeps, ReadMoreKeeps,
            ReadKeeps
        DEF Next
<1> QED BY <1>1, InitInvariant, PTL DEF Spec

\* Rows and reboot reasons of a report are of one instant of the query (sys.rs:184).
THEOREM ReportIsSnapshotHolds == Spec => []ReportIsSnapshot
BY QueryInvariant, PTL DEF Invariant

\* A query only says that the list kept changing where it did, for any budget of
\* retries (sys.rs:250).
THEOREM DataChangedIsHonest == Spec => []DataChangedHonest
BY QueryInvariant, PTL DEF Invariant

\* Every query makes at most one call more than its budget (sys.rs:209).
THEOREM QueryTypeCorrect == Spec => []TypeOK
BY QueryInvariant, PTL DEF Invariant
=============================================================================
