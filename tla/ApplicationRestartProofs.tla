---------------------- MODULE ApplicationRestartProofs ----------------------
(***************************************************************************)
(* Proofs about ApplicationRestart, for any threads and any options: the   *)
(* lease is exclusive, and a held registration is the one Windows has.     *)
(***************************************************************************)
EXTENDS ApplicationRestart, TLAPS

Invariant == TypeOK /\ RegistrationInvariant

USE RestartAssumption

----------------------------------------------------------------------------
\* native_flags is faithful: from the flags Windows has, each reason can be read back.
LEMMA FlagsFaithful ==
    ASSUME NEW o \in Options, NEW r \in Reason
    PROVE  /\ NativeFlags(o) \in 0 .. 15
           /\ (NativeFlags(o) \div Bit[r]) % 2 = 0 <=> r \in o.reasons
<1> DEFINE c == Flag(o, "crash")
           h == Flag(o, "hang")
           u == Flag(o, "update")
           b == Flag(o, "reboot")
<1>1. /\ Bit["crash"] = 1 /\ Bit["hang"] = 2 /\ Bit["update"] = 4 /\ Bit["reboot"] = 8
    BY DEF Bit
<1>2. /\ c = IF "crash" \in o.reasons THEN 0 ELSE 1
      /\ h = IF "hang" \in o.reasons THEN 0 ELSE 2
      /\ u = IF "update" \in o.reasons THEN 0 ELSE 4
      /\ b = IF "reboot" \in o.reasons THEN 0 ELSE 8
    BY <1>1 DEF Flag
<1>3. NativeFlags(o) = c + h + u + b
    BY DEF NativeFlags
<1> HIDE DEF c, h, u, b
<1>4. NativeFlags(o) \in 0 .. 15
    BY <1>2, <1>3
<1>5. CASE r = "crash"
    BY <1>1, <1>2, <1>3, <1>5
<1>6. CASE r = "hang"
    BY <1>1, <1>2, <1>3, <1>6
<1>7. CASE r = "update"
    BY <1>1, <1>2, <1>3, <1>7
<1>8. CASE r = "reboot"
    BY <1>1, <1>2, <1>3, <1>8
<1> QED BY <1>4, <1>5, <1>6, <1>7, <1>8 DEF Reason

\* What is registered is typed, and is not nothing.
LEMMA RegisteredTyped ==
    ASSUME NEW o \in Options
    PROVE  /\ Registered(o) # None
           /\ \E p \in Options : /\ Registered(o).arguments = p.arguments
                                 /\ Registered(o).flags \in 0 .. 15
<1>1. NativeFlags(o) \in 0 .. 15
    BY FlagsFaithful DEF Reason
<1> QED BY <1>1 DEF Registered

LEMMA InitInvariant == Init => Invariant
BY DEF Init, Invariant, TypeOK, RegistrationInvariant, LeaseExclusive, Clean,
    NativeFollows, Owning

----------------------------------------------------------------------------
(***************************************************************************)
(* Every action keeps the invariant.                                       *)
(***************************************************************************)

LEMMA RegisterKeeps ==
    ASSUME Invariant, NEW t \in Thread, NEW o \in Options, Register(t, o)
    PROVE  Invariant'
<1>1. TypeOK'
    BY DEF Invariant, RegistrationInvariant, NativeFollows, TypeOK, Register, Goto,
        Owning
<1>2. LeaseExclusive'
    BY DEF Invariant, RegistrationInvariant, TypeOK, LeaseExclusive, Register, Goto,
        Owning
<1>3. (~owned => Clean)'
    BY DEF Invariant, RegistrationInvariant, TypeOK, LeaseExclusive, NativeFollows,
        Clean, Register, Goto, Owning
<1>4. ASSUME NEW u \in Thread PROVE NativeFollows(u)'
    BY DEF Invariant, RegistrationInvariant, TypeOK, LeaseExclusive, NativeFollows,
        Clean, Register, Goto, Owning
<1> QED BY <1>1, <1>2, <1>3, <1>4 DEF Invariant, RegistrationInvariant

\* The lease is t's, so that no other thread relied on what is overwritten.
LEMMA RegisterReturnKeeps ==
    ASSUME Invariant, NEW t \in Thread, NEW ok \in BOOLEAN, RegisterReturn(t, ok)
    PROVE  Invariant'
<1>1. TypeOK'
    BY RegisteredTyped DEF Invariant, RegistrationInvariant, NativeFollows, TypeOK,
        RegisterReturn, Goto, NativeRegister, Owning
<1>2. LeaseExclusive'
    BY DEF Invariant, RegistrationInvariant, TypeOK, LeaseExclusive, RegisterReturn,
        Goto, NativeRegister, Owning
<1>3. (~owned => Clean)'
    BY DEF Invariant, RegistrationInvariant, TypeOK, LeaseExclusive, NativeFollows,
        Clean, RegisterReturn, Goto, NativeRegister, Owning
<1>4. ASSUME NEW u \in Thread PROVE NativeFollows(u)'
    BY DEF Invariant, RegistrationInvariant, TypeOK, LeaseExclusive, NativeFollows,
        Clean, RegisterReturn, Goto, NativeRegister, Owning
<1> QED BY <1>1, <1>2, <1>3, <1>4 DEF Invariant, RegistrationInvariant

LEMMA GiveUpKeeps ==
    ASSUME Invariant, NEW t \in Thread, GiveUp(t)
    PROVE  Invariant'
<1>1. TypeOK'
    BY DEF Invariant, RegistrationInvariant, NativeFollows, TypeOK, GiveUp, Goto,
        Owning
<1>2. LeaseExclusive'
    BY DEF Invariant, RegistrationInvariant, TypeOK, LeaseExclusive, GiveUp, Goto,
        Owning
<1>3. (~owned => Clean)'
    BY DEF Invariant, RegistrationInvariant, TypeOK, LeaseExclusive, NativeFollows,
        Clean, GiveUp, Goto, Owning
<1>4. ASSUME NEW u \in Thread PROVE NativeFollows(u)'
    BY DEF Invariant, RegistrationInvariant, TypeOK, LeaseExclusive, NativeFollows,
        Clean, GiveUp, Goto, Owning
<1> QED BY <1>1, <1>2, <1>3, <1>4 DEF Invariant, RegistrationInvariant

LEMMA UpdateKeeps ==
    ASSUME Invariant, NEW t \in Thread, NEW o \in Options, Update(t, o)
    PROVE  Invariant'
<1>1. TypeOK'
    BY DEF Invariant, RegistrationInvariant, NativeFollows, TypeOK, Update, Goto,
        Owning
<1>2. LeaseExclusive'
    BY DEF Invariant, RegistrationInvariant, TypeOK, LeaseExclusive, Update, Goto,
        Owning
<1>3. (~owned => Clean)'
    BY DEF Invariant, RegistrationInvariant, TypeOK, LeaseExclusive, NativeFollows,
        Clean, Update, Goto, Owning
<1>4. ASSUME NEW u \in Thread PROVE NativeFollows(u)'
    BY DEF Invariant, RegistrationInvariant, TypeOK, LeaseExclusive, NativeFollows,
        Clean, Update, Goto, Owning
<1> QED BY <1>1, <1>2, <1>3, <1>4 DEF Invariant, RegistrationInvariant

LEMMA UpdateReturnKeeps ==
    ASSUME Invariant, NEW t \in Thread, NEW ok \in BOOLEAN, UpdateReturn(t, ok)
    PROVE  Invariant'
<1>1. TypeOK'
    BY RegisteredTyped DEF Invariant, RegistrationInvariant, NativeFollows, TypeOK,
        UpdateReturn, Goto, NativeRegister, Owning
<1>2. LeaseExclusive'
    BY DEF Invariant, RegistrationInvariant, TypeOK, LeaseExclusive, UpdateReturn,
        Goto, NativeRegister, Owning
<1>3. (~owned => Clean)'
    BY DEF Invariant, RegistrationInvariant, TypeOK, LeaseExclusive, NativeFollows,
        Clean, UpdateReturn, Goto, NativeRegister, Owning
<1>4. ASSUME NEW u \in Thread PROVE NativeFollows(u)'
    BY DEF Invariant, RegistrationInvariant, TypeOK, LeaseExclusive, NativeFollows,
        Clean, UpdateReturn, Goto, NativeRegister, Owning
<1> QED BY <1>1, <1>2, <1>3, <1>4 DEF Invariant, RegistrationInvariant

LEMMA UnregisterKeeps ==
    ASSUME Invariant, NEW t \in Thread, Unregister(t)
    PROVE  Invariant'
<1>1. TypeOK'
    BY DEF Invariant, RegistrationInvariant, NativeFollows, TypeOK, Unregister, Goto,
        Owning
<1>2. LeaseExclusive'
    BY DEF Invariant, RegistrationInvariant, TypeOK, LeaseExclusive, Unregister, Goto,
        Owning
<1>3. (~owned => Clean)'
    BY DEF Invariant, RegistrationInvariant, TypeOK, LeaseExclusive, NativeFollows,
        Clean, Unregister, Goto, Owning
<1>4. ASSUME NEW u \in Thread PROVE NativeFollows(u)'
    BY DEF Invariant, RegistrationInvariant, TypeOK, LeaseExclusive, NativeFollows,
        Clean, Unregister, Goto, Owning
<1> QED BY <1>1, <1>2, <1>3, <1>4 DEF Invariant, RegistrationInvariant

LEMMA UnregisterReturnKeeps ==
    ASSUME Invariant, NEW t \in Thread, NEW ok \in BOOLEAN, UnregisterReturn(t, ok)
    PROVE  Invariant'
<1>1. TypeOK'
    BY DEF Invariant, RegistrationInvariant, NativeFollows, TypeOK, UnregisterReturn,
        Goto, NativeUnregister, Owning
<1>2. LeaseExclusive'
    BY DEF Invariant, RegistrationInvariant, TypeOK, LeaseExclusive, UnregisterReturn,
        Goto, NativeUnregister, Owning
<1>3. (~owned => Clean)'
    BY DEF Invariant, RegistrationInvariant, TypeOK, LeaseExclusive, NativeFollows,
        Clean, UnregisterReturn, Goto, NativeUnregister, Owning
<1>4. ASSUME NEW u \in Thread PROVE NativeFollows(u)'
    BY DEF Invariant, RegistrationInvariant, TypeOK, LeaseExclusive, NativeFollows,
        Clean, UnregisterReturn, Goto, NativeUnregister, Owning
<1> QED BY <1>1, <1>2, <1>3, <1>4 DEF Invariant, RegistrationInvariant

LEMMA DropKeeps ==
    ASSUME Invariant, NEW t \in Thread, Drop(t)
    PROVE  Invariant'
<1>1. TypeOK'
    BY DEF Invariant, RegistrationInvariant, NativeFollows, TypeOK, Drop, Goto, Owning
<1>2. LeaseExclusive'
    BY DEF Invariant, RegistrationInvariant, TypeOK, LeaseExclusive, Drop, Goto,
        Owning
<1>3. (~owned => Clean)'
    BY DEF Invariant, RegistrationInvariant, TypeOK, LeaseExclusive, NativeFollows,
        Clean, Drop, Goto, Owning
<1>4. ASSUME NEW u \in Thread PROVE NativeFollows(u)'
    BY DEF Invariant, RegistrationInvariant, TypeOK, LeaseExclusive, NativeFollows,
        Clean, Drop, Goto, Owning
<1> QED BY <1>1, <1>2, <1>3, <1>4 DEF Invariant, RegistrationInvariant

\* Afterwards nothing is registered, or the destructor was refused.
LEMMA DropReturnKeeps ==
    ASSUME Invariant, NEW t \in Thread, NEW ok \in BOOLEAN, DropReturn(t, ok)
    PROVE  Invariant'
<1>1. TypeOK'
    BY DEF Invariant, RegistrationInvariant, NativeFollows, TypeOK, DropReturn, Goto,
        NativeUnregister, Owning
<1>2. LeaseExclusive'
    BY DEF Invariant, RegistrationInvariant, TypeOK, LeaseExclusive, DropReturn, Goto,
        NativeUnregister, Owning
<1>3. (~owned => Clean)'
    BY DEF Invariant, RegistrationInvariant, TypeOK, LeaseExclusive, NativeFollows,
        Clean, DropReturn, Goto, NativeUnregister, Owning
<1>4. ASSUME NEW u \in Thread PROVE NativeFollows(u)'
    BY DEF Invariant, RegistrationInvariant, TypeOK, LeaseExclusive, NativeFollows,
        Clean, DropReturn, Goto, NativeUnregister, Owning
<1> QED BY <1>1, <1>2, <1>3, <1>4 DEF Invariant, RegistrationInvariant

LEMMA DisarmKeeps ==
    ASSUME Invariant, NEW t \in Thread, Disarm(t)
    PROVE  Invariant'
<1>1. TypeOK'
    BY DEF Invariant, RegistrationInvariant, NativeFollows, TypeOK, Disarm, Goto,
        Owning
<1>2. LeaseExclusive'
    BY DEF Invariant, RegistrationInvariant, TypeOK, LeaseExclusive, Disarm, Goto,
        Owning
<1>3. (~owned => Clean)'
    BY DEF Invariant, RegistrationInvariant, TypeOK, LeaseExclusive, NativeFollows,
        Clean, Disarm, Goto, Owning
<1>4. ASSUME NEW u \in Thread PROVE NativeFollows(u)'
    BY DEF Invariant, RegistrationInvariant, TypeOK, LeaseExclusive, NativeFollows,
        Clean, Disarm, Goto, Owning
<1> QED BY <1>1, <1>2, <1>3, <1>4 DEF Invariant, RegistrationInvariant

LEMMA StepKeeps == Invariant /\ [Next]_vars => Invariant'
<1>1. ASSUME Invariant, NEW t \in Thread, Step(t) PROVE Invariant'
    BY <1>1, RegisterKeeps, RegisterReturnKeeps, GiveUpKeeps, UpdateKeeps,
        UpdateReturnKeeps, UnregisterKeeps, UnregisterReturnKeeps, DropKeeps,
        DropReturnKeeps, DisarmKeeps DEF Step
<1>2. ASSUME Invariant, UNCHANGED vars PROVE Invariant'
    BY <1>2 DEF vars, Invariant, TypeOK, RegistrationInvariant, LeaseExclusive, Clean,
        NativeFollows
<1> QED BY <1>1, <1>2 DEF Next

----------------------------------------------------------------------------
(***************************************************************************)
(* The invariants.                                                         *)
(***************************************************************************)

THEOREM RegistrationInvariantHolds == Spec => []Invariant
BY InitInvariant, StepKeeps, PTL DEF Spec

\* The flag of the process is up exactly while one thread is between taking and
\* giving back the lease (application_restart.rs:12, :147, :194).
THEOREM LeaseIsExclusive == Spec => []LeaseExclusive
BY RegistrationInvariantHolds, PTL DEF Invariant, RegistrationInvariant

\* A held registration is what Windows has: its arguments, and the reasons read back
\* from its flags (application_restart.rs:121, :172, :200).
THEOREM HeldIsRegisteredHolds == Spec => []HeldIsRegistered
<1>1. Invariant => HeldIsRegistered
    <2> SUFFICES ASSUME Invariant, NEW t \in Thread, at[t] = "held"
                 PROVE  /\ native # None
                        /\ native.arguments = held[t].arguments
                        /\ \A r \in Reason : Restarts(r) <=> r \in held[t].reasons
        BY DEF HeldIsRegistered
    <2>1. held[t] \in Options /\ native = Registered(held[t])
        BY DEF Invariant, RegistrationInvariant, NativeFollows
    <2>2. native # None /\ native.arguments = held[t].arguments
        BY <2>1, RegisteredTyped DEF Registered
    <2>3. native.flags = NativeFlags(held[t])
        BY <2>1 DEF Registered
    <2> QED BY <2>1, <2>2, <2>3, FlagsFaithful DEF Restarts
<1> QED BY <1>1, RegistrationInvariantHolds, PTL

\* A free lease means that nothing is registered, short of a destructor that Windows
\* refused (application_restart.rs:184).
THEOREM NothingIsLeftBehind == Spec => []NothingLeftBehind
<1>1. Invariant => NothingLeftBehind
    BY DEF Invariant, RegistrationInvariant, Clean, NothingLeftBehind
<1> QED BY <1>1, RegistrationInvariantHolds, PTL
=============================================================================
