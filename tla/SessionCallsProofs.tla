------------------------- MODULE SessionCallsProofs -------------------------
(***************************************************************************)
(* What the calls on a session guarantee for every width of a word, every  *)
(* number of files, processes, services and filters, and every code.       *)
(***************************************************************************)
EXTENDS SessionCalls, TLAPS

LEMMA WordIs == Word \in Nat /\ Word > 2
  BY ConversionAssumption

LEMMA StringsApart ==
  /\ Bad \notin Name /\ Bad \notin Dir \X Name
  /\ \A path \in Dir \X Name : path \notin Name
  BY ConversionAssumption

-----------------------------------------------------------------------------
(***************************************************************************)
(* Words.                                                                  *)
(***************************************************************************)
LEMMA WordStep ==
  ASSUME NEW w \in Nat, w > 0, NEW a \in Int, NEW b \in Int, a < b
  PROVE  w * a + w <= w * b
  <1>1. w * (b - a - 1) >= 0
    OBVIOUS
  <1>2. w * (b - a - 1) = w * b - w * a - w
    OBVIOUS
  <1>3. w * b \in Int /\ w * a \in Int
    OBVIOUS
  <1>4. QED
    BY <1>1, <1>2, <1>3

LEMMA WordsUnique ==
  ASSUME NEW w \in Nat, w > 0, NEW a \in Int, NEW b \in Int,
         NEW r \in 0 .. w - 1, NEW q \in 0 .. w - 1, w * a + r = w * b + q
  PROVE  a = b /\ r = q
  <1>1. w * a \in Int /\ w * b \in Int
    OBVIOUS
  <1>2. CASE a < b
    <2>1. w * a + w <= w * b
      BY <1>2, WordStep
    <2>2. QED
      BY <1>1, <2>1
  <1>3. CASE b < a
    <2>1. w * b + w <= w * a
      BY <1>3, WordStep
    <2>2. QED
      BY <1>1, <2>1
  <1>4. QED
    BY <1>1, <1>2, <1>3

LEMMA WordsOf ==
  ASSUME NEW w \in Nat, w > 0, NEW n \in Nat
  PROVE  n % w \in 0 .. w - 1 /\ n \div w \in Int /\ n = w * (n \div w) + (n % w)
  <1>1. n % w \in 0 .. w - 1
    OBVIOUS
  <1>2. n \div w \in Int
    OBVIOUS
  <1>3. n = w * (n \div w) + (n % w)
    OBVIOUS
  <1>4. QED
    BY <1>1, <1>2, <1>3

\* A FILETIME is a 64-bit number and back.
LEMMA TimeOfWords ==
  ASSUME NEW low \in U32, NEW high \in U32
  PROVE  LET n == high * Word + low IN
         n \in U64 /\ n % Word = low /\ n \div Word = high
  <1> DEFINE n == high * Word + low
  <1> USE WordIs
  <1>1. n = Word * high + low /\ Word * high \in Nat
    BY DEF U32
  <1>2. n \in Nat
    BY <1>1 DEF U32
  <1>3. Word * high + Word <= Word * Word
    BY WordStep DEF U32
  <1>4. n \in U64
    BY <1>1, <1>2, <1>3 DEF U64, U32
  <1> HIDE DEF n
  <1>5. n % Word \in 0 .. Word - 1 /\ n \div Word \in Int /\ n = Word * (n \div Word) + (n % Word)
    BY <1>2, WordsOf
  <1>6. n \div Word = high /\ n % Word = low
    BY <1>1, <1>5, WordsUnique DEF U32
  <1>7. QED
    BY <1>4, <1>6 DEF n

LEMMA TimeOfFileTime ==
  ASSUME NEW t \in FileTime
  PROVE  FromFileTime(t) \in U64 /\ ToFileTime(FromFileTime(t)) = t
  <1>1. PICK low \in U32, high \in U32 : t = [low |-> low, high |-> high]
    BY DEF FileTime
  <1>2. FromFileTime(t) = high * Word + low
    BY <1>1 DEF FromFileTime
  <1>3. FromFileTime(t) \in U64 /\ FromFileTime(t) % Word = low /\ FromFileTime(t) \div Word = high
    BY <1>2, TimeOfWords
  <1>4. QED
    BY <1>1, <1>3 DEF ToFileTime

LEMMA WordsOfTime ==
  ASSUME NEW n \in U64
  PROVE  n % Word \in U32 /\ n \div Word \in U32 /\ (n \div Word) * Word + (n % Word) = n
  <1> USE WordIs
  <1> DEFINE high == n \div Word
             low == n % Word
  <1>1. n \in Nat /\ n < Word * Word
    BY DEF U64
  <1>2. low \in 0 .. Word - 1 /\ high \in Int /\ n = Word * high + low
    BY <1>1, WordsOf
  <1> HIDE DEF high, low
  <1>3. Word * high \in Int /\ Word * high = high * Word
    BY <1>2
  <1>4. high >= 0
    <2>1. CASE high < 0
      <3>1. Word * high + Word <= Word * 0 /\ Word * 0 = 0
        BY <1>2, <2>1, WordStep
      <3>2. QED
        BY <1>1, <1>2, <1>3, <3>1
    <2>2. QED
      BY <1>2, <2>1
  <1>5. high < Word
    <2>1. CASE Word <= high
      <3>1. Word * (high - Word) >= 0 /\ Word * (high - Word) = Word * high - Word * Word
        BY <1>2, <2>1
      <3>2. Word * Word \in Nat
        OBVIOUS
      <3>3. QED
        BY <1>1, <1>2, <1>3, <3>1, <3>2
    <2>2. QED
      BY <1>2, <2>1
  <1>6. QED
    BY <1>2, <1>3, <1>4, <1>5 DEF high, low, U32

LEMMA FileTimeOfTime ==
  ASSUME NEW n \in U64
  PROVE  ToFileTime(n) \in FileTime /\ FromFileTime(ToFileTime(n)) = n
  BY WordsOfTime DEF ToFileTime, FromFileTime, FileTime

\* A native record is an identity and back, if its number names a process.
LEMMA IdentityOfNative ==
  ASSUME NEW p \in NativeProcess
  PROVE  /\ ToNative(FromNative(p)) = p
         /\ Names(p.pid) => FromNative(p) \in ProcessIdentity
  <1>1. p = [pid |-> p.pid, start |-> p.start] /\ p.pid \in U32 /\ p.start \in FileTime
    BY DEF NativeProcess
  <1>2. QED
    BY <1>1, TimeOfFileTime DEF FromNative, ToNative, ProcessIdentity

LEMMA NativeOfIdentity ==
  ASSUME NEW p \in ProcessIdentity
  PROVE  FromNative(ToNative(p)) = p
  <1>1. p = [pid |-> p.pid, start |-> p.start] /\ p.start \in U64
    BY DEF ProcessIdentity
  <1>2. QED
    BY <1>1, FileTimeOfTime DEF FromNative, ToNative

-----------------------------------------------------------------------------
(***************************************************************************)
(* Filters.                                                                *)
(***************************************************************************)
TargetValue ==
    {Executable(path) : path \in Dir \X Name} \cup {Process(p) : p \in ProcessIdentity}
    \cup {Service(name) : name \in Name}

\* Targets and actions survive the way to Windows and back.
LEMMA FilterBack ==
  ASSUME NEW t \in TargetValue, NEW a \in FilterAction
  PROVE  FilterFromRaw([target |-> RawTarget(t), action |-> RawAction(a)])
            = [target |-> t, action |-> a]
  <1>1. CASE \E path \in Dir \X Name : t = Executable(path)
    BY <1>1 DEF Executable, FilterAction, FilterFromRaw, RawTarget, RawAction
  <1>2. CASE \E p \in ProcessIdentity : t = Process(p)
    <2>1. PICK p \in ProcessIdentity : t = Process(p)
      BY <1>2
    <2>2. RawTarget(t) = Process(ToNative(p))
      BY <2>1 DEF Process, RawTarget
    <2>3. QED
      BY <2>1, <2>2, NativeOfIdentity DEF Process, FilterAction, FilterFromRaw, RawAction
  <1>3. CASE \E name \in Name : t = Service(name)
    BY <1>3 DEF Service, FilterAction, FilterFromRaw, RawTarget, RawAction
  <1>4. QED
    BY <1>1, <1>2, <1>3 DEF TargetValue

LEMMA RawTargetUnique ==
  ASSUME NEW t \in TargetValue, NEW u \in TargetValue, RawTarget(t) = RawTarget(u)
  PROVE  t = u
  <1>1. "PreventRestart" \in FilterAction
    BY DEF FilterAction
  <1>2. [target |-> t, action |-> "PreventRestart"] = [target |-> u, action |-> "PreventRestart"]
    BY <1>1, FilterBack
  <1>3. QED
    BY <1>2

-----------------------------------------------------------------------------
(***************************************************************************)
(* Errors.                                                                 *)
(***************************************************************************)
\* The codes that Windows supplies.
Supplied == Code \cup {"MORE_DATA"}

OsKinds == {"SessionLimit", "Cancelled", "AccessDenied", "InvalidInput", "SessionEnded",
            "OutOfMemory", "RegistryUnavailable", "Os"}

LEMMA KindOfCode ==
  ASSUME NEW code
  PROVE  OrOs(OsKind, code) \in OsKinds /\ OrOs(HResultKind, code) \in OsKinds
  BY DEF OrOs, OsKind, HResultKind, OsKinds

SpecialKinds == {"DirectoryNotSupported", "RebootRequired", "ShutdownIncomplete",
                 "RestartIncomplete", "OperationOutOfSequence", "FilterNotFound",
                 "InvalidSessionKey"}

LEMMA KindOfSpecial ==
  ASSUME NEW op, NEW cause, Special(op, cause)
  PROVE  /\ OperationKind[op][cause.code] \in SpecialKinds
         /\ OperationKind[op][cause.code] = "FilterNotFound" => cause.code = "FILE_NOT_FOUND"
         /\ cause.type = "Os"
  <1>1. op \in {"Register", "Report", "Shutdown", "Restart", "RemoveFilter", "Join"}
    BY DEF Special, OperationKind
  <1>2. QED
    BY <1>1 DEF Special, OperationKind, SpecialKinds

\* Whatever an operation may fail for, in any build, and its own check of the counts.
Possible(op) ==
    OwnCauses(op) \cup WindowsCauses(op) \cup Unsupported \cup {Cause("CountOverflow")}

LEMMA CauseShape ==
  ASSUME NEW op, NEW cause \in Possible(op)
  PROVE  \/ \E code \in Supplied : cause = Os(code)
         \/ \E code \in Supplied : cause = [type |-> "HResult", code |-> code]
         \/ cause = DataChanged
         \/ \E type \in Uncoded : cause = Cause(type)
  <1>1. CASE cause \in WindowsCauses(op)
    BY <1>1 DEF WindowsCauses, Os, Supplied
  <1>2. CASE cause \in OwnCauses(op)
    BY <1>2 DEF OwnCauses, Uncoded
  <1>3. CASE cause \in Unsupported \/ cause = Cause("CountOverflow")
    BY <1>3 DEF Unsupported, Uncoded
  <1>4. QED
    BY <1>1, <1>2, <1>3 DEF Possible

LEMMA OsError ==
  ASSUME NEW op, NEW code \in Supplied
  PROVE  \E kind \in OsKinds \cup SpecialKinds :
            /\ MapError(op, Os(code)) = Error(kind, code, None)
            /\ kind = "FilterNotFound" => code = "FILE_NOT_FOUND"
  <1>1. CASE Special(op, Os(code))
    BY <1>1, KindOfSpecial DEF MapError, Os
  <1>2. CASE ~Special(op, Os(code))
    <2>1. MapError(op, Os(code)) = Error(OrOs(OsKind, code), code, None)
      BY <1>2 DEF MapError, MapSysError, Os
    <2>2. OrOs(OsKind, code) \in OsKinds
      BY KindOfCode
    <2>3. OrOs(OsKind, code) # "FilterNotFound"
      BY <2>2 DEF OsKinds
    <2>4. QED
      BY <2>1, <2>2, <2>3
  <1>3. QED
    BY <1>1, <1>2

LEMMA OtherErrors ==
  ASSUME NEW op
  PROVE  /\ \A code \in Supplied : \E kind \in OsKinds :
                MapError(op, [type |-> "HResult", code |-> code]) = Error(kind, None, code)
         /\ MapError(op, DataChanged) = Error("DataChanged", "MORE_DATA", None)
         /\ \A type \in Uncoded :
                MapError(op, Cause(type)) = Error(UncodedKind[type], None, None)
  <1>1. ASSUME NEW code \in Supplied
        PROVE  \E kind \in OsKinds :
                MapError(op, [type |-> "HResult", code |-> code]) = Error(kind, None, code)
    BY KindOfCode DEF MapError, MapSysError, Special
  <1>2. MapError(op, DataChanged) = Error("DataChanged", "MORE_DATA", None)
    BY DEF MapError, MapSysError, Special, DataChanged
  <1>3. ASSUME NEW type \in Uncoded
        PROVE  MapError(op, Cause(type)) = Error(UncodedKind[type], None, None)
    BY DEF MapError, MapSysError, Special, Cause, Uncoded
  <1>4. QED
    BY <1>1, <1>2, <1>3

LEMMA UncodedApart ==
  ASSUME NEW type \in Uncoded
  PROVE  /\ \A other \in Uncoded :
                UncodedKind[type] = UncodedKind[other] =>
                    type = other \/ {type, other} = {"MalformedOutput", "MalformedProgress"}
         /\ UncodedKind[type] \notin {"FilterNotFound", "DataChanged"}
         /\ UncodedKind[type] \in ErrorKind
         /\ type \in {"CallbackInUse", "UnsupportedPlatform"} =>
                UncodedKind[type] \in {"CallbackInUse", "UnsupportedPlatform"}
         /\ UncodedKind[type] \in {"CallbackInUse", "UnsupportedPlatform"} =>
                type \in {"CallbackInUse", "UnsupportedPlatform"}
  <1>1. /\ UncodedKind["UnsupportedPlatform"] = "UnsupportedPlatform"
        /\ UncodedKind["InvalidInput"] = "InvalidInput"
        /\ UncodedKind["CountOverflow"] = "TooManyResources"
        /\ UncodedKind["AllocationFailure"] = "OutOfMemory"
        /\ UncodedKind["CallbackInUse"] = "CallbackInUse"
        /\ UncodedKind["MalformedOutput"] = "MalformedOsData"
        /\ UncodedKind["MalformedProgress"] = "MalformedOsData"
        /\ UncodedKind["SessionEnded"] = "SessionEnded"
    BY DEF UncodedKind
  <1>2. \A other \in Uncoded :
            UncodedKind[type] = UncodedKind[other] =>
                type = other \/ {type, other} = {"MalformedOutput", "MalformedProgress"}
    BY <1>1 DEF Uncoded
  <1>3. UncodedKind[type] \notin {"FilterNotFound", "DataChanged"} /\ UncodedKind[type] \in ErrorKind
    BY <1>1 DEF Uncoded, ErrorKind
  <1>4. type \in {"CallbackInUse", "UnsupportedPlatform"} =>
            UncodedKind[type] \in {"CallbackInUse", "UnsupportedPlatform"}
    BY <1>1
  <1>5. UncodedKind[type] \in {"CallbackInUse", "UnsupportedPlatform"} =>
            type \in {"CallbackInUse", "UnsupportedPlatform"}
    BY <1>1 DEF Uncoded
  <1>6. QED
    BY <1>2, <1>3, <1>4, <1>5

\* What an error shows of its cause.
Shows(cause, error) ==
    \/ /\ cause.code \in Supplied /\ cause = Os(cause.code)
       /\ error.kind \in OsKinds \cup SpecialKinds
       /\ error.os = cause.code
       /\ error.kind = "FilterNotFound" => cause.code = "FILE_NOT_FOUND"
    \/ /\ cause.code \in Supplied /\ cause = [type |-> "HResult", code |-> cause.code]
       /\ error.kind \in OsKinds
       /\ error.os = None /\ error.hresult = cause.code
    \/ cause = DataChanged /\ error.kind = "DataChanged" /\ error.os = "MORE_DATA"
    \/ /\ cause.type \in Uncoded /\ cause = Cause(cause.type)
       /\ error.kind = UncodedKind[cause.type]
       /\ error.os = None /\ error.hresult = None

LEMMA ErrorShows ==
  ASSUME NEW op, NEW cause \in Possible(op)
  PROVE  Shows(cause, MapError(op, cause)) /\ MapError(op, cause) # None
  <1> DEFINE error == MapError(op, cause)
  <1>1. ASSUME NEW kind \in ErrorKind, NEW os \in Supplied \cup {None},
               NEW hresult \in Supplied \cup {None}
        PROVE  Error(kind, os, hresult) # None
    BY CallsAssumption DEF Error, Supplied
  <1>2. ASSUME NEW code \in Supplied, cause = Os(code)
        PROVE  Shows(cause, error) /\ error # None
    <2>1. PICK kind \in OsKinds \cup SpecialKinds :
            error = Error(kind, code, None) /\ (kind = "FilterNotFound" => code = "FILE_NOT_FOUND")
      BY <1>2, OsError
    <2>2. kind \in ErrorKind
      BY DEF OsKinds, SpecialKinds, ErrorKind
    <2>3. error.kind = kind /\ error.os = code
      BY <2>1 DEF Error
    <2>4. cause.code = code
      BY <1>2 DEF Os
    <2>5. QED
      BY <1>1, <1>2, <2>1, <2>2, <2>3, <2>4 DEF Shows
  <1>3. ASSUME NEW code \in Supplied, cause = [type |-> "HResult", code |-> code]
        PROVE  Shows(cause, error) /\ error # None
    <2>1. PICK kind \in OsKinds : error = Error(kind, None, code)
      BY <1>3, OtherErrors
    <2>2. kind \in ErrorKind
      BY DEF OsKinds, ErrorKind
    <2>3. error.kind = kind /\ error.os = None /\ error.hresult = code
      BY <2>1 DEF Error
    <2>4. cause.code = code
      BY <1>3
    <2>5. QED
      BY <1>1, <1>3, <2>1, <2>2, <2>3, <2>4 DEF Shows
  <1>4. ASSUME cause = DataChanged
        PROVE  Shows(cause, error) /\ error # None
    <2>1. error = Error("DataChanged", "MORE_DATA", None)
      BY <1>4, OtherErrors
    <2>2. error.kind = "DataChanged" /\ error.os = "MORE_DATA"
      BY <2>1 DEF Error
    <2>3. "DataChanged" \in ErrorKind /\ "MORE_DATA" \in Supplied
      BY DEF ErrorKind, Supplied
    <2>4. error # None
      BY <1>1, <2>1, <2>3
    <2>5. QED
      BY <1>4, <2>2, <2>4 DEF Shows
  <1>5. ASSUME NEW type \in Uncoded, cause = Cause(type)
        PROVE  Shows(cause, error) /\ error # None
    <2>1. error = Error(UncodedKind[type], None, None)
      BY <1>5, OtherErrors
    <2>2. error.kind = UncodedKind[type] /\ error.os = None /\ error.hresult = None
      BY <2>1 DEF Error
    <2>3. cause.type = type
      BY <1>5 DEF Cause
    <2>4. error # None
      BY <1>1, <2>1, UncodedApart
    <2>5. QED
      BY <1>5, <2>2, <2>3, <2>4 DEF Shows
  <1>6. QED
    BY CauseShape, <1>2, <1>3, <1>4, <1>5

LEMMA CodesAreNotNone ==
  None \notin Supplied /\ "MORE_DATA" \in Supplied /\ "DataChanged" \notin OsKinds \cup SpecialKinds
  BY CallsAssumption DEF OsKinds, SpecialKinds, Supplied

\* Causes that show the same are the same, or differ in what was malformed.
LEMMA ShowsApart ==
  ASSUME NEW error, NEW c1, NEW c2, Shows(c1, error), Shows(c2, error)
  PROVE  c1 = c2 \/ {c1, c2} = {Cause("MalformedOutput"), Cause("MalformedProgress")}
  <1>1. CASE c1.type \in Uncoded /\ c2.type \in Uncoded
    <2>1. /\ c1 = Cause(c1.type) /\ c2 = Cause(c2.type)
          /\ UncodedKind[c1.type] = UncodedKind[c2.type]
      BY <1>1 DEF Shows, Uncoded, Os, DataChanged
    <2>2. c1.type = c2.type \/ {c1.type, c2.type} = {"MalformedOutput", "MalformedProgress"}
      BY <1>1, <2>1, UncodedApart
    <2>3. QED
      BY <2>1, <2>2
  <1>2. CASE c1.type \notin Uncoded \/ c2.type \notin Uncoded
    BY <1>2, CodesAreNotNone, UncodedApart DEF Shows
  <1>3. QED
    BY <1>1, <1>2

\* Only a shutdown or a restart has progress, and neither has output to parse.
LEMMA MalformedOnce ==
  ASSUME NEW op, Cause("MalformedProgress") \in Possible(op)
  PROVE  Cause("MalformedOutput") \notin Possible(op)
  BY DEF Possible, OwnCauses, WindowsCauses, Unsupported, Cause, DataChanged

\* Two causes of one operation are never mapped to one error.
LEMMA ErrorsApart ==
  ASSUME NEW op, NEW c1 \in Possible(op), NEW c2 \in Possible(op),
         MapError(op, c1) = MapError(op, c2)
  PROVE  c1 = c2
  BY ErrorShows, ShowsApart, MalformedOnce

LEMMA ErrorKeeps ==
  ASSUME NEW cause, NEW error, Shows(cause, error)
  PROVE  /\ cause.code \in {error.os, error.hresult} \cup {None}
         /\ error.kind = "FilterNotFound" => cause = Os("FILE_NOT_FOUND")
         /\ NotStarted(cause) <=> error.kind \in {"CallbackInUse", "UnsupportedPlatform"}
  <1>1. CASE cause.type \in Uncoded /\ cause = Cause(cause.type) /\ error.kind = UncodedKind[cause.type]
    BY <1>1, UncodedApart DEF NotStarted, Cause
  <1>2. CASE cause = DataChanged /\ error.kind = "DataChanged" /\ error.os = "MORE_DATA"
    BY <1>2 DEF NotStarted, DataChanged
  <1>3. CASE /\ cause.code \in Supplied /\ cause = Os(cause.code)
             /\ error.kind \in OsKinds \cup SpecialKinds
             /\ error.os = cause.code
             /\ error.kind = "FilterNotFound" => cause.code = "FILE_NOT_FOUND"
    <2>1. error.kind \notin {"CallbackInUse", "UnsupportedPlatform"}
      BY <1>3 DEF OsKinds, SpecialKinds
    <2>2. cause.type = "Os"
      BY <1>3 DEF Os
    <2>3. QED
      BY <1>3, <2>1, <2>2 DEF NotStarted
  <1>4. CASE /\ cause.code \in Supplied /\ cause = [type |-> "HResult", code |-> cause.code]
             /\ error.kind \in OsKinds /\ error.hresult = cause.code
    <2>1. error.kind \notin {"CallbackInUse", "UnsupportedPlatform", "FilterNotFound"}
      BY <1>4 DEF OsKinds
    <2>2. cause.type = "HResult"
      BY <1>4
    <2>3. QED
      BY <1>4, <2>1, <2>2 DEF NotStarted
  <1>5. QED
    BY <1>1, <1>2, <1>3, <1>4 DEF Shows

-----------------------------------------------------------------------------
(***************************************************************************)
(* The inductive invariant.  The identity held is that of the native       *)
(* process it was made from; what a call has resolved so far is the        *)
(* beginning of its batch; Windows has the filters the program wants; and  *)
(* what a call returned tells its cause.                                   *)
(***************************************************************************)
Typed ==
    /\ cwd \in Dir
    /\ born \in 0 .. Len(CreationTime)
    /\ call.at = "opened" =>
        call.handle \in 1 .. Len(CreationTime) /\ call.found = NativeOf(call.handle)

IdentityKept ==
    /\ process \in ProcessIdentity \cup {None}
    /\ process # None =>
        source \in NativeProcess /\ Names(source.pid) /\ process = FromNative(source)

FiltersKept ==
    /\ DOMAIN wanted \subseteq TargetValue
    /\ \A t \in DOMAIN wanted : wanted[t] \in FilterAction
    /\ DOMAIN filters = {RawTarget(t) : t \in DOMAIN wanted}
    /\ \A t \in DOMAIN wanted : filters[RawTarget(t)] = RawAction(wanted[t])

GivenBatch(batch) ==
    /\ batch = Batch(batch.files, batch.processes, batch.services)
    /\ batch.files \in Seq(UserPath)
    /\ batch.processes \in Seq(ProcessIdentity)
    /\ batch.services \in Seq(ServiceName)

ResolvedSoFar(files, resolved, seen) ==
    /\ resolved \in Seq(Dir \X Name)
    /\ Len(resolved) <= Len(files)
    /\ \A i \in 1 .. Len(resolved) : \E dir \in seen : resolved[i] = Absolute(files[i], dir)

BatchKept ==
    /\ call.at \in {"files", "native"} =>
        /\ GivenBatch(call.batch) /\ call.batch # EmptyBatch
        /\ ResolvedSoFar(call.batch.files, call.resolved, call.seen)
    /\ call.at = "files" =>
        /\ call = [at |-> "files", batch |-> call.batch, seen |-> call.seen,
                   resolved |-> call.resolved]
        /\ cwd \in call.seen
    /\ call.at = "native" =>
        Len(call.resolved) = Len(call.batch.files) /\ call.services = call.batch.services

CausesKept ==
    call.at = "returned" /\ call.cause # None =>
        call.cause \in Possible(call.op) /\ call.error = MapError(call.op, call.cause)

CallKept == BatchKept /\ SuccessIsWholeBatch /\ FiltersRoundTrip /\ CausesKept

CallsInvariant == Typed /\ IdentityKept /\ FiltersKept /\ CallKept

LEMMA CausesPossible ==
  ASSUME NEW op, NEW cause \in Causes(op)
  PROVE  cause \in Possible(op)
  BY DEF Causes, Possible

\* A call that is over, and is none of those whose answers are looked at, or that
\* has only just been looked up.
Elsewhere(op) ==
    \/ Succeeds(op, None)
    \/ \E cause \in Causes(op) : Fails(op, cause, None)
    \/ Rejects(op, "InvalidInput")
    \/ Unresolved(op)

LEMMA ReturnsElsewhere ==
  ASSUME NEW op, op \notin {"Register", "Filters", "RemoveFilter"}, Elsewhere(op)
  PROVE  CallKept' /\ call'.at = "returned"
  <1>1. call'.at = "returned" /\ call'.op = op
    BY DEF Elsewhere, Succeeds, Fails, Rejects, Unresolved, Returned
  <1>2. BatchKept' /\ SuccessIsWholeBatch' /\ FiltersRoundTrip'
    BY <1>1 DEF BatchKept, SuccessIsWholeBatch, FiltersRoundTrip, Done
  <1>3. CausesKept'
    <2>1. CASE \E cause \in Causes(op) : Fails(op, cause, None)
      BY <2>1, CausesPossible DEF CausesKept, Fails, Returned
    <2>2. CASE Succeeds(op, None) \/ Rejects(op, "InvalidInput") \/ Unresolved(op)
      BY <2>2 DEF CausesKept, Succeeds, Rejects, Unresolved, Returned
    <2>3. QED
      BY <2>1, <2>2 DEF Elsewhere
  <1>4. QED
    BY <1>1, <1>2, <1>3 DEF CallKept

LEMMA NotReturned ==
  ASSUME call'.at \in {"none", "opened"}
  PROVE  CallKept'
  BY DEF CallKept, BatchKept, SuccessIsWholeBatch, FiltersRoundTrip, CausesKept, Done

LEMMA InitCalls == Init => CallsInvariant
  <1> SUFFICES ASSUME Init PROVE CallsInvariant
    OBVIOUS
  <1>1. Typed /\ IdentityKept
    BY CallsAssumption DEF Init, Typed, IdentityKept
  <1>2. DOMAIN wanted = {} /\ DOMAIN filters = {}
    BY DEF Init
  <1>3. FiltersKept
    BY <1>2 DEF FiltersKept
  <1>4. CallKept
    BY DEF Init, CallKept, BatchKept, SuccessIsWholeBatch, FiltersRoundTrip, CausesKept, Done
  <1>5. QED
    BY <1>1, <1>3, <1>4 DEF CallsInvariant

-----------------------------------------------------------------------------
(***************************************************************************)
(* The system, sessions and identities.                                    *)
(***************************************************************************)
LEMMA SystemStep ==
  ASSUME CallsInvariant, System
  PROVE  CallsInvariant'
  <1>1. call.at # "returned" /\ UNCHANGED <<process, source, filters, wanted>>
    BY DEF System, ChangeDirectory, MakeDirectory, StartProcess, Runs, heldVars, filterVars
  <1>2. IdentityKept' /\ FiltersKept'
    BY <1>1 DEF CallsInvariant, IdentityKept, FiltersKept
  <1>3. CASE call' = call /\ cwd' = cwd
    <2>1. CallKept'
      BY <1>1, <1>3 DEF CallsInvariant, CallKept, BatchKept, SuccessIsWholeBatch, FiltersRoundTrip,
          CausesKept, Done
    <2>2. Typed'
      BY <1>3, CallsAssumption DEF System, ChangeDirectory, MakeDirectory, StartProcess,
          CallsInvariant, Typed
    <2>3. QED
      BY <1>2, <2>1, <2>2 DEF CallsInvariant
  <1>4. CASE ChangeDirectory
    <2>1. CASE call.at # "files"
      <3>1. call' = call
        BY <1>4, <2>1 DEF ChangeDirectory
      <3>2. CallKept'
        BY <1>1, <2>1, <3>1 DEF CallsInvariant, CallKept, BatchKept, SuccessIsWholeBatch,
            FiltersRoundTrip, CausesKept, Done
      <3>3. Typed'
        BY <1>4, <3>1 DEF ChangeDirectory, CallsInvariant, Typed
      <3>4. QED
        BY <1>2, <3>2, <3>3 DEF CallsInvariant
    <2>2. CASE call.at = "files"
      <3>1. call = [at |-> "files", batch |-> call.batch, seen |-> call.seen,
                    resolved |-> call.resolved]
        BY <2>2 DEF CallsInvariant, CallKept, BatchKept
      <3>2. call' = [call EXCEPT !.seen = @ \cup {cwd'}]
        BY <1>4, <2>2 DEF ChangeDirectory
      <3>3. call' = [at |-> "files", batch |-> call.batch, seen |-> call.seen \cup {cwd'},
                     resolved |-> call.resolved]
        BY <3>1, <3>2
      <3>4. BatchKept'
        BY <2>2, <3>3 DEF CallsInvariant, CallKept, BatchKept, ResolvedSoFar
      <3>5. SuccessIsWholeBatch' /\ FiltersRoundTrip' /\ CausesKept'
        BY <3>3 DEF SuccessIsWholeBatch, FiltersRoundTrip, CausesKept, Done
      <3>6. Typed'
        BY <1>4, <3>3 DEF ChangeDirectory, CallsInvariant, Typed
      <3>7. QED
        BY <1>2, <3>4, <3>5, <3>6 DEF CallsInvariant, CallKept
    <2>3. QED
      BY <2>1, <2>2
  <1>5. QED
    BY <1>3, <1>4 DEF System, MakeDirectory, StartProcess

LEMMA SessionStep ==
  ASSUME CallsInvariant,
         Open("Start", "primary") \/ Open("Join", "joined") \/ End \/ OtherFails \/ Take
  PROVE  CallsInvariant'
  <1>1. UNCHANGED <<cwd, born, process, source>>
    BY DEF Open, End, OtherFails, Take, systemVars, heldVars
  <1>2. IdentityKept'
    BY <1>1 DEF CallsInvariant, IdentityKept
  <1>3. CallKept' /\ call'.at # "opened"
    <2>1. CASE Open("Start", "primary")
      BY <2>1, ReturnsElsewhere DEF Open, Elsewhere
    <2>2. CASE Open("Join", "joined")
      BY <2>2, ReturnsElsewhere DEF Open, Elsewhere
    <2>3. CASE End
      BY <2>3, ReturnsElsewhere DEF End, Elsewhere
    <2>4. CASE OtherFails
      <3>1. PICK op \in {"Shutdown", "Restart", "Report", "Cancel", "ApplicationRestart"} :
                \E cause \in Causes(op) : Fails(op, cause, None)
        BY <2>4 DEF OtherFails
      <3>2. QED
        BY <3>1, ReturnsElsewhere DEF Elsewhere
    <2>5. CASE Take
      BY <2>5, NotReturned DEF Take
    <2>6. QED
      BY <2>1, <2>2, <2>3, <2>4, <2>5
  <1>4. FiltersKept'
    <2>1. CASE End
      <3>1. DOMAIN wanted' = {} /\ DOMAIN filters' = {}
        BY <2>1 DEF End
      <3>2. QED
        BY <3>1 DEF FiltersKept
    <2>2. CASE ~End
      BY <2>2 DEF Open, OtherFails, Take, filterVars, CallsInvariant, FiltersKept
    <2>3. QED
      BY <2>1, <2>2
  <1>5. Typed'
    BY <1>1, <1>3 DEF CallsInvariant, Typed
  <1>6. QED
    BY <1>2, <1>3, <1>4, <1>5 DEF CallsInvariant

LEMMA NativesAreNative ==
  ASSUME Typed
  PROVE  /\ Named \subseteq NativeProcess
         /\ \A i \in 1 .. Len(CreationTime) : NativeOf(i) \in NativeProcess
  <1>1. \A i \in 1 .. Len(CreationTime) : CreationTime[i] \in FileTime
    BY CallsAssumption
  <1>2. 0 \in U32 /\ Invalid \in U32 /\ Pid \in U32
    BY WordIs, CallsAssumption DEF U32, Invalid
  <1>3. \A i \in 1 .. Len(CreationTime) : NativeOf(i) \in NativeProcess
    BY <1>1, <1>2 DEF NativeOf, NativeProcess
  <1>4. Ran \subseteq NativeProcess
    BY <1>3, CallsAssumption DEF Ran, Typed
  <1>5. ASSUME NEW p \in NativeProcess, NEW pid \in U32
        PROVE  [p EXCEPT !.pid = pid] \in NativeProcess
    BY <1>5 DEF NativeProcess
  <1>6. Named \subseteq NativeProcess
    BY <1>2, <1>4, <1>5 DEF Named
  <1>7. QED
    BY <1>3, <1>6

\* The program takes the identity of a native process.
LEMMA HoldStep ==
  ASSUME NEW native \in NativeProcess, Names(native.pid), Hold(FromNative(native), native)
  PROVE  IdentityKept'
  BY IdentityOfNative DEF Hold, IdentityKept

LEMMA IdentityStep ==
  ASSUME CallsInvariant, Identities
  PROVE  CallsInvariant'
  <1>1. UNCHANGED <<cwd, born, filters, wanted>>
    BY DEF Identities, FromRawParts, Report, LookUp, LookUpReturn, systemVars, filterVars
  <1>2. FiltersKept'
    BY <1>1 DEF CallsInvariant, FiltersKept
  <1>3. IdentityKept /\ Typed
    BY DEF CallsInvariant
  <1>4. heldVars' = heldVars => IdentityKept'
    BY <1>3 DEF IdentityKept, heldVars
  <1>5. ASSUME NEW native \in Named, FromRawParts(native)
        PROVE  CallsInvariant'
    <2>1. CallKept' /\ call'.at = "returned"
      BY <1>5, ReturnsElsewhere DEF FromRawParts, Elsewhere
    <2>2. IdentityKept'
      BY <1>3, <1>4, <1>5, HoldStep, NativesAreNative DEF FromRawParts
    <2>3. QED
      BY <1>1, <1>2, <1>3, <2>1, <2>2 DEF CallsInvariant, Typed
  <1>6. ASSUME NEW native \in Named, Report(native)
        PROVE  CallsInvariant'
    <2>1. CallKept' /\ call'.at = "returned"
      BY <1>6, ReturnsElsewhere DEF Report, Elsewhere
    <2>2. IdentityKept'
      <3>1. CASE Names(native.pid) /\ RowProcess(native) # None
        BY <1>3, <1>6, <3>1, HoldStep, NativesAreNative DEF Report, RowProcess
      <3>2. CASE RowProcess(native) = None
        BY <1>4, <1>6, <3>2 DEF Report
      <3>3. QED
        BY <3>1, <3>2 DEF RowProcess
    <2>3. QED
      BY <1>1, <1>2, <1>3, <2>1, <2>2 DEF CallsInvariant, Typed
  <1>7. ASSUME NEW pid, LookUp(pid)
        PROVE  CallsInvariant'
    <2>1. IdentityKept'
      BY <1>4, <1>7 DEF LookUp
    <2>2. CASE born > 0 /\ call' = [at |-> "opened", handle |-> born, found |-> NativeOf(born)]
      <3>1. CallKept'
        BY <2>2, NotReturned
      <3>2. born \in 1 .. Len(CreationTime)
        BY <1>3, <2>2, CallsAssumption DEF Typed
      <3>3. Typed'
        BY <1>1, <1>3, <2>2, <3>2 DEF Typed
      <3>4. QED
        BY <1>2, <2>1, <3>1, <3>3 DEF CallsInvariant
    <2>3. CASE Elsewhere("LookUp")
      <3>1. CallKept' /\ call'.at = "returned"
        BY <2>3, ReturnsElsewhere
      <3>2. QED
        BY <1>1, <1>2, <1>3, <2>1, <3>1 DEF CallsInvariant, Typed
    <2>4. QED
      BY <1>7, <2>2, <2>3 DEF LookUp, Elsewhere
  <1>8. CASE LookUpReturn
    <2>1. CallKept' /\ call'.at = "returned"
      BY <1>8, ReturnsElsewhere DEF LookUpReturn, Elsewhere
    <2>2. IdentityKept'
      <3> DEFINE native == NativeOf(call.handle)
      <3>1. native \in NativeProcess /\ Names(native.pid) /\ native = call.found
        BY <1>3, <1>8, NativesAreNative, CallsAssumption DEF LookUpReturn, Typed, NativeOf
      <3>2. Hold(FromNative(native), native) \/ UNCHANGED heldVars
        BY <1>8, <3>1 DEF LookUpReturn
      <3>3. QED
        BY <1>4, <3>1, <3>2, HoldStep
    <2>3. QED
      BY <1>1, <1>2, <1>3, <2>1, <2>2 DEF CallsInvariant, Typed
  <1>9. QED
    BY <1>5, <1>6, <1>7, <1>8 DEF Identities

-----------------------------------------------------------------------------
(***************************************************************************)
(* Registrations.                                                          *)
(***************************************************************************)

\* A registration that failed.
LEMMA RegisterFails ==
  ASSUME \/ \E cause \in Possible("Register") : Fails("Register", cause, None)
         \/ \E kind \in ErrorKind : Rejects("Register", kind)
         \/ Unresolved("Register")
  PROVE  CallKept' /\ call'.at = "returned"
  <1>1. call'.at = "returned" /\ call'.op = "Register"
    BY DEF Fails, Rejects, Unresolved, Returned
  <1>2. BatchKept' /\ FiltersRoundTrip'
    BY <1>1 DEF BatchKept, FiltersRoundTrip, Done
  <1>3. CASE \E cause \in Possible("Register") : Fails("Register", cause, None)
    <2>1. PICK cause \in Possible("Register") : Fails("Register", cause, None)
      BY <1>3
    <2>2. call'.error = MapError("Register", cause) /\ call'.cause = cause
      BY <2>1 DEF Fails, Returned
    <2>3. call'.error # None
      BY <2>2, ErrorShows
    <2>4. QED
      BY <1>1, <1>2, <2>2, <2>3 DEF CallKept, SuccessIsWholeBatch, CausesKept, Done
  <1>4. CASE \E kind \in ErrorKind : Rejects("Register", kind)
    <2>1. PICK kind \in ErrorKind : Rejects("Register", kind)
      BY <1>4
    <2>2. call'.error = Rejection(kind) /\ call'.cause = None
      BY <2>1 DEF Rejects, Returned
    <2>3. Rejection(kind) # None
      BY CallsAssumption DEF Rejection, Error
    <2>4. QED
      BY <1>1, <1>2, <2>2, <2>3 DEF CallKept, SuccessIsWholeBatch, CausesKept, Done
  <1>5. CASE Unresolved("Register")
    <2>1. PICK code \in Code : call' = Returned("Register", Error("InvalidInput", code, None), None, None)
      BY <1>5 DEF Unresolved
    <2>2. call'.error = Error("InvalidInput", code, None) /\ call'.cause = None
      BY <2>1 DEF Returned
    <2>3. Error("InvalidInput", code, None) # None
      BY CallsAssumption DEF Error, ErrorKind
    <2>4. QED
      BY <1>1, <1>2, <2>2, <2>3 DEF CallKept, SuccessIsWholeBatch, CausesKept, Done
  <1>6. QED
    BY <1>3, <1>4, <1>5

LEMMA Resolves ==
  ASSUME NEW path \in UserPath \ {Bad}, cwd \in Dir
  PROVE  Absolute(path, cwd) \in Dir \X Name
  BY DEF UserPath, Absolute, IsAbsolute

LEMMA ResolveStep ==
  ASSUME CallsInvariant, ResolveFile
  PROVE  CallKept' /\ call'.at # "opened"
  <1> DEFINE path == call.batch.files[Len(call.resolved) + 1]
             full == Absolute(path, cwd)
  <1>1. /\ BatchKept /\ cwd \in Dir
        /\ call.at = "files" /\ Len(call.resolved) < Len(call.batch.files)
    BY DEF ResolveFile, CallsInvariant, CallKept, Typed
  <1>2. CASE \/ Rejects("Register", "InvalidInput")
             \/ Rejects("Register", "DirectoryNotSupported")
             \/ Unresolved("Register")
    <2>1. {"InvalidInput", "DirectoryNotSupported"} \subseteq ErrorKind
      BY DEF ErrorKind
    <2>2. QED
      BY <1>2, <2>1, RegisterFails
  <1>3. CASE path # Bad /\ call' = [call EXCEPT !.resolved = Append(@, full)]
    <2>1. call = [at |-> "files", batch |-> call.batch, seen |-> call.seen,
                  resolved |-> call.resolved]
      BY <1>1 DEF BatchKept
    <2>2. call' = [at |-> "files", batch |-> call.batch, seen |-> call.seen,
                   resolved |-> Append(call.resolved, full)]
      <3> HIDE DEF full
      <3>1. call' = [call EXCEPT !.resolved = Append(call.resolved, full)]
        BY <1>3
      <3>2. QED
        BY <2>1, <3>1
    <2>3. /\ call.batch.files \in Seq(UserPath) /\ call.resolved \in Seq(Dir \X Name)
          /\ \A i \in 1 .. Len(call.resolved) :
                \E dir \in call.seen : call.resolved[i] = Absolute(call.batch.files[i], dir)
          /\ cwd \in call.seen
      <3>1. /\ GivenBatch(call.batch)
            /\ ResolvedSoFar(call.batch.files, call.resolved, call.seen)
            /\ cwd \in call.seen
        BY <1>1 DEF BatchKept
      <3>2. call.batch.files \in Seq(UserPath)
        BY <3>1 DEF GivenBatch
      <3>3. QED
        BY <3>1, <3>2 DEF ResolvedSoFar
    <2>4. path \in UserPath
      BY <1>1, <2>3
    <2>5. full \in Dir \X Name
      BY <1>1, <1>3, <2>4, Resolves
    <2> DEFINE longer == Append(call.resolved, full)
    <2> HIDE DEF full
    <2>6. /\ longer \in Seq(Dir \X Name)
          /\ Len(longer) = Len(call.resolved) + 1
          /\ \A i \in 1 .. Len(call.resolved) : longer[i] = call.resolved[i]
          /\ longer[Len(call.resolved) + 1] = full
          /\ Len(call.resolved) \in Nat /\ Len(call.batch.files) \in Nat
      BY <2>3, <2>5
    <2> HIDE DEF longer
    <2>7. ASSUME NEW i \in 1 .. Len(longer)
          PROVE  \E dir \in call.seen : longer[i] = Absolute(call.batch.files[i], dir)
      <3>1. full = Absolute(call.batch.files[Len(call.resolved) + 1], cwd)
        BY DEF full
      <3>2. CASE i = Len(call.resolved) + 1
        BY <2>3, <2>6, <3>1, <3>2
      <3>3. CASE i \in 1 .. Len(call.resolved)
        BY <2>3, <2>6, <3>3
      <3>4. QED
        BY <2>6, <3>2, <3>3
    <2>8. ResolvedSoFar(call.batch.files, longer, call.seen)
      BY <1>1, <2>6, <2>7 DEF ResolvedSoFar
    <2>9. /\ call'.at = "files" /\ call'.batch = call.batch /\ call'.seen = call.seen
          /\ call'.resolved = longer /\ cwd' = cwd
      BY <2>2 DEF ResolveFile, systemVars, longer
    <2>10. BatchKept'
      BY <1>1, <2>2, <2>3, <2>8, <2>9 DEF BatchKept, longer
    <2>11. SuccessIsWholeBatch' /\ FiltersRoundTrip' /\ CausesKept'
      BY <2>9 DEF SuccessIsWholeBatch, FiltersRoundTrip, CausesKept, Done
    <2>12. QED
      BY <2>9, <2>10, <2>11 DEF CallKept
  <1>4. QED
    BY <1>2, <1>3 DEF ResolveFile

LEMMA SeqOfIsSeq ==
  ASSUME NEW S, NEW n, NEW s \in BoundedSeq(S, n)
  PROVE  s \in Seq(S)
  <1>1. PICK m \in 0 .. n : s \in [1 .. m -> S]
    BY DEF BoundedSeq, SeqOf
  <1>2. m \in Nat
    BY <1>1
  <1>3. QED
    BY <1>1, <1>2

LEMMA RegisterStep ==
  ASSUME CallsInvariant,
         NEW files \in Seq(UserPath), NEW processes \in Seq({process} \ {None}),
         NEW services \in Seq(ServiceName), Register(Batch(files, processes, services))
  PROVE  CallKept' /\ call'.at # "opened"
  <1> DEFINE batch == Batch(files, processes, services)
  <1>1. /\ batch.files = files /\ batch.processes = processes /\ batch.services = services
        /\ batch = Batch(batch.files, batch.processes, batch.services)
    BY DEF Batch
  <1>2. {process} \ {None} \subseteq ProcessIdentity
    BY DEF CallsInvariant, IdentityKept
  <1>3. processes \in Seq(ProcessIdentity)
    BY <1>2
  <1>4. GivenBatch(batch)
    BY <1>1, <1>3 DEF GivenBatch
  <1> HIDE DEF batch
  <1>5. CASE batch = EmptyBatch
    <2>1. call' = Returned("Register", None, None, Whole(batch, {cwd}, <<>>))
      BY <1>5 DEF Register, Succeeds, batch
    <2>2. /\ call'.at = "returned" /\ call'.op = "Register" /\ call'.cause = None
          /\ call'.value.batch = batch /\ call'.value.given = <<>>
      BY <2>1 DEF Returned, Whole
    <2>3. QED
      BY <1>5, <2>2 DEF CallKept, BatchKept, SuccessIsWholeBatch, FiltersRoundTrip, CausesKept, Done
  <1>6. CASE batch # EmptyBatch
    <2>1. call' = [at |-> "files", batch |-> batch, seen |-> {cwd}, resolved |-> <<>>]
      BY <1>6 DEF Register, batch
    <2>2. ResolvedSoFar(batch.files, <<>>, {cwd})
      <3>1. batch.files \in Seq(UserPath)
        BY <1>4 DEF GivenBatch
      <3>2. Len(<<>>) = 0 /\ Len(batch.files) \in Nat
        BY <3>1
      <3>3. QED
        BY <3>2 DEF ResolvedSoFar
    <2>3. /\ call'.at = "files" /\ call'.batch = batch /\ call'.seen = {cwd}
          /\ call'.resolved = <<>> /\ cwd' = cwd
      BY <2>1 DEF Register, systemVars
    <2>4. BatchKept'
      BY <1>4, <1>6, <2>1, <2>2, <2>3 DEF BatchKept
    <2>5. QED
      BY <2>3, <2>4 DEF CallKept, SuccessIsWholeBatch, FiltersRoundTrip, CausesKept, Done
  <1>7. QED
    BY <1>5, <1>6

LEMMA CheckStep ==
  ASSUME CallsInvariant, CheckTheRest
  PROVE  CallKept' /\ call'.at # "opened"
  <1>1. /\ call.at = "files" /\ Len(call.resolved) = Len(call.batch.files)
        /\ GivenBatch(call.batch) /\ call.batch # EmptyBatch
        /\ ResolvedSoFar(call.batch.files, call.resolved, call.seen)
    BY DEF CheckTheRest, CallsInvariant, CallKept, BatchKept
  <1>2. CASE Rejects("Register", "InvalidInput")
    <2>1. "InvalidInput" \in ErrorKind
      BY DEF ErrorKind
    <2>2. QED
      BY <1>2, <2>1, RegisterFails
  <1>3. CASE Fails("Register", Cause("CountOverflow"), None)
    BY <1>3, RegisterFails DEF Possible
  <1>4. CASE call' = [at |-> "native", batch |-> call.batch, seen |-> call.seen,
                      resolved |-> call.resolved, services |-> call.batch.services]
    <2>1. /\ call'.at = "native" /\ call'.batch = call.batch /\ call'.seen = call.seen
          /\ call'.resolved = call.resolved /\ call'.services = call.batch.services
      BY <1>4
    <2>2. BatchKept'
      BY <1>1, <2>1 DEF BatchKept
    <2>3. QED
      BY <2>1, <2>2 DEF CallKept, SuccessIsWholeBatch, FiltersRoundTrip, CausesKept, Done
  <1>5. QED
    BY <1>2, <1>3, <1>4 DEF CheckTheRest

LEMMA RegisterReturnStep ==
  ASSUME CallsInvariant, RegisterReturn
  PROVE  CallKept' /\ call'.at # "opened"
  <1> DEFINE batch == call.batch
             processes == [i \in DOMAIN batch.processes |-> ToNative(batch.processes[i])]
             given == [files |-> call.resolved, processes |-> processes, services |-> call.services]
  <1>1. /\ call.at = "native" /\ Len(call.resolved) = Len(batch.files)
        /\ GivenBatch(batch) /\ batch # EmptyBatch
        /\ ResolvedSoFar(batch.files, call.resolved, call.seen)
        /\ call.services = batch.services
    BY DEF RegisterReturn, CallsInvariant, CallKept, BatchKept
  <1>2. CASE \E cause \in Causes("Register") : Fails("Register", cause, None)
    BY <1>2, RegisterFails, CausesPossible
  <1>3. CASE Succeeds("Register", Whole(batch, call.seen, <<given>>))
    <2>1. batch.processes \in Seq(ProcessIdentity) /\ batch.files \in Seq(UserPath)
      BY <1>1 DEF GivenBatch
    <2>2. Len(processes) = Len(batch.processes)
      BY <2>1
    <2>3. \A i \in DOMAIN batch.processes : FromNative(processes[i]) = batch.processes[i]
      BY <2>1, NativeOfIdentity
    <2>4. \A i \in DOMAIN batch.files :
            \E dir \in call.seen : call.resolved[i] = Absolute(batch.files[i], dir)
      <3> HIDE DEF batch
      <3>1. DOMAIN batch.files = 1 .. Len(call.resolved)
        BY <1>1, <2>1
      <3>2. QED
        BY <1>1, <3>1 DEF ResolvedSoFar
    <2> HIDE DEF processes
    <2>5. /\ call'.at = "returned" /\ call'.op = "Register" /\ call'.cause = None
          /\ call'.value = [batch |-> batch, seen |-> call.seen, given |-> <<given>>]
      BY <1>3 DEF Succeeds, Returned, Whole
    <2>6. /\ given.files = call.resolved /\ given.processes = processes
          /\ given.services = batch.services
      BY <1>1
    <2> HIDE DEF batch, given
    <2>7. /\ call'.value.batch = batch /\ call'.value.seen = call.seen
          /\ Len(call'.value.given) = 1 /\ call'.value.given[1] = given
      BY <2>5
    <2>8. SuccessIsWholeBatch'
      BY <1>1, <2>2, <2>3, <2>4, <2>6, <2>7 DEF SuccessIsWholeBatch
    <2>9. QED
      BY <2>5, <2>8 DEF CallKept, BatchKept, FiltersRoundTrip, CausesKept, Done
  <1>4. QED
    BY <1>2, <1>3 DEF RegisterReturn

-----------------------------------------------------------------------------
(***************************************************************************)
(* Filters.                                                                *)
(***************************************************************************)

\* A call on filters that failed, but for a removal.
LEMMA FiltersFailStep ==
  ASSUME \/ \E op \in {"SetFilter", "Filters"} : \E cause \in Causes(op) : Fails(op, cause, None)
         \/ Rejects("Filters", "MalformedOsData")
  PROVE  CallKept' /\ call'.at # "opened"
  <1>1. CASE Rejects("Filters", "MalformedOsData")
    <2>1. /\ call'.at = "returned" /\ call'.op = "Filters" /\ call'.cause = None
          /\ call'.error = Rejection("MalformedOsData")
      BY <1>1 DEF Rejects, Returned
    <2>2. "MalformedOsData" \in ErrorKind
      BY DEF ErrorKind
    <2>3. call'.error # None
      BY <2>1, <2>2, CallsAssumption DEF Rejection, Error
    <2>4. QED
      BY <2>1, <2>3 DEF CallKept, BatchKept, SuccessIsWholeBatch, FiltersRoundTrip, CausesKept, Done
  <1>2. ASSUME NEW op \in {"SetFilter", "Filters"}, NEW cause \in Causes(op), Fails(op, cause, None)
        PROVE  CallKept' /\ call'.at # "opened"
    <2>1. /\ call'.at = "returned" /\ call'.op = op /\ call'.cause = cause
          /\ call'.error = MapError(op, cause)
      BY <1>2 DEF Fails, Returned
    <2>2. cause \in Possible(op) /\ call'.error # None
      BY <2>1, ErrorShows, CausesPossible
    <2>3. QED
      BY <2>1, <2>2 DEF CallKept, BatchKept, SuccessIsWholeBatch, FiltersRoundTrip, CausesKept, Done
  <1>3. QED
    BY <1>1, <1>2

LEMMA SetFilterStep ==
  ASSUME CallsInvariant, NEW t \in TargetValue, NEW a \in FilterAction, SetFilter(t, a)
  PROVE  FiltersKept' /\ CallKept' /\ call'.at # "opened"
  <1>1. FiltersKept
    BY DEF CallsInvariant
  <1>2. CASE UNCHANGED filterVars /\ \E cause \in Causes("SetFilter") : Fails("SetFilter", cause, None)
    <2>1. FiltersKept'
      BY <1>1, <1>2 DEF FiltersKept, filterVars
    <2>2. QED
      BY <1>2, <2>1, FiltersFailStep
  <1>3. CASE /\ filters' = With(filters, RawTarget(t), RawAction(a))
             /\ wanted' = With(wanted, t, a)
             /\ Succeeds("SetFilter", None)
    <2>1. CallKept' /\ call'.at # "opened"
      BY <1>3, ReturnsElsewhere DEF Elsewhere
    <2>2. /\ DOMAIN wanted' = {t} \cup DOMAIN wanted
          /\ \A u \in DOMAIN wanted' : wanted'[u] = IF u = t THEN a ELSE wanted[u]
      BY <1>3 DEF With
    <2>3. /\ DOMAIN filters' = {RawTarget(t)} \cup DOMAIN filters
          /\ \A k \in DOMAIN filters' :
                filters'[k] = IF k = RawTarget(t) THEN RawAction(a) ELSE filters[k]
      BY <1>3 DEF With
    <2>4. DOMAIN wanted' \subseteq TargetValue /\ \A u \in DOMAIN wanted' : wanted'[u] \in FilterAction
      BY <1>1, <2>2 DEF FiltersKept
    <2>5. DOMAIN filters' = {RawTarget(u) : u \in DOMAIN wanted'}
      BY <1>1, <2>2, <2>3 DEF FiltersKept
    <2>6. ASSUME NEW u \in DOMAIN wanted'
          PROVE  filters'[RawTarget(u)] = RawAction(wanted'[u])
      <3>1. CASE u = t
        BY <2>2, <2>3, <3>1
      <3>2. CASE u # t
        <4>1. u \in DOMAIN wanted /\ u \in TargetValue /\ wanted'[u] = wanted[u]
          BY <1>1, <2>2, <3>2 DEF FiltersKept
        <4>2. RawTarget(u) # RawTarget(t)
          BY <3>2, <4>1, RawTargetUnique
        <4>3. QED
          BY <1>1, <2>3, <4>1, <4>2 DEF FiltersKept
      <3>3. QED
        BY <3>1, <3>2
    <2>7. QED
      BY <2>1, <2>4, <2>5, <2>6 DEF FiltersKept
  <1>4. QED
    BY <1>2, <1>3 DEF SetFilter

LEMMA RemoveFilterStep ==
  ASSUME CallsInvariant, NEW t \in TargetValue, RemoveFilter(t)
  PROVE  FiltersKept' /\ CallKept' /\ call'.at # "opened"
  <1> DEFINE native == RawTarget(t)
  <1>1. FiltersKept
    BY DEF CallsInvariant
  <1>2. CASE /\ filters' = Restrict(filters, DOMAIN filters \ {native})
             /\ wanted' = Restrict(wanted, DOMAIN wanted \ {t})
             /\ Succeeds("RemoveFilter", TRUE)
    <2>1. call'.at = "returned" /\ call'.op = "RemoveFilter" /\ call'.cause = None /\ call'.error = None
      BY <1>2 DEF Succeeds, Returned
    <2>2. CallKept'
      BY <2>1 DEF CallKept, BatchKept, SuccessIsWholeBatch, FiltersRoundTrip, CausesKept, Done
    <2>3. /\ DOMAIN wanted' = DOMAIN wanted \ {t}
          /\ \A u \in DOMAIN wanted' : wanted'[u] = wanted[u]
      BY <1>2 DEF Restrict
    <2>4. /\ DOMAIN filters' = DOMAIN filters \ {native}
          /\ \A k \in DOMAIN filters' : filters'[k] = filters[k]
      BY <1>2 DEF Restrict
    <2>5. \A u \in DOMAIN wanted : u \in TargetValue /\ (u # t => RawTarget(u) # native)
      BY <1>1, RawTargetUnique DEF FiltersKept
    <2> HIDE DEF native
    <2>6. DOMAIN filters' = {RawTarget(u) : u \in DOMAIN wanted'}
      <3>1. native = RawTarget(t)
        BY DEF native
      <3>2. QED
        BY <1>1, <2>3, <2>4, <2>5, <3>1 DEF FiltersKept
    <2>7. \A u \in DOMAIN wanted' : filters'[RawTarget(u)] = RawAction(wanted'[u])
      BY <1>1, <2>3, <2>4, <2>5 DEF FiltersKept
    <2>8. DOMAIN wanted' \subseteq TargetValue /\ \A u \in DOMAIN wanted' : wanted'[u] \in FilterAction
      BY <1>1, <2>3 DEF FiltersKept
    <2>9. QED
      BY <2>1, <2>2, <2>6, <2>7, <2>8 DEF FiltersKept
  <1>3. ASSUME NEW cause \in Causes("RemoveFilter"), UNCHANGED filterVars,
               cause = Os("FILE_NOT_FOUND") => native \notin DOMAIN filters,
               Fails("RemoveFilter", cause, t \in DOMAIN wanted)
        PROVE  FiltersKept' /\ CallKept' /\ call'.at # "opened"
    <2>1. FiltersKept'
      BY <1>1, <1>3 DEF FiltersKept, filterVars
    <2>2. /\ call'.at = "returned" /\ call'.op = "RemoveFilter" /\ call'.cause = cause
          /\ call'.error = MapError("RemoveFilter", cause)
          /\ call'.value = (t \in DOMAIN wanted)
      BY <1>3 DEF Fails, Returned
    <2>3. cause \in Possible("RemoveFilter") /\ Shows(cause, call'.error)
      BY <2>2, ErrorShows, CausesPossible
    <2>4. ASSUME call'.error.kind = "FilterNotFound"
          PROVE  t \notin DOMAIN wanted
      <3>1. native \notin DOMAIN filters
        BY <1>3, <2>3, <2>4, ErrorKeeps
      <3>2. QED
        BY <1>1, <3>1 DEF FiltersKept
    <2>5. FiltersRoundTrip'
      BY <2>2, <2>4 DEF FiltersRoundTrip, Done
    <2>6. QED
      BY <2>1, <2>2, <2>3, <2>5 DEF CallKept, BatchKept, SuccessIsWholeBatch, CausesKept, Done
  <1>4. QED
    BY <1>2, <1>3 DEF RemoveFilter

LEMMA FiltersStep ==
  ASSUME CallsInvariant, Filters(Listed)
  PROVE  CallKept' /\ call'.at # "opened"
  <1>1. FiltersKept
    BY DEF CallsInvariant
  <1>2. CASE /\ \A r \in Listed : ~Malformed(r)
             /\ Succeeds("Filters", Told({FilterFromRaw(r) : r \in Listed}, Listed))
    <2>1. /\ call'.at = "returned" /\ call'.op = "Filters" /\ call'.cause = None
          /\ call'.value.answer = {FilterFromRaw(r) : r \in Listed}
          /\ call'.value.listed = Listed
      BY <1>2 DEF Succeeds, Returned, Told
    <2>2. Listed = {[target |-> RawTarget(t), action |-> RawAction(wanted[t])] : t \in DOMAIN wanted}
      BY <1>1 DEF FiltersKept, Listed
    <2>3. \A t \in DOMAIN wanted :
            FilterFromRaw([target |-> RawTarget(t), action |-> RawAction(wanted[t])])
                = [target |-> t, action |-> wanted[t]]
      BY <1>1, FilterBack DEF FiltersKept
    <2>4. call'.value.answer = {[target |-> t, action |-> wanted[t]] : t \in DOMAIN wanted}
      <3> DEFINE Native(t) == [target |-> RawTarget(t), action |-> RawAction(wanted[t])]
                 Safe(t) == [target |-> t, action |-> wanted[t]]
      <3>1. /\ \A t \in DOMAIN wanted : FilterFromRaw(Native(t)) = Safe(t)
            /\ Listed = {Native(t) : t \in DOMAIN wanted}
        BY <2>2, <2>3
      <3> HIDE DEF Native, Safe
      <3>2. {FilterFromRaw(r) : r \in Listed} = {Safe(t) : t \in DOMAIN wanted}
        BY <3>1
      <3>3. QED
        BY <2>1, <3>2 DEF Safe
    <2>5. wanted' = wanted
      BY DEF Filters, filterVars
    <2>6. QED
      BY <1>2, <2>1, <2>4, <2>5 DEF CallKept, BatchKept, SuccessIsWholeBatch, FiltersRoundTrip,
          CausesKept, Done
  <1>3. CASE Rejects("Filters", "MalformedOsData")
    BY <1>3, FiltersFailStep
  <1>4. QED
    BY <1>2, <1>3 DEF Filters

\* No record that no filter can look like passes.
LEMMA OddIsMalformed ==
  ASSUME NEW odd \in Odd
  PROVE  Malformed(odd)
  <1>1. CASE odd \in {[target |-> Executable(path), action |-> 1] : path \in Name \cup {Bad}}
    BY <1>1, StringsApart DEF Malformed, Executable, IsAbsolute
  <1>2. CASE odd \in {[target |-> Process(p), action |-> 1] :
                        p \in [pid : {0, Invalid}, start : FileTime]}
    BY <1>2 DEF Malformed, Process, Names
  <1>3. CASE odd = [target |-> Service(Bad), action |-> 2]
    BY <1>3 DEF Malformed, Service
  <1>4. CASE odd \in {[r EXCEPT !.action = 3] : r \in Listed}
    <2>1. PICK k \in DOMAIN filters :
            odd = [[target |-> k, action |-> filters[k]] EXCEPT !.action = 3]
      BY <1>4 DEF Listed
    <2>2. odd.action = 3
      BY <2>1
    <2>3. QED
      BY <2>2 DEF Malformed
  <1>5. QED
    BY <1>1, <1>2, <1>3, <1>4 DEF Odd

LEMMA TargetsAreValues ==
  ASSUME CallsInvariant
  PROVE  Target \cup DOMAIN wanted \subseteq TargetValue
  <1>1. cwd \in Dir /\ {process} \ {None} \subseteq ProcessIdentity /\ DOMAIN wanted \subseteq TargetValue
    BY DEF CallsInvariant, Typed, IdentityKept, FiltersKept
  <1>2. {Executable(Absolute(path, cwd)) : path \in UserPath \ {Bad}} \subseteq TargetValue
    BY <1>1, Resolves DEF TargetValue
  <1>3. {Service(name) : name \in ServiceName \ {Bad}} \subseteq TargetValue
    BY DEF TargetValue, ServiceName
  <1>4. {Process(p) : p \in {process} \ {None}} \subseteq TargetValue
    BY <1>1 DEF TargetValue
  <1>5. QED
    BY <1>1, <1>2, <1>3, <1>4 DEF Target

-----------------------------------------------------------------------------
LEMMA RegistersStep ==
  ASSUME CallsInvariant, Registers
  PROVE  CallsInvariant'
  <1>1. UNCHANGED <<cwd, born, process, source, filters, wanted>>
    BY DEF Registers, Register, ResolveFile, CheckTheRest, RegisterReturn, systemVars, heldVars,
        filterVars
  <1>2. CallKept' /\ call'.at # "opened"
    <2>1. ASSUME NEW files \in BoundedSeq(UserPath, Room),
                 NEW processes \in BoundedSeq({process} \ {None}, Room - Len(files)),
                 NEW services \in BoundedSeq(ServiceName, Room - Len(files) - Len(processes)),
                 Register(Batch(files, processes, services))
          PROVE  CallKept' /\ call'.at # "opened"
      BY <2>1, RegisterStep, SeqOfIsSeq
    <2>2. QED
      BY <2>1, ResolveStep, CheckStep, RegisterReturnStep DEF Registers
  <1>3. Typed' /\ IdentityKept' /\ FiltersKept'
    BY <1>1, <1>2 DEF CallsInvariant, Typed, IdentityKept, FiltersKept
  <1>4. QED
    BY <1>2, <1>3 DEF CallsInvariant

LEMMA ConfiguresStep ==
  ASSUME CallsInvariant, Configures
  PROVE  CallsInvariant'
  <1>1. UNCHANGED <<cwd, born, process, source>>
    BY DEF Configures, BadTarget, SetFilter, RemoveFilter, Filters, FiltersFail, systemVars, heldVars
  <1>2. FiltersKept' /\ CallKept' /\ call'.at # "opened"
    <2>1. UNCHANGED filterVars => FiltersKept'
      BY DEF CallsInvariant, FiltersKept, filterVars
    <2>2. CASE BadTarget
      BY <2>1, <2>2, ReturnsElsewhere DEF BadTarget, Elsewhere
    <2>3. CASE \E target \in Target, action \in FilterAction : SetFilter(target, action)
      BY <2>3, TargetsAreValues, SetFilterStep
    <2>4. CASE \E target \in Target \cup DOMAIN wanted : RemoveFilter(target)
      BY <2>4, TargetsAreValues, RemoveFilterStep
    <2>5. CASE Filters(Listed)
      BY <2>1, <2>5, FiltersStep DEF Filters
    <2>6. ASSUME NEW odd \in Odd, Filters(Listed \cup {odd})
          PROVE  FiltersKept' /\ CallKept' /\ call'.at # "opened"
      <3>1. Rejects("Filters", "MalformedOsData")
        BY <2>6, OddIsMalformed DEF Filters
      <3>2. QED
        BY <2>1, <2>6, <3>1, FiltersFailStep DEF Filters
    <2>7. CASE FiltersFail
      BY <2>1, <2>7, FiltersFailStep DEF FiltersFail
    <2>8. QED
      BY <2>2, <2>3, <2>4, <2>5, <2>6, <2>7 DEF Configures
  <1>3. Typed' /\ IdentityKept'
    BY <1>1, <1>2 DEF CallsInvariant, Typed, IdentityKept
  <1>4. QED
    BY <1>2, <1>3 DEF CallsInvariant

LEMMA CallsStep == CallsInvariant /\ [Next]_vars => CallsInvariant'
  <1> SUFFICES ASSUME CallsInvariant, [Next]_vars PROVE CallsInvariant'
    OBVIOUS
  <1>1. CASE UNCHANGED vars
    BY <1>1 DEF vars, CallsInvariant, Typed, IdentityKept, FiltersKept, CallKept, BatchKept,
        SuccessIsWholeBatch, FiltersRoundTrip, CausesKept, Done
  <1>2. CASE Next
    BY <1>2, SystemStep, SessionStep, IdentityStep, RegistersStep, ConfiguresStep DEF Next
  <1>3. QED
    BY <1>1, <1>2

LEMMA CallsInvariantHolds == Spec => []CallsInvariant
  BY InitCalls, CallsStep, PTL DEF Spec

\* A registration that succeeds has given Windows its whole batch, in one call and in
\* order, every relative path in a directory that was current during the call, however
\* the system changes while the files are resolved (session.rs:116, input.rs:38).
THEOREM RegistrationIsWhole == Spec => []SuccessIsWholeBatch
  <1>1. CallsInvariant => SuccessIsWholeBatch
    BY DEF CallsInvariant, CallKept
  <1>2. QED
    BY <1>1, CallsInvariantHolds, PTL

\* For every width of a word, the identity a program holds gives back the native record
\* it was made from, which named a process (application.rs:24, sys.rs:468).
THEOREM IdentitiesAreStable == Spec => []IdentityIsOfItsProcess
  <1>1. CallsInvariant => IdentityIsOfItsProcess
    BY IdentityOfNative DEF CallsInvariant, IdentityKept, IdentityIsOfItsProcess, Names, Invalid
  <1>2. QED
    BY <1>1, CallsInvariantHolds, PTL

\* filters() answers what the program set and did not remove, however many filters and
\* whatever directory it is in since, and passes over no record that Windows listed; no
\* filter that is there is reported missing (filter.rs:30, session.rs:308, :758).
THEOREM FiltersSurvive == Spec => []FiltersRoundTrip
  <1>1. CallsInvariant => FiltersRoundTrip
    BY DEF CallsInvariant, CallKept
  <1>2. QED
    BY <1>1, CallsInvariantHolds, PTL

\* Whatever codes Windows supplies, two causes of one operation never look the same to
\* its caller, and none loses its code (session.rs:678, :686, :812).
THEOREM CausesAreTold == Spec => []CausesSurvive
  <1>1. CallsInvariant => CausesSurvive
    <2> SUFFICES ASSUME CallsInvariant, call.at = "returned", call.cause # None
                 PROVE  CausesSurvive
      BY DEF CausesSurvive
    <2>1. call.cause \in Possible(call.op) /\ call.error = MapError(call.op, call.cause)
      BY DEF CallsInvariant, CallKept, CausesKept
    <2>2. Shows(call.cause, call.error)
      BY <2>1, ErrorShows
    <2>3. \A other \in Causes(call.op) : MapError(call.op, other) = call.error => other = call.cause
      BY <2>1, ErrorsApart, CausesPossible
    <2>4. QED
      BY <2>2, <2>3, ErrorKeeps DEF CausesSurvive
  <1>2. QED
    BY <1>1, CallsInvariantHolds, PTL
=============================================================================
