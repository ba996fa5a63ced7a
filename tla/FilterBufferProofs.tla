------------------------- MODULE FilterBufferProofs -------------------------
(***************************************************************************)
(* Proofs about FilterBuffer, for every record size, word size, address    *)
(* space and retry budget: the parser stays inside the buffer, and cannot  *)
(* be made to take more records than the buffer has room for.              *)
(*                                                                         *)
(* ParserInvariant adds to the two properties how much of the buffer lies  *)
(* behind the parser.  Where it multiplies, two lemmas do the arithmetic.  *)
(***************************************************************************)
EXTENDS FilterBuffer, Integers, TLAPS

Invariant == TypeOK /\ ParserInvariant

\* One more record takes one more record's size.
LEMMA OneMore ==
    ASSUME NEW n \in Nat, NEW r \in Nat
    PROVE  /\ (n + 1) * r = n * r + r
           /\ n * r \in Nat
           /\ 0 * r = 0
BY SMT

\* Whole words hold at least the bytes they were rounded up from.
LEMMA RoundingUp ==
    ASSUME NEW n \in Nat, NEW w \in Nat \ {0}
    PROVE  LET words == (n + w - 1) \div w IN words * w \in Int /\ n <= words * w
<1> DEFINE padded == n + w - 1
           words == padded \div w
<1>1. padded \in Nat /\ w > 0
    BY SMT
<1>2. padded = words * w + (padded % w) /\ padded % w < w /\ padded % w >= 0 /\ words \in Int
    BY <1>1, SMT
<1>3. words * w \in Int /\ padded % w \in Int
    BY <1>2, <1>1, SMT
<1> QED BY <1>2, <1>3, SMT

LEMMA CapacityHolds ==
    ASSUME NEW bytes \in Nat
    PROVE  Capacity(bytes) \in Int /\ bytes <= Capacity(bytes)
BY BufferAssumption, RoundingUp DEF Capacity

LEMMA InitInvariant == Init => Invariant
<1> SUFFICES ASSUME Init PROVE Invariant
    OBVIOUS
<1>1. TypeOK
    BY BufferAssumption DEF Init, TypeOK, Address, NoRead, Result
<1>2. 0 * RecordSize <= 0
    BY BufferAssumption, OneMore
<1>3. ParserInvariant
    BY <1>2 DEF Init, ParserInvariant, Parsing, ReadsInside, ListBounded
<1> QED BY <1>1, <1>3 DEF Invariant

(***************************************************************************)
(* The query: what the parser relies on is settled by Allocate and Fill.   *)
(***************************************************************************)
LEMMA CallKeeps == Invariant /\ Call => Invariant'
<1> SUFFICES ASSUME Invariant, Call PROVE Invariant'
    OBVIOUS
<1>1. TypeOK'
    BY BufferAssumption DEF Invariant, TypeOK, Call, bufferVars, Address, NoRead, Result
<1>2. 0 * RecordSize <= valid
    BY BufferAssumption, OneMore DEF Invariant, TypeOK
<1>3. ParserInvariant'
    BY <1>2 DEF Call, bufferVars, ParserInvariant, Parsing, ReadsInside, ListBounded
<1> QED BY <1>1, <1>3 DEF Invariant

LEMMA ProbeKeeps ==
    ASSUME Invariant, NEW size \in 0 .. MaxNeeded, Probe(size)
    PROVE  Invariant'
<1>1. TypeOK'
    BY BufferAssumption DEF Invariant, TypeOK, Probe, Return, Goto, bufferVars, parserVars, Result
<1>2. ParserInvariant'
    BY DEF Invariant, TypeOK, Probe, Return, Goto, bufferVars, parserVars,
        ParserInvariant, Parsing, ReadsInside, ListBounded
<1> QED BY <1>1, <1>2 DEF Invariant

LEMMA AllocateKeeps ==
    ASSUME Invariant, NEW address \in Address, Allocate(address)
    PROVE  Invariant'
<1>1. TypeOK'
    BY BufferAssumption DEF Invariant, TypeOK, Allocate, Return, Goto, parserVars, Address, Result
<1>2. at' = "filling" => base' + supplied' <= AddressMax
    <2>1. needed \in Nat /\ AddressMax \in Nat /\ address \in Nat
        BY BufferAssumption DEF Invariant, TypeOK, Address
    <2>2. Capacity(needed) \in Int /\ needed <= Capacity(needed)
        BY <2>1, CapacityHolds
    <2> QED BY <2>1, <2>2 DEF Allocate, Return, Goto
\* Nothing was read in this query yet, let alone from the new buffer.
<1>3. ParserInvariant'
    BY <1>2 DEF Invariant, Allocate, Return, Goto, parserVars,
        ParserInvariant, Parsing, ReadsInside, ListBounded
<1> QED BY <1>1, <1>3 DEF Invariant

LEMMA RetryKeeps ==
    Invariant /\ (FillFails \/ \E size \in 0 .. MaxNeeded : FillMore(size)) => Invariant'
<1> SUFFICES ASSUME Invariant, FillFails \/ \E size \in 0 .. MaxNeeded : FillMore(size)
             PROVE  Invariant'
    OBVIOUS
<1>1. TypeOK'
    BY DEF Invariant, TypeOK, FillFails, FillMore, Return, Goto, queryVars, bufferVars,
        parserVars, Result
<1>2. ParserInvariant'
    BY DEF Invariant, FillFails, FillMore, Return, Goto, queryVars, bufferVars, parserVars,
        ParserInvariant, Parsing, ReadsInside, ListBounded
<1> QED BY <1>1, <1>2 DEF Invariant

LEMMA FillKeeps ==
    ASSUME Invariant, NEW size \in 0 .. MaxNeeded, Fill(size)
    PROVE  Invariant'
<1>1. TypeOK'
    BY BufferAssumption DEF Invariant, TypeOK, Fill, Return, Goto, queryVars, parserVars, Result
<1>2. filters = 0 /\ filters * RecordSize = 0 /\ offset \in Nat /\ valid' \in Nat
    BY BufferAssumption, OneMore, <1>1 DEF Invariant, TypeOK, ParserInvariant, Fill, Address
<1>3. ParserInvariant'
    BY <1>2 DEF Invariant, Fill, Return, Goto, queryVars, parserVars,
        ParserInvariant, Parsing, ReadsInside, ListBounded
<1> QED BY <1>1, <1>3 DEF Invariant

(***************************************************************************)
(* The parser.                                                             *)
(***************************************************************************)
LEMMA OutsideKeeps == Invariant /\ (RecordOutside \/ StringOutside) => Invariant'
<1> SUFFICES ASSUME Invariant, RecordOutside \/ StringOutside PROVE Invariant'
    OBVIOUS
<1>1. TypeOK'
    BY DEF Invariant, TypeOK, RecordOutside, StringOutside, Return, queryVars, bufferVars,
        parserVars, Result
<1>2. ParserInvariant'
    BY DEF Invariant, RecordOutside, StringOutside, Return, queryVars, bufferVars, parserVars,
        ParserInvariant, Parsing, ReadsInside, ListBounded
<1> QED BY <1>1, <1>2 DEF Invariant

LEMMA ReadRecordKeeps ==
    ASSUME Invariant, NEW trigger \in Trigger, NEW pointer \in Address, NEW link \in Address,
           ReadRecord(trigger, pointer, link)
    PROVE  Invariant'
<1>1. /\ RecordSize \in Nat /\ offset \in Nat /\ base \in Nat /\ valid \in Nat /\ supplied \in Nat
      /\ AddressMax \in Nat
      /\ offset + RecordSize <= valid /\ valid <= supplied /\ base + supplied <= AddressMax
    BY BufferAssumption DEF Invariant, TypeOK, ParserInvariant, Parsing, ReadRecord, Address
<1>2. base + offset \in Address /\ base + offset + RecordSize \in Address
    BY <1>1 DEF Address
<1>3. TypeOK'
    BY <1>2 DEF Invariant, TypeOK, ReadRecord, Return, Goto, queryVars, bufferVars, Result
<1>4. ReadsInside'
    BY <1>1 DEF ReadRecord, bufferVars, ReadsInside
<1>5. ListBounded'
    BY DEF Invariant, ParserInvariant, ReadRecord, bufferVars, ListBounded
<1>6. at' = "string" => base' <= cursor'
    BY DEF ReadRecord, bufferVars, Return, Goto, StringInside
<1>7. /\ at = "record" /\ at' \in {"idle", "string", "linking"}
      /\ UNCHANGED <<supplied, base, valid, offset, filters>>
    BY DEF ReadRecord, bufferVars, Return, Goto
<1>8. ParserInvariant'
    BY <1>1, <1>4, <1>5, <1>6, <1>7 DEF Invariant, ParserInvariant, Parsing
<1> QED BY <1>3, <1>8 DEF Invariant

\* The next record begins behind this one, whose size the count has grown by.
LEMMA LinkKeeps == Invariant /\ Link => Invariant'
<1> SUFFICES ASSUME Invariant, Link PROVE Invariant'
    OBVIOUS
<1>1. TypeOK'
    BY BufferAssumption DEF Invariant, TypeOK, Link, Overflows, Return, Goto, queryVars,
        bufferVars, Address, Result
<1>2. /\ RecordSize \in Nat /\ offset \in Nat /\ next \in Nat /\ valid \in Nat
      /\ filters * RecordSize \in Nat
      /\ filters' * RecordSize = filters * RecordSize + RecordSize
    BY BufferAssumption, OneMore DEF Invariant, TypeOK, Link, Address
<1>3. filters' * RecordSize <= valid
    BY <1>2 DEF Invariant, ParserInvariant, Parsing, Link
<1>4. at' = "record" => filters' * RecordSize <= offset'
    BY <1>2 DEF Invariant, ParserInvariant, Parsing, Link, Return, Goto
<1>5. ParserInvariant'
    BY <1>3, <1>4 DEF Invariant, Link, Return, Goto, bufferVars,
        ParserInvariant, Parsing, ReadsInside, ListBounded
<1> QED BY <1>1, <1>5 DEF Invariant

LEMMA ReadUnitKeeps ==
    ASSUME Invariant, NEW nul \in BOOLEAN, ReadUnit(nul)
    PROVE  Invariant'
<1>1. /\ cursor \in Nat /\ base \in Nat /\ valid \in Nat /\ supplied \in Nat /\ AddressMax \in Nat
      /\ cursor + 2 <= base + valid /\ valid <= supplied /\ base + supplied <= AddressMax
      /\ base <= cursor
    BY BufferAssumption DEF Invariant, TypeOK, ParserInvariant, Parsing, ReadUnit, Unit, End, Address
<1>2. cursor \in Address /\ cursor + 2 \in Address
    BY <1>1 DEF Address
<1>3. TypeOK'
    BY <1>2 DEF Invariant, TypeOK, ReadUnit, Unit, Goto, queryVars, bufferVars
<1>4. ReadsInside'
    BY <1>1 DEF ReadUnit, Unit, bufferVars, ReadsInside
<1>5. ParserInvariant'
    BY <1>1, <1>4 DEF Invariant, ReadUnit, Unit, Goto, bufferVars,
        ParserInvariant, Parsing, ListBounded
<1> QED BY <1>3, <1>5 DEF Invariant

----------------------------------------------------------------------------
LEMMA NextInvariant == Invariant /\ [Next]_vars => Invariant'
<1> SUFFICES ASSUME Invariant, [Next]_vars PROVE Invariant'
    OBVIOUS
<1>1. CASE UNCHANGED vars
    BY <1>1 DEF Invariant, vars, TypeOK, ParserInvariant, Parsing, ReadsInside, ListBounded
<1> QED BY <1>1, CallKeeps, ProbeKeeps, AllocateKeeps, RetryKeeps, FillKeeps, OutsideKeeps,
           ReadRecordKeeps, LinkKeeps, ReadUnitKeeps DEF Next, Query

\* The inductive invariant, on every step of get_filters and of the parser.
THEOREM ParserInvariantHolds == Spec => []Invariant
BY InitInvariant, NextInvariant, PTL DEF Spec

\* Type correctness: no sum of the parser leaves the address space.
THEOREM ParserTypeCorrect == Spec => []TypeOK
BY ParserInvariantHolds, PTL DEF Invariant

\* No record and no unit of a string is read outside the part of the buffer that
\* Windows said it wrote, whatever it wrote.
THEOREM ReadsStayInside == Spec => []ReadsInside
<1>1. Invariant => ReadsInside
    BY DEF Invariant, ParserInvariant
<1> QED BY <1>1, ParserInvariantHolds, PTL

\* A list has at most as many filters as its buffer has room for.
THEOREM ListIsBounded == Spec => []ListBounded
<1>1. Invariant => ListBounded
    BY DEF Invariant, ParserInvariant
<1> QED BY <1>1, ParserInvariantHolds, PTL
=============================================================================
