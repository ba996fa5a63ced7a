---------------------------- MODULE FilterBuffer ----------------------------
(***************************************************************************)
(* The filter list of a session (src/src/sys.rs: get_filters,              *)
(* AlignedBuffer, parse_filter_buffer and read_buffer_string).             *)
(*                                                                         *)
(* Windows fills a buffer with records linked by relative offsets, whose   *)
(* strings are pointed at by absolute addresses.  The parser trusts none   *)
(* of it.  What a read finds is therefore any value: no record is read     *)
(* twice, and a string may overlap anything.                               *)
(***************************************************************************)
EXTENDS Naturals

CONSTANTS
    RecordSize, \* size_of::<RM_FILTER_INFO>()
    Word,       \* size_of::<usize>(), the alignment of the buffer
    AddressMax, \* usize::MAX: what checked_add must not exceed
    MaxNeeded,  \* sizes Windows asks for (a bound of the model)
    MaxAttempts \* MAX_LIST_ATTEMPTS (8)

Unit == 2   \* size_of::<u16>()

ASSUME BufferAssumption ==
    /\ RecordSize \in Nat \ {0} /\ Word \in Nat \ {0}
    /\ AddressMax \in Nat /\ MaxNeeded \in Nat /\ MaxAttempts \in Nat

VARIABLES
    at,         \* program counter of the query
    needed,     \* the size Windows asked for
    attempt,    \* iterations of the retry loop begun
    supplied,   \* size of the buffer given to Windows
    base,       \* its address
    valid,      \* byte_len: how much of it is parsed
    offset,     \* of the record being parsed
    next,       \* cbNextOffset of that record
    cursor,     \* address of the unit of its string read next
    filters,    \* records pushed
    read,       \* history: the addresses of the last read, first and past the end
    result      \* what the query returned

vars == <<at, needed, attempt, supplied, base, valid, offset, next, cursor, filters, read, result>>

\* AlignedBuffer: whole words, with room in the address space.
Capacity(bytes) == ((bytes + Word - 1) \div Word) * Word
Address == 0 .. AddressMax
Overflows(a, b) == a + b > AddressMax     \* checked_add fails
NoRead == <<0, 0>>
Result == {"pending", "list", "os", "tooLarge", "noMemory", "malformed", "dataChanged"}

TypeOK ==
    /\ at \in {"idle", "probing", "sizing", "filling", "record", "string", "linking"}
    /\ needed \in 0 .. MaxNeeded
    /\ attempt \in 0 .. MaxAttempts
    /\ supplied \in 0 .. MaxNeeded
    /\ base \in Address
    /\ valid \in 0 .. MaxNeeded
    /\ offset \in Address /\ next \in Address /\ cursor \in Address
    /\ filters \in Nat
    /\ read \in Address \X Address
    /\ result \in Result

Init ==
    /\ at = "idle"
    /\ needed = 0 /\ attempt = 0 /\ supplied = 0
    /\ base = 0 /\ valid = 0
    /\ offset = 0 /\ next = 0 /\ cursor = 0
    /\ filters = 0
    /\ read = NoRead
    /\ result = "pending"

Return(kind) == at' = "idle" /\ result' = kind
Goto(pc) == at' = pc /\ UNCHANGED result

queryVars == <<needed, attempt>>
bufferVars == <<supplied, base, valid>>
parserVars == <<offset, next, cursor, filters, read>>

----------------------------------------------------------------------------
(***************************************************************************)
(* get_filters.                                                            *)
(***************************************************************************)
Call ==
    /\ at = "idle"
    /\ at' = "probing" /\ result' = "pending"
    /\ attempt' = 0
    /\ offset' = 0 /\ next' = 0 /\ cursor' = 0 /\ filters' = 0 /\ read' = NoRead
    /\ UNCHANGED <<needed, bufferVars>>

\* RmGetFilterList without a buffer: an error, or a size, which is all there is to
\* say of an empty list.
Probe(size) ==
    /\ at = "probing"
    /\ needed' = size
    /\ \/ Return("os")
       \/ IF size = 0 THEN Return("list") \/ Goto("sizing") ELSE Goto("sizing")
    /\ UNCHANGED <<attempt, bufferVars, parserVars>>

\* The head of the loop.  (A variant goes on for ever.)
AllocateAlways(address) ==
    /\ at = "sizing"
    /\ supplied' = needed /\ base' = address
    /\ address > 0 /\ address % Word = 0 /\ address + Capacity(needed) <= AddressMax
    /\ Goto("filling")
    /\ UNCHANGED <<queryVars, valid, parserVars>>

Allocate(address) ==
    /\ at = "sizing"
    /\ IF attempt = MaxAttempts
       THEN Return("dataChanged") /\ UNCHANGED <<attempt, supplied, base>>
       ELSE /\ attempt' = attempt + 1
            /\ IF needed = 0 \/ Overflows(needed, Word - 1)
               THEN /\ Return(IF needed = 0 THEN "list" ELSE "tooLarge")
                    /\ UNCHANGED <<supplied, base>>
               ELSE \/ /\ address > 0 /\ address % Word = 0
                       /\ address + Capacity(needed) <= AddressMax
                       /\ supplied' = needed /\ base' = address
                       /\ Goto("filling")
                    \/ Return("noMemory") /\ UNCHANGED <<supplied, base>>
    /\ UNCHANGED <<needed, valid, parserVars>>

\* RmGetFilterList with the buffer: it fails, asks for another size, ...
FillFails ==
    /\ at = "filling"
    /\ Return("os")
    /\ UNCHANGED <<queryVars, bufferVars, parserVars>>

FillMore(size) ==
    /\ at = "filling"
    /\ needed' = size
    /\ Goto("sizing")
    /\ UNCHANGED <<attempt, bufferVars, parserVars>>

\* ... or succeeds and says how much it wrote; nothing said means all of it.  A
\* length above the buffer's, or too short for a record, is refused.  (A variant
\* believes what Windows says.)
FillTrusting(size) ==
    /\ at = "filling"
    /\ valid' = IF size = 0 THEN supplied ELSE size
    /\ IF valid' < RecordSize THEN Return("malformed") ELSE Goto("record")
    /\ UNCHANGED <<queryVars, supplied, base, parserVars>>

Fill(size) ==
    /\ at = "filling"
    /\ valid' = IF size = 0 THEN supplied ELSE size
    /\ IF valid' > supplied \/ valid' < RecordSize
       THEN Return("malformed")
       ELSE Goto("record")
    /\ UNCHANGED <<queryVars, supplied, base, parserVars>>

----------------------------------------------------------------------------
(***************************************************************************)
(* parse_filter_buffer.  Its own checks for an empty buffer and for a      *)
(* length above the allocation are met by every caller.                    *)
(***************************************************************************)
End == base + valid

\* The record at offset would not lie inside the buffer.
RecordOutside ==
    /\ at = "record"
    /\ Overflows(offset, RecordSize) \/ offset + RecordSize > valid
    /\ Return("malformed")
    /\ UNCHANGED <<queryVars, bufferVars, parserVars>>

\* A record is read, with this trigger, string pointer and next offset; a process
\* is in the record itself, a string must begin at an aligned address inside.
StringInside(pointer) == pointer > 0 /\ base <= pointer /\ pointer < End /\ pointer % Unit = 0

ReadRecord(trigger, pointer, link) ==
    /\ at = "record"
    /\ ~Overflows(offset, RecordSize) /\ offset + RecordSize <= valid
    /\ read' = <<base + offset, base + offset + RecordSize>>
    /\ next' = link
    /\ IF trigger = "string" /\ StringInside(pointer)
       THEN cursor' = pointer /\ (Goto("string") \/ Return("noMemory"))
       ELSE /\ UNCHANGED cursor
            /\ IF trigger = "process" THEN Goto("linking") ELSE Return("malformed")
    /\ UNCHANGED <<queryVars, bufferVars, offset, filters>>

\* The record is pushed; the next one must begin behind it.  (A variant only asks
\* that it is another one.)
LinkAnywhere ==
    /\ at = "linking"
    /\ filters' = filters + 1
    /\ \/ next = 0 /\ Return("list") /\ UNCHANGED offset
       \/ next # 0 /\ Overflows(offset, next) /\ Return("malformed") /\ UNCHANGED offset
       \/ next # 0 /\ ~Overflows(offset, next) /\ offset' = offset + next /\ Goto("record")
    /\ UNCHANGED <<queryVars, bufferVars, next, cursor, read>>

\* (A variant adds without checking.)
LinkUnchecked ==
    /\ at = "linking"
    /\ filters' = filters + 1
    /\ IF next = 0
       THEN Return("list") /\ UNCHANGED offset
       ELSE IF next < RecordSize
       THEN Return("malformed") /\ UNCHANGED offset
       ELSE offset' = offset + next /\ Goto("record")
    /\ UNCHANGED <<queryVars, bufferVars, next, cursor, read>>

Link ==
    /\ at = "linking"
    /\ filters' = filters + 1
    /\ IF next = 0
       THEN Return("list") /\ UNCHANGED offset
       ELSE IF next < RecordSize \/ Overflows(offset, next)
       THEN Return("malformed") /\ UNCHANGED offset
       ELSE offset' = offset + next /\ Goto("record")
    /\ UNCHANGED <<queryVars, bufferVars, next, cursor, read>>

----------------------------------------------------------------------------
(***************************************************************************)
(* read_buffer_string: unit by unit, to the first NUL.                     *)
(***************************************************************************)
StringOutside ==
    /\ at = "string"
    /\ Overflows(cursor, Unit) \/ cursor + Unit > End
    /\ Return("malformed")
    /\ UNCHANGED <<queryVars, bufferVars, parserVars>>

\* (A variant checks where the unit begins, not where it ends.)
ReadUnitFromInside(nul) ==
    /\ at = "string"
    /\ ~Overflows(cursor, Unit) /\ cursor < End
    /\ read' = <<cursor, cursor + Unit>>
    /\ IF nul THEN Goto("linking") /\ UNCHANGED cursor
              ELSE cursor' = cursor + Unit /\ UNCHANGED <<at, result>>
    /\ UNCHANGED <<queryVars, bufferVars, offset, next, filters>>

ReadUnit(nul) ==
    /\ at = "string"
    /\ ~Overflows(cursor, Unit) /\ cursor + Unit <= End
    /\ read' = <<cursor, cursor + Unit>>
    /\ IF nul THEN Goto("linking") /\ UNCHANGED cursor
              ELSE cursor' = cursor + Unit /\ UNCHANGED <<at, result>>
    /\ UNCHANGED <<queryVars, bufferVars, offset, next, filters>>

----------------------------------------------------------------------------
Trigger == {"string", "process", "unknown"}

Query ==
    \/ \E size \in 0 .. MaxNeeded : Probe(size) \/ FillMore(size) \/ Fill(size)
    \/ \E address \in Address : Allocate(address)
    \/ FillFails
    \/ RecordOutside \/ Link \/ StringOutside
    \/ \E trigger \in Trigger, pointer \in Address, link \in Address :
        ReadRecord(trigger, pointer, link)
    \/ \E nul \in BOOLEAN : ReadUnit(nul)

Next == Call \/ Query

Spec == Init /\ [][Next]_vars

\* The thread that asks goes on; Windows answers every call.
FairSpec == Spec /\ WF_vars(Query)

----------------------------------------------------------------------------
\* No read leaves what Windows was given to write, whatever offsets, pointers and
\* lengths it answers: the SAFETY arguments of the parser (sys.rs:640, :720).
ReadsInside ==
    read # NoRead => base <= read[1] /\ read[2] <= base + valid /\ valid <= supplied

\* Records do not overlap, so that a list is never longer than its buffer allows,
\* however the records are linked: the memory the parser takes is bounded (sys.rs:683).
ListBounded == filters * RecordSize <= valid

\* The inductive invariant: where the parser is, and how much of the buffer lies
\* behind it.
Parsing == {"record", "string", "linking"}
ParserInvariant ==
    /\ at \in {"probing", "sizing", "filling"} => filters = 0 /\ read = NoRead
    /\ at \in Parsing \cup {"filling"} => base + supplied <= AddressMax
    /\ at \in Parsing => valid <= supplied /\ filters * RecordSize <= offset
    /\ at \in {"string", "linking"} => offset + RecordSize <= valid
    /\ at = "string" => base <= cursor
    /\ ReadsInside /\ ListBounded

\* The query ends, whatever Windows links and however often it asks for another
\* size (sys.rs:548, :636).
QueryEnds == at # "idle" ~> at = "idle"
=============================================================================
